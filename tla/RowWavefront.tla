---------------------------- MODULE RowWavefront ----------------------------
(***************************************************************************)
(* One frame encoded by a wavefront of CTU rows (encoder/frameencoder.cpp, *)
(* encoder/framefilter.cpp, common/wavefront.cpp).                         *)
(*                                                                         *)
(*   the frame thread   compressFrame(): enables the rows one after the    *)
(*                      other as its reference frame is reconstructed,     *)
(*                      then waits for the completion event                *)
(*   the workers        threadMain(): findJob() takes the lowest row that  *)
(*                      is queued and enabled, and encodes or filters it   *)
(*                                                                         *)
(* Row r stays two CTUs behind row r - 1.  A row that caught up is left,   *)
(* and is queued again by the row above.  The filter rows follow           *)
(* FilterDelay rows behind, one at a time.  With VBV rate control a row    *)
(* may stop all rows from its own one on, and have them encoded again.     *)
(*                                                                         *)
(* The pool is reduced to what one provider sees of it: workers that sleep *)
(* and may be woken, and the flag helpWanted.                              *)
(***************************************************************************)
EXTENDS Integers, FiniteSets, FiniteSetsExt

CONSTANTS NumRows, NumCols,
          FilterDelay,      \* rows the filters stay behind the encoder
          RefLag,           \* reference rows a row needs below its own
          Workers,          \* threads of the pool
          MaxRestarts       \* bound: restarts in a frame; 0: no VBV

\* encoder.cpp: no wavefront for one row or fewer than three columns
ASSUME SizeAssumption == NumRows \in Nat \ {0, 1} /\ NumCols \in Nat \ (0 .. 2)
ASSUME DelayAssumption == FilterDelay \in 0 .. 2 /\ FilterDelay < NumRows
ASSUME LagAssumption == RefLag \in Nat
ASSUME RestartAssumption == MaxRestarts \in Nat

Rows == 0 .. NumRows - 1
Last == NumRows - 1

\* The two bitmaps have a bit for the encoder and one for the filter of a row.
Enc(r)  == 2 * r
Filt(r) == 2 * r + 1
Jobs    == 0 .. 2 * NumRows - 1

VARIABLES
    active, busy, completed,    \* CTURow
    queued, enabled,            \* internal and external dependency bitmaps
    helpWanted,                 \* m_helpWanted of the frame encoder
    pc, at, k,                  \* each worker: its step, row, and row r of a restart
    stop, trigger,              \* m_bAllRowsStop, m_vbvResetTriggerRow
    main,                       \* rows enabled by compressFrame(); NumRows + 1: done
    refRows, reconRows,         \* m_reconRowCount of the reference and of this frame
    count, fired,               \* m_completionCount, the counter of m_completionEvent
    restarts

rowVars  == <<active, busy, completed>>
bitmaps  == <<queued, enabled>>
restart  == <<stop, trigger, restarts>>
mainVars == <<main, refRows>>
doneVars == <<reconRows, count, fired>>
vars     == <<rowVars, bitmaps, helpWanted, pc, at, k, restart, mainVars, doneVars>>

Init == /\ active = [r \in Rows |-> r = 0]
        /\ busy = [r \in Rows |-> FALSE]
        /\ completed = [r \in Rows |-> 0]
        /\ queued = {} /\ enabled = {}
        /\ helpWanted = FALSE
        /\ pc = [w \in Workers |-> "sleep"]
        /\ at = [w \in Workers |-> 0] /\ k = [w \in Workers |-> 0]
        /\ stop = FALSE /\ trigger = -1 /\ restarts = 0
        /\ main = 0 /\ refRows = 0
        /\ reconRows = 0 /\ count = 0 /\ fired = 0

Goto(w, label) == pc' = [pc EXCEPT ![w] = label]

\* tryWakeOne(), called when the steps of the workers are p: wake a sleeping
\* worker, or leave word for one that looks for work
TryWakeOne(p) ==
    \/ /\ \E s \in Workers : p[s] = "sleep" /\ pc' = [p EXCEPT ![s] = "find"]
       /\ UNCHANGED helpWanted
    \/ /\ \A s \in Workers : p[s] # "sleep"
       /\ pc' = p
       /\ helpWanted' = TRUE

-----------------------------------------------------------------------------
(* A worker between rows: WorkerThread::threadMain(), WaveFront::findJob() *)

Ready == queued \cap enabled

\* mutant: the bit is read but not cleared
TakeKeep(j) == UNCHANGED queued
Take(j)     == queued' = queued \ {j}

FindJob(w) ==
    /\ pc[w] = "find"
    /\ \/ /\ Ready # {}
          /\ LET j == Min(Ready)
             IN /\ Take(j)
                /\ at' = [at EXCEPT ![w] = j \div 2]
                /\ Goto(w, IF j = Enc(j \div 2) THEN "start" ELSE "filter")
       \/ /\ Ready = {}
          /\ Goto(w, "none")
          /\ UNCHANGED <<queued, at>>
    /\ UNCHANGED <<rowVars, enabled, helpWanted, k, restart, mainVars, doneVars>>

\* the end of findJob(), with a row processed or with none
EndFindJob(w) ==
    /\ pc[w] \in {"found", "none"}
    /\ helpWanted' = (pc[w] = "found")
    /\ Goto(w, "loop")
    /\ at' = [at EXCEPT ![w] = 0] /\ k' = [k EXCEPT ![w] = 0]
    /\ UNCHANGED <<rowVars, bitmaps, restart, mainVars, doneVars>>

\* while( helpWanted ); then the sleep bit is set
Loop(w) ==
    /\ \/ pc[w] = "loop" /\ Goto(w, IF helpWanted THEN "find" ELSE "doze")
       \/ pc[w] = "doze" /\ Goto(w, "sleep")
    /\ UNCHANGED <<rowVars, bitmaps, helpWanted, at, k, restart, mainVars, doneVars>>

-----------------------------------------------------------------------------
(* processRowEncoder() *)

\* encoder and filter rows of a frame; mutant: one too few
TotalLess == 2 * NumRows - 1
Total     == 2 * NumRows

\* ++m_completionCount, n times: the event fires when it reaches Total
CountJobs(n) ==
    /\ count' = count + n
    /\ fired' = IF count < Total /\ Total <= count + n THEN fired + 1 ELSE fired

NextCTU(r) == IF completed[r] < NumCols THEN "ctu" ELSE "filters"

\* "VBV restart is in progress", "simultaneous row access", or the row is ours
StartRow(w) ==
    /\ pc[w] = "start"
    /\ LET r == at[w]
       IN IF active[r] /\ ~busy[r]
          THEN busy' = [busy EXCEPT ![r] = TRUE] /\ Goto(w, NextCTU(r))
          ELSE Goto(w, "found") /\ UNCHANGED busy
    /\ UNCHANGED <<active, completed, bitmaps, helpWanted, at, k, restart, mainVars, doneVars>>

EncodeCTU(w) ==
    /\ pc[w] = "ctu"
    /\ LET r == at[w]
       IN /\ completed' = [completed EXCEPT ![r] = @ + 1]
          /\ Goto(w, IF completed[r] = r /\ r > 0 /\ restarts < MaxRestarts
                     THEN "vbv" ELSE "below")
    /\ UNCHANGED <<active, busy, bitmaps, helpWanted, at, k, restart, mainVars, doneVars>>

\* the row reached its diagonal: rate control may ask for a restart
Diagonal(w) ==
    /\ pc[w] = "vbv"
    /\ \/ Goto(w, "below") /\ UNCHANGED <<k, restart>>
       \/ /\ trigger' = at[w] /\ stop' = TRUE
          /\ restarts' = restarts + 1
          /\ k' = [k EXCEPT ![w] = Last]
          /\ Goto(w, "halt")
    /\ UNCHANGED <<rowVars, bitmaps, helpWanted, at, mainVars, doneVars>>

\* a row below the restarted one: wait until nobody is about to run it, and
\* take it out of the queue
HaltRow(w) ==
    /\ pc[w] = "halt" /\ k[w] > at[w]
    /\ active[k[w]] => Enc(k[w]) \in queued
    /\ active' = [active EXCEPT ![k[w]] = FALSE]
    /\ queued' = IF active[k[w]] THEN queued \ {Enc(k[w])} ELSE queued
    /\ Goto(w, "drain")
    /\ UNCHANGED <<busy, completed, enabled, helpWanted, at, k, restart, mainVars, doneVars>>

\* and until nobody is in it; its lock is not held when it is reset
DrainRow(w) ==
    /\ pc[w] = "drain"
    /\ ~busy[k[w]]
    /\ Goto(w, "reset")
    /\ UNCHANGED <<rowVars, bitmaps, helpWanted, at, k, restart, mainVars, doneVars>>

\* the worker's own row comes last
ResetRow(w) ==
    /\ pc[w] = "reset" \/ (pc[w] = "halt" /\ k[w] = at[w])
    /\ completed' = [completed EXCEPT ![k[w]] = 0]
    /\ IF k[w] > at[w] THEN Goto(w, "halt") /\ k' = [k EXCEPT ![w] = @ - 1]
                       ELSE Goto(w, "restarted") /\ k' = [k EXCEPT ![w] = 0]
    /\ UNCHANGED <<active, busy, bitmaps, helpWanted, at, restart, mainVars, doneVars>>

EndRestart(w) ==
    /\ pc[w] = "restarted"
    /\ stop' = FALSE
    /\ Goto(w, "below")
    /\ UNCHANGED <<rowVars, bitmaps, helpWanted, at, k, trigger, restarts, mainVars, doneVars>>

\* whether the row below may be activated: m_bAllRowsStop is read here, the
\* lock of the row below is taken in the next step
LookBelow(w) ==
    /\ pc[w] = "below"
    /\ LET r == at[w]
       IN Goto(w, IF completed[r] >= 2 /\ r < Last /\ (stop => r + 1 < trigger)
                  THEN "lock" ELSE "check")
    /\ UNCHANGED <<rowVars, bitmaps, helpWanted, at, k, restart, mainVars, doneVars>>

\* mutant: one CTU behind is enough
FarBehindOne(r) == ~active[r] /\ completed[r] + 1 <= completed[r - 1]
FarBehind(r)    == ~active[r] /\ completed[r] + 2 <= completed[r - 1]

ActivateBelow(w) ==
    /\ pc[w] = "lock"
    /\ LET r == at[w] + 1
       IN \/ /\ FarBehind(r)
             /\ active' = [active EXCEPT ![r] = TRUE]
             /\ queued' = queued \cup {Enc(r)}
             /\ TryWakeOne([pc EXCEPT ![w] = "check"])
          \/ /\ ~FarBehind(r)
             /\ Goto(w, "check")
             /\ UNCHANGED <<active, queued, helpWanted>>
    /\ UNCHANGED <<busy, completed, enabled, at, k, restart, mainVars, doneVars>>

CaughtUp(r) == r > 0 /\ completed[r] < NumCols - 1 /\ completed[r - 1] < completed[r] + 2

\* with the row's own lock: leave the row, take its next CTU, or finish it
CheckAbove(w) ==
    /\ pc[w] = "check"
    /\ LET r == at[w]
           leave == (stop /\ r > trigger) \/ CaughtUp(r)
       IN /\ active' = [active EXCEPT ![r] = @ /\ ~leave]
          /\ busy' = [busy EXCEPT ![r] = ~leave]
          /\ Goto(w, IF leave THEN "found" ELSE NextCTU(r))
    /\ UNCHANGED <<completed, bitmaps, helpWanted, at, k, restart, mainVars, doneVars>>

\* the first filter row is queued here, the others by the one above them;
\* mutant: each is queued when it is enabled
EveryFilter(r) == TRUE
FirstFilter(r) == r = FilterDelay

\* the row is complete: enable the filter row FilterDelay behind
EnableFilter(w) ==
    /\ pc[w] = "filters"
    /\ LET r == at[w]
           next == [pc EXCEPT ![w] = IF r = Last THEN "last" ELSE "leave"]
       IN \/ /\ r >= FilterDelay
             /\ enabled' = enabled \cup {Filt(r - FilterDelay)}
             /\ queued' = queued \cup (IF FirstFilter(r) THEN {Filt(r - FilterDelay)} ELSE {})
             /\ TryWakeOne(next)
          \/ r < FilterDelay /\ pc' = next /\ UNCHANGED <<bitmaps, helpWanted>>
    /\ UNCHANGED <<rowVars, at, k, restart, mainVars, doneVars>>

\* the last row enables the filter rows that are left
EnableLastFilters(w) ==
    /\ pc[w] = "last"
    /\ enabled' = enabled \cup {Filt(i) : i \in NumRows - FilterDelay .. Last}
    /\ TryWakeOne([pc EXCEPT ![w] = "leave"])
    /\ UNCHANGED <<rowVars, queued, at, k, restart, mainVars, doneVars>>

FinishRow(w) ==
    /\ pc[w] = "leave"
    /\ busy' = [busy EXCEPT ![at[w]] = FALSE]
    /\ CountJobs(1)
    /\ Goto(w, "found")
    /\ UNCHANGED <<active, completed, bitmaps, helpWanted, at, k, restart, mainVars, reconRows>>

-----------------------------------------------------------------------------
(* FrameFilter::processRow() and the rest of FrameEncoder::processRow() *)

\* rows a filter row completes: with a filter the row above, and the last row
Posted(r) == IF FilterDelay = 0 THEN 1
             ELSE (IF r > 0 THEN 1 ELSE 0) + (IF r = Last THEN 1 ELSE 0)

FilterRow(w) ==
    /\ pc[w] = "filter"
    /\ reconRows' = reconRows + Posted(at[w])
    /\ CountJobs(Posted(at[w]))
    /\ Goto(w, IF at[w] = Last THEN "found" ELSE "next")
    /\ UNCHANGED <<rowVars, bitmaps, helpWanted, at, k, restart, mainVars>>

QueueNextFilter(w) ==
    /\ pc[w] = "next"
    /\ queued' = queued \cup {Filt(at[w] + 1)}
    /\ Goto(w, "found")
    /\ UNCHANGED <<rowVars, enabled, helpWanted, at, k, restart, mainVars, doneVars>>

-----------------------------------------------------------------------------
(* compressFrame() *)

\* every reference has reconstructed the rows that row r may reach
RefReady(r) == refRows = NumRows \/ refRows >= r + RefLag

EnableRow ==
    /\ main < NumRows
    /\ RefReady(main)
    /\ enabled' = enabled \cup {Enc(main)}
    /\ queued' = queued \cup (IF main = 0 THEN {Enc(0)} ELSE {})
    /\ TryWakeOne(pc)
    /\ main' = main + 1
    /\ UNCHANGED <<rowVars, at, k, restart, refRows, doneVars>>

\* m_completionEvent.timedWait(): a timeout wakes a worker once more;
\* mutant: no timeout
NoTimeout == FALSE
Timeout   == main = NumRows /\ fired = 0

Retry ==
    /\ Timeout
    /\ TryWakeOne(pc)
    /\ UNCHANGED <<rowVars, bitmaps, at, k, restart, mainVars, doneVars>>

Complete ==
    /\ main = NumRows /\ fired > 0
    /\ main' = NumRows + 1
    /\ fired' = fired - 1
    /\ UNCHANGED <<rowVars, bitmaps, helpWanted, pc, at, k, restart, refRows, reconRows, count>>

\* another frame encoder reconstructs the reference
RefProgress ==
    /\ refRows < NumRows
    /\ refRows' = refRows + 1
    /\ UNCHANGED <<rowVars, bitmaps, helpWanted, pc, at, k, restart, main, doneVars>>

-----------------------------------------------------------------------------
WorkerStep(w) ==
    \/ FindJob(w) \/ EndFindJob(w) \/ Loop(w)
    \/ StartRow(w) \/ EncodeCTU(w) \/ LookBelow(w) \/ ActivateBelow(w) \/ CheckAbove(w)
    \/ Diagonal(w) \/ HaltRow(w) \/ DrainRow(w) \/ ResetRow(w) \/ EndRestart(w)
    \/ EnableFilter(w) \/ EnableLastFilters(w) \/ FinishRow(w)
    \/ FilterRow(w) \/ QueueNextFilter(w)

Next == \/ \E w \in Workers : WorkerStep(w)
        \/ EnableRow \/ Retry \/ Complete
        \/ RefProgress

Spec == Init /\ [][Next]_vars

\* Threads run, the timed wait times out, and the reference, a frame like this
\* one, is completed.
FairSpec == /\ Spec
            /\ \A w \in Workers : WF_vars(WorkerStep(w))
            /\ WF_vars(EnableRow \/ Retry \/ Complete)
            /\ WF_vars(RefProgress)

-----------------------------------------------------------------------------
(* Properties *)

Labels == {"sleep", "find", "found", "none", "loop", "doze", "start", "ctu", "vbv", "halt",
           "drain", "reset", "restarted", "below", "lock", "check", "filters", "last", "leave",
           "filter", "next"}

\* Every variable has its type.
TypeOK == /\ active \in [Rows -> BOOLEAN] /\ busy \in [Rows -> BOOLEAN]
          /\ completed \in [Rows -> 0 .. NumCols]
          /\ queued \subseteq Jobs /\ enabled \subseteq Jobs
          /\ helpWanted \in BOOLEAN
          /\ pc \in [Workers -> Labels]
          /\ at \in [Workers -> Rows] /\ k \in [Workers -> Rows]
          /\ stop \in BOOLEAN /\ trigger \in Rows \cup {-1} /\ restarts \in 0 .. MaxRestarts
          /\ main \in 0 .. NumRows + 1 /\ refRows \in 0 .. NumRows
          /\ reconRows \in 0 .. NumRows /\ count \in 0 .. 2 * NumRows /\ fired \in {0, 1}

\* The steps in which a worker is inside a row's processRowEncoder().
InRow == {"ctu", "vbv", "halt", "drain", "reset", "restarted", "below", "lock", "check",
          "filters", "last", "leave"}

\* "internal error - simultaneous row access detected" (frameencoder.cpp:813)
\* is never logged: a row is busy for at most one worker, and whoever took a
\* row's bit finds it active and not busy.
OneWorkerPerRow ==
    \A w \in Workers :
        /\ pc[w] = "start" => active[at[w]] /\ ~busy[at[w]]
        /\ pc[w] \in InRow => busy[at[w]]
        /\ \A v \in Workers \ {w} : {pc[v], pc[w]} \subseteq InRow \cup {"start"} => at[v] # at[w]

\* The types, and rows that are not shared.
WaveInv == TypeOK /\ OneWorkerPerRow

\* A CTU is encoded after the CTU above and to the right of it, in the same run
\* of the row above (and not in one that a restart threw away), and after the
\* rows of the reference that its motion vectors may reach.
CtuReady ==
    \A w \in Workers : pc[w] = "ctu" =>
        /\ at[w] > 0 => completed[at[w] - 1] >= Min({completed[at[w]] + 2, NumCols})
        /\ refRows >= Min({at[w] + RefLag, NumRows})

\* A filter row runs alone, in order, and only over rows that are encoded and
\* will not be encoded again.
Filtering == {w \in Workers : pc[w] \in {"filter", "next"}}
FilterBehind ==
    /\ Cardinality(Filtering) + Cardinality({r \in Rows : Filt(r) \in queued}) <= 1
    /\ \A w \in Filtering : \A r \in 0 .. Min({at[w] + FilterDelay, Last}) :
          completed[r] = NumCols

\* When the frame thread goes on to write the bitstream, every row is encoded
\* and filtered and nobody is in one.
DoneIsDone == fired > 0 \/ main > NumRows =>
    /\ \A r \in Rows : completed[r] = NumCols /\ ~busy[r]
    /\ reconRows = NumRows
    /\ queued = {}

\* The frame is completed: no row is forgotten, however wakeups and helpWanted
\* are lost.
FrameCompletes == <>(main = NumRows + 1)
=============================================================================
