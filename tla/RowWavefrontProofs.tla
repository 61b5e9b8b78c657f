------------------------- MODULE RowWavefrontProofs -------------------------
(***************************************************************************)
(* For frames of any size, any number of workers and any lag of the        *)
(* filters and the references, as long as no row is restarted (the rate    *)
(* control of the streaming server has no VBV): rows are not shared, a CTU *)
(* is encoded after what it depends on, the filters stay behind, and the   *)
(* frame is complete when it is said to be.                                *)
(***************************************************************************)
EXTENDS RowWavefront, FiniteSetTheorems, WellFoundedInduction, TLAPS

-----------------------------------------------------------------------------
(* The inductive invariant *)

\* No row asks for a restart.
NoRestart == /\ MaxRestarts = 0 /\ restarts = 0 /\ stop = FALSE /\ trigger = -1
             /\ \A w \in Workers : pc[w] \notin {"vbv", "halt", "drain", "reset", "restarted"}

\* A worker that encodes a row, or has taken its bit; before and after it
\* enabled the filter row of the row.
Idle     == {"sleep", "find", "found", "none", "loop", "doze"}
Encoding == {"start", "ctu", "below", "lock", "check", "filters"}
Leaving  == {"last", "leave"}
Has(w, r) == at[w] = r /\ pc[w] \in Encoding \cup Leaving

\* A row that is not active is not queued and nobody has it, and an active one
\* is either queued, or one worker has it, or neither.
Tokens ==
    /\ \A w \in Workers : pc[w] \in Encoding \cup Leaving =>
          /\ active[at[w]] /\ Enc(at[w]) \notin queued
          /\ busy[at[w]] <=> pc[w] # "start"
    /\ \A v, w \in Workers, r \in Rows : Has(v, r) /\ Has(w, r) => v = w
    /\ \A r \in Rows : Enc(r) \in queued => active[r] /\ ~busy[r]
    /\ \A r \in Rows : busy[r] => \E w \in Workers : Has(w, r)
    /\ main = 0 => /\ queued = {} /\ enabled = {} /\ completed[0] = 0 /\ active[0]
                   /\ \A w \in Workers : pc[w] \in Idle

\* Rows form a stair: a row that has begun is behind each row above it, unless
\* that is complete.
Stair ==
    \A q, r \in Rows : q < r /\ completed[r] > 0 =>
        completed[q] > completed[r] \/ completed[q] = NumCols

\* The next CTU of a row has its neighbour above and to the right.
Clear(r) ==
    /\ completed[r] < NumCols
    /\ r > 0 => completed[r - 1] >= completed[r] + 2 \/ completed[r - 1] = NumCols
Waiting(r) == IF r = 0 THEN completed[r] = 0 ELSE completed[r] + 2 <= completed[r - 1]

Columns ==
    /\ Stair
    /\ \A r \in Rows : Enc(r) \in queued => Waiting(r)
    /\ \A w \in Workers :
          /\ pc[w] = "start" => Waiting(at[w])
          /\ pc[w] = "ctu" => Clear(at[w])
          /\ pc[w] = "lock" => at[w] < Last
          /\ pc[w] \in {"filters", "last", "leave"} => completed[at[w]] = NumCols

\* A row is enabled when its reference rows are there.
References ==
    /\ \A r \in Rows : Enc(r) \in enabled => RefReady(r)
    /\ \A w \in Workers : pc[w] \in Encoding \cup Leaving => Enc(at[w]) \in enabled

\* The row whose completion enables a filter row; it is encoded when it does.
Cover(i) == IF i + FilterDelay < NumRows THEN i + FilterDelay ELSE Last
Covered(i) ==
    /\ completed[Cover(i)] = NumCols
    /\ \A w \in Workers : pc[w] \in Encoding => at[w] # Cover(i)

\* The filter row that is next is in one place, and says how many rows are
\* reconstructed.
Turn(w) == pc[w] \in {"filter", "next"}
Before(i) == IF FilterDelay = 0 \/ i = 0 THEN i ELSE i - 1
Filters ==
    /\ \A i \in Rows : Filt(i) \in enabled => Covered(i)
    /\ \A w \in Workers : pc[w] = "last" => at[w] = Last
    /\ \A w \in Workers : Turn(w) => Filt(at[w]) \in enabled
    /\ \A v, w \in Workers : Turn(v) /\ Turn(w) => v = w
    /\ \A i, j \in Rows : Filt(i) \in queued /\ Filt(j) \in queued => i = j
    /\ \A w \in Workers, i \in Rows : ~ (Turn(w) /\ Filt(i) \in queued)
    /\ Filt(0) \notin enabled =>
          /\ reconRows = 0
          /\ \A w \in Workers : ~ Turn(w)
          /\ \A i \in Rows : Filt(i) \notin queued
    /\ \A i \in Rows : Filt(i) \in queued => reconRows = Before(i)
    /\ \A w \in Workers : pc[w] = "filter" => reconRows = Before(at[w])
    /\ \A w \in Workers : pc[w] = "next" => at[w] < Last /\ reconRows = Before(at[w] + 1)

\* The completion counter is the number of rows encoded and of rows filtered.
Finished == {r \in Rows : completed[r] = NumCols /\ ~busy[r]}
Counted ==
    /\ count = Cardinality(Finished) + reconRows
    /\ count < Total => fired = 0 /\ main <= NumRows

IInv == /\ TypeOK /\ NoRestart /\ Tokens /\ Columns /\ References /\ Filters /\ Counted

-----------------------------------------------------------------------------
(* Lemmas about the bits of the rows, and about who is woken *)

\* Every bit of the bitmaps is the encoder's or the filter's of one row.
LEMMA JobNames ==
    /\ 0 \in Rows /\ Last \in Rows
    /\ \A r \in Rows : Enc(r) \in Jobs /\ Filt(r) \in Jobs
    /\ \A r, s \in Rows : Enc(r) # Filt(s)
    /\ \A r, s \in Rows : Enc(r) = Enc(s) => r = s
    /\ \A r, s \in Rows : Filt(r) = Filt(s) => r = s
    /\ \A j \in Jobs : j \div 2 \in Rows
    /\ \A j \in Jobs : j = Enc(j \div 2) \/ j = Filt(j \div 2)
BY SizeAssumption DEF Rows, Last, Jobs, Enc, Filt

\* findJob() finds the lowest bit, if there is one.
LEMMA LowestReady == ASSUME TypeOK, Ready # {} PROVE Min(Ready) \in Ready
<1>1. Ready \subseteq Nat
  BY SizeAssumption DEF TypeOK, Ready, Jobs
<1>2. PICK j \in Ready : \A i \in Ready : ~ (<<i, j>> \in OpToRel(<, Nat))
  BY <1>1, NatLessThanWellFounded, WFMin
<1>3. \A i \in Ready : j <= i
  <2> TAKE i \in Ready
  <2>1. ~ (i < j)
    BY <1>1, <1>2 DEF OpToRel
  <2> QED
    BY <1>1, <2>1
<1> QED
  BY <1>3 DEF Min

\* A worker that is woken looks for work, and no other worker notices.
Stays(v) == \/ pc'[v] = pc[v] /\ at'[v] = at[v]
            \/ pc[v] \in Idle /\ pc'[v] \in Idle
Others(w) == \A v \in Workers \ {w} : Stays(v)
Moves(w, label) == pc'[w] = label /\ at'[w] = at[w] /\ Others(w)

LEMMA WakeMoves ==
    ASSUME TypeOK, NEW w \in Workers, NEW l \in Labels \ {"sleep"}, at' = at,
           TryWakeOne([pc EXCEPT ![w] = l])
    PROVE  pc' \in [Workers -> Labels] /\ helpWanted' \in BOOLEAN /\ Moves(w, l)
<1> DEFINE p == [pc EXCEPT ![w] = l]
<1>1. p \in [Workers -> Labels] /\ p[w] = l /\ \A v \in Workers \ {w} : p[v] = pc[v]
  BY DEF TypeOK
<1>2. "find" \in Labels
  BY DEF Labels
<1>3. /\ pc' \in [Workers -> Labels] /\ helpWanted' \in BOOLEAN
      /\ \A v \in Workers : pc'[v] = p[v] \/ (p[v] = "sleep" /\ pc'[v] = "find")
  BY <1>1, <1>2 DEF TryWakeOne, TypeOK
<1> QED
  BY <1>1, <1>3 DEF Moves, Others, Stays, Idle

LEMMA WakeOthers ==
    ASSUME TypeOK, at' = at, TryWakeOne(pc)
    PROVE  /\ pc' \in [Workers -> Labels] /\ helpWanted' \in BOOLEAN
           /\ \A v \in Workers : Stays(v)
BY DEF TypeOK, TryWakeOne, Stays, Idle, Labels

-----------------------------------------------------------------------------
(* What a step of a worker does to the workers *)

Plain(w) == \/ EndFindJob(w) \/ Loop(w) \/ StartRow(w) \/ EncodeCTU(w) \/ LookBelow(w)
            \/ CheckAbove(w) \/ FinishRow(w) \/ FilterRow(w) \/ QueueNextFilter(w)
Waking(w) == ActivateBelow(w) \/ EnableFilter(w) \/ EnableLastFilters(w)

\* Without a restart a worker takes none of the steps of one.
LEMMA NoRestartSteps ==
    ASSUME TypeOK, NoRestart, NEW w \in Workers, WorkerStep(w)
    PROVE  FindJob(w) \/ Plain(w) \/ Waking(w)
BY DEF NoRestart, WorkerStep, Plain, Waking, Diagonal, HaltRow, DrainRow, ResetRow, EndRestart

\* A worker takes the encoder or the filter of a row whose bits are set, or
\* finds nothing.
Takes(w, j, r, label) ==
    /\ j \in queued /\ j \in enabled /\ queued' = queued \ {j}
    /\ pc'[w] = label /\ at'[w] = r

LEMMA FindJobDoes ==
    ASSUME TypeOK, NEW w \in Workers, FindJob(w)
    PROVE  /\ pc[w] = "find" /\ Others(w)
           /\ UNCHANGED <<rowVars, enabled, helpWanted, k, restart, mainVars, doneVars>>
           /\ pc' \in [Workers -> Labels] /\ at' \in [Workers -> Rows]
           /\ \/ \E r \in Rows : Takes(w, Enc(r), r, "start")
              \/ \E r \in Rows : Takes(w, Filt(r), r, "filter")
              \/ pc'[w] = "none" /\ UNCHANGED <<queued, at>>
<1>t. pc \in [Workers -> Labels] /\ at \in [Workers -> Rows] /\ queued \subseteq Jobs
  BY DEF TypeOK
<1>1. CASE Ready # {} /\ Take(Min(Ready))
  <2>1. PICK j \in Ready : j = Min(Ready)
    BY <1>1, LowestReady
  <2>2. /\ j \in queued /\ j \in enabled /\ queued' = queued \ {j}
    BY <1>1, <2>1 DEF Ready, Take
  <2>3. PICK r \in Rows : r = j \div 2
    BY <1>t, <2>2, JobNames
  <2>4. /\ at' = [at EXCEPT ![w] = r]
        /\ pc' = [pc EXCEPT ![w] = IF j = Enc(r) THEN "start" ELSE "filter"]
    BY <1>1, <2>1, <2>3 DEF FindJob, Goto
  <2>5. j = Enc(r) \/ (j = Filt(r) /\ j # Enc(r))
    BY <1>t, <2>2, <2>3, JobNames
  <2>6. pc'[w] = (IF j = Enc(r) THEN "start" ELSE "filter") /\ at'[w] = r /\ Others(w)
    BY <1>t, <2>4 DEF Others, Stays
  <2>7. pc' \in [Workers -> Labels] /\ at' \in [Workers -> Rows]
    BY <1>t, <2>4 DEF Labels
  <2> QED
    BY <2>2, <2>5, <2>6, <2>7 DEF Takes, FindJob
<1>2. CASE pc' = [pc EXCEPT ![w] = "none"] /\ UNCHANGED <<queued, at>>
  <2>1. pc' \in [Workers -> Labels] /\ at' \in [Workers -> Rows]
    BY <1>t, <1>2 DEF Labels
  <2>2. pc'[w] = "none" /\ Others(w)
    BY <1>t, <1>2 DEF Others, Stays
  <2> QED
    BY <1>2, <2>1, <2>2 DEF FindJob
<1> QED
  BY <1>1, <1>2 DEF FindJob, Goto

\* The other steps take one worker from one label to another.
LEMMA PlainMoves ==
    ASSUME TypeOK, NoRestart, NEW w \in Workers, Plain(w)
    PROVE  /\ Others(w) /\ pc' \in [Workers -> Labels] /\ at' \in [Workers -> Rows]
           /\ EndFindJob(w) \/ at' = at
           /\ UNCHANGED <<enabled, restart, mainVars>>
<1>t. pc \in [Workers -> Labels] /\ at \in [Workers -> Rows]
  BY DEF TypeOK
<1>1. PICK l \in Labels : pc' = [pc EXCEPT ![w] = l]
  BY DEF Plain, EndFindJob, Loop, StartRow, EncodeCTU, LookBelow, CheckAbove, FinishRow, FilterRow,
         QueueNextFilter, Goto, NextCTU, Labels
<1>2. EndFindJob(w) \/ at' = at
  BY DEF Plain, Loop, StartRow, EncodeCTU, LookBelow, CheckAbove, FinishRow, FilterRow,
         QueueNextFilter
<1>3. EndFindJob(w) => at' = [at EXCEPT ![w] = 0]
  BY DEF EndFindJob
<1>4. at' \in [Workers -> Rows] /\ \A v \in Workers \ {w} : at'[v] = at[v]
  BY <1>t, <1>2, <1>3, JobNames
<1>5. UNCHANGED <<enabled, restart, mainVars>>
  BY DEF Plain, EndFindJob, Loop, StartRow, EncodeCTU, LookBelow, CheckAbove, FinishRow, FilterRow,
         QueueNextFilter, bitmaps
<1> QED
  BY <1>t, <1>1, <1>2, <1>4, <1>5 DEF Others, Stays

LEMMA WakingMoves ==
    ASSUME TypeOK, NEW w \in Workers, Waking(w)
    PROVE  /\ Others(w) /\ pc' \in [Workers -> Labels] /\ at' = at /\ helpWanted' \in BOOLEAN
           /\ UNCHANGED <<busy, completed, k, restart, mainVars, doneVars>>
           /\ ActivateBelow(w) => pc'[w] = "check"
           /\ EnableFilter(w) => pc'[w] = IF at[w] = Last THEN "last" ELSE "leave"
           /\ EnableLastFilters(w) => pc'[w] = "leave"
<1>t. pc \in [Workers -> Labels] /\ helpWanted \in BOOLEAN
  BY DEF TypeOK
<1>a. at' = at /\ UNCHANGED <<busy, completed, k, restart, mainVars, doneVars>>
  BY DEF Waking, ActivateBelow, EnableFilter, EnableLastFilters, rowVars
<1>1. CASE ActivateBelow(w)
  <2>1. "check" \in Labels \ {"sleep"}
    BY DEF Labels
  <2>2. CASE TryWakeOne([pc EXCEPT ![w] = "check"])
    BY <1>1, <1>a, <2>1, <2>2, WakeMoves DEF Moves, ActivateBelow, EnableFilter, EnableLastFilters
  <2>3. CASE pc' = [pc EXCEPT ![w] = "check"] /\ helpWanted' = helpWanted
    BY <1>1, <1>t, <1>a, <2>1, <2>3 DEF Others, Stays, ActivateBelow, EnableFilter, EnableLastFilters
  <2> QED
    BY <1>1, <2>2, <2>3 DEF ActivateBelow, Goto
<1>2. CASE EnableFilter(w)
  <2> DEFINE l == IF at[w] = Last THEN "last" ELSE "leave"
  <2>1. l \in Labels \ {"sleep"}
    BY DEF Labels
  <2>2. CASE TryWakeOne([pc EXCEPT ![w] = l])
    BY <1>2, <1>a, <2>1, <2>2, WakeMoves DEF Moves, ActivateBelow, EnableFilter, EnableLastFilters
  <2>3. CASE pc' = [pc EXCEPT ![w] = l] /\ helpWanted' = helpWanted
    BY <1>2, <1>t, <1>a, <2>1, <2>3 DEF Others, Stays, ActivateBelow, EnableFilter, EnableLastFilters
  <2> QED
    BY <1>2, <2>2, <2>3 DEF EnableFilter
<1>3. CASE EnableLastFilters(w)
  <2>1. "leave" \in Labels \ {"sleep"}
    BY DEF Labels
  <2> QED
    BY <1>3, <1>a, <2>1, WakeMoves DEF Moves, ActivateBelow, EnableFilter, EnableLastFilters
<1> QED
  BY <1>1, <1>2, <1>3 DEF Waking

LEMMA NextSteps ==
    ASSUME TypeOK, NoRestart, [Next]_vars
    PROVE  \/ \E w \in Workers : FindJob(w) \/ Plain(w) \/ Waking(w)
           \/ EnableRow \/ Retry \/ Complete \/ RefProgress
           \/ UNCHANGED vars
BY NoRestartSteps DEF Next

-----------------------------------------------------------------------------
(* Each part of the invariant is preserved *)

LEMMA NoRestartStep == ASSUME TypeOK, NoRestart, [Next]_vars PROVE NoRestart'
<1> DEFINE Odd == {"vbv", "halt", "drain", "reset", "restarted"}
<1>0. MaxRestarts = 0 /\ \A v \in Workers : pc[v] \notin Odd
  BY DEF NoRestart
<1>1. ASSUME NEW w \in Workers, FindJob(w) \/ Plain(w) \/ Waking(w) PROVE NoRestart'
  <2>1. Others(w) /\ UNCHANGED restart
    BY <1>1, FindJobDoes, PlainMoves, WakingMoves
  <2>2. pc'[w] \notin Odd
    <3>1. CASE FindJob(w)
      BY <3>1, FindJobDoes DEF Takes
    <3>2. CASE Plain(w)
      BY <1>0, <3>2 DEF Plain, EndFindJob, Loop, StartRow, EncodeCTU, LookBelow, CheckAbove, FinishRow,
          FilterRow, QueueNextFilter, Goto, NextCTU, NoRestart, TypeOK
    <3>3. CASE Waking(w)
      BY <3>3, WakingMoves DEF Waking
    <3> QED
      BY <1>1, <3>1, <3>2, <3>3
  <2> QED
    BY <1>0, <2>1, <2>2 DEF NoRestart, Others, Stays, Idle, restart
<1>2. ASSUME EnableRow \/ Retry PROVE NoRestart'
  <2>1. \A v \in Workers : Stays(v)
    BY <1>2, WakeOthers DEF EnableRow, Retry
  <2> QED
    BY <1>0, <1>2, <2>1 DEF NoRestart, Stays, Idle, restart, EnableRow, Retry
<1>3. ASSUME Complete \/ RefProgress \/ UNCHANGED vars PROVE NoRestart'
  <2>1. pc' = pc /\ UNCHANGED <<stop, trigger, restarts>>
    BY <1>3 DEF Complete, RefProgress, vars, restart
  <2> QED
    BY <2>1 DEF NoRestart
<1> QED
  BY <1>1, <1>2, <1>3, NextSteps

\* The rows of the workers, and who may have them.
Encodes(w) == pc[w] \in Encoding \cup Leaving

LEMMA TokensStep == ASSUME IInv, [Next]_vars PROVE Tokens'
<1>t. TypeOK /\ NoRestart /\ Tokens /\ Columns
  BY DEF IInv
<1>l. /\ pc \in [Workers -> Labels] /\ at \in [Workers -> Rows] /\ active \in [Rows -> BOOLEAN]
      /\ busy \in [Rows -> BOOLEAN] /\ queued \subseteq Jobs /\ completed \in [Rows -> 0 .. NumCols]
  BY <1>t DEF TypeOK
<1>d. (Encoding \cup Leaving) \cap Idle = {} /\ {"filter", "next"} \cap (Encoding \cup Leaving) = {}
  BY DEF Encoding, Leaving, Idle
<1>1. ASSUME NEW w \in Workers, FindJob(w) PROVE Tokens'
  <2>1. /\ pc[w] = "find" /\ Others(w) /\ at' \in [Workers -> Rows]
        /\ UNCHANGED <<active, busy, completed, enabled, main>>
    BY <1>1, <1>t, FindJobDoes DEF rowVars, mainVars
  <2>2. ~ Encodes(w)
    BY <2>1 DEF Encodes, Encoding, Leaving
  <2>3. CASE \E r \in Rows : Takes(w, Enc(r), r, "start")
    <3>1. PICK r \in Rows : Takes(w, Enc(r), r, "start")
      BY <2>3
    <3>2. active[r] /\ ~busy[r] /\ \A v \in Workers : ~ Has(v, r)
      BY <1>t, <3>1 DEF Tokens, Takes, Has
    <3> QED
      BY <1>t, <1>d, <1>l, <2>1, <2>2, <3>1, <3>2 DEF Tokens, Takes, Has, Others, Stays, Encodes, Encoding
  <2>4. CASE \E r \in Rows : Takes(w, Filt(r), r, "filter")
    BY <1>t, <1>d, <1>l, <2>1, <2>2, <2>4 DEF Tokens, Takes, Has, Others, Stays, Encodes
  <2>5. CASE pc'[w] = "none" /\ UNCHANGED <<queued, at>>
    BY <1>t, <1>d, <1>l, <2>1, <2>2, <2>5 DEF Tokens, Has, Others, Stays, Encodes, Idle
  <2> QED
    BY <1>1, <1>t, <2>3, <2>4, <2>5, FindJobDoes
<1>2. ASSUME NEW w \in Workers, EndFindJob(w) \/ Loop(w) PROVE Tokens'
  <2>1. Stays(w) /\ Others(w) /\ UNCHANGED <<rowVars, bitmaps, main>>
    BY <1>2, <1>l, <1>t, PlainMoves DEF EndFindJob, Loop, Goto, Stays, Idle, Plain, mainVars
  <2> QED
    BY <1>t, <1>d, <1>l, <2>1 DEF Tokens, Has, Others, Stays, rowVars, bitmaps
<1>3. ASSUME NEW w \in Workers, StartRow(w) PROVE Tokens'
  <2>1. /\ pc[w] = "start" /\ Others(w) /\ at' = at /\ UNCHANGED <<active, completed, bitmaps, main>>
        /\ active[at[w]] /\ ~ busy[at[w]]
    BY <1>3, <1>t, PlainMoves DEF StartRow, Tokens, Encoding, Plain, EndFindJob, mainVars
  <2>2. busy' = [busy EXCEPT ![at[w]] = TRUE] /\ pc'[w] \in Encoding \cup Leaving /\ pc'[w] # "start"
    BY <1>3, <1>l, <2>1 DEF StartRow, Goto, NextCTU, Encoding
  <2> QED
    BY <1>t, <1>d, <1>l, <2>1, <2>2 DEF Tokens, Has, Others, Stays, Encoding, bitmaps
<1>4. ASSUME NEW w \in Workers, EncodeCTU(w) \/ LookBelow(w) PROVE Tokens'
  <2>1. /\ pc[w] \in {"ctu", "below"} /\ Others(w) /\ at' = at
        /\ UNCHANGED <<active, busy, bitmaps, main>>
    BY <1>4, <1>t, PlainMoves DEF EncodeCTU, LookBelow, Plain, EndFindJob, mainVars, rowVars
  <2>2. pc'[w] \in {"below", "lock", "check"}
    BY <1>4, <1>l, <1>t DEF EncodeCTU, LookBelow, Goto, NoRestart, TypeOK
  <2>3. main # 0
    BY <1>t, <2>1 DEF Tokens, Idle
  <2> QED
    BY <1>t, <1>d, <1>l, <2>1, <2>2, <2>3 DEF Tokens, Has, Others, Stays, Encoding, bitmaps
<1>5. ASSUME NEW w \in Workers, ActivateBelow(w) PROVE Tokens'
  <2>1. /\ pc[w] = "lock" /\ pc'[w] = "check" /\ Others(w) /\ at' = at
        /\ UNCHANGED <<busy, enabled, main, completed>>
    BY <1>5, <1>t, WakingMoves DEF ActivateBelow, Waking, mainVars
  <2>2. main # 0
    BY <1>t, <2>1 DEF Tokens, Idle
  <2>3. PICK r \in Rows : r = at[w] + 1
    BY <1>t, <1>l, <2>1, SizeAssumption DEF Columns, Rows, Last
  <2>4. CASE UNCHANGED <<active, queued>>
    BY <1>t, <1>d, <1>l, <2>1, <2>2, <2>4 DEF Tokens, Has, Others, Stays, Encoding
  <2>5. CASE /\ ~ active[r] /\ active' = [active EXCEPT ![r] = TRUE]
             /\ queued' = queued \cup {Enc(r)}
    <3>1. ~ busy[r] /\ \A v \in Workers : ~ Has(v, r)
      BY <1>t, <2>5 DEF Tokens, Has
    <3> QED
      BY <1>t, <1>d, <1>l, <2>1, <2>2, <2>5, <3>1, JobNames DEF Tokens, Has, Others, Stays, Encoding
  <2> QED
    BY <1>5, <2>3, <2>4, <2>5 DEF ActivateBelow, FarBehind

<1>6. ASSUME NEW w \in Workers, CheckAbove(w) \/ FinishRow(w) PROVE Tokens'
  <2>1. /\ pc[w] \in {"check", "leave"} /\ Others(w) /\ at' = at
        /\ UNCHANGED <<completed, bitmaps, main>>
    BY <1>6, <1>t, PlainMoves DEF CheckAbove, FinishRow, Plain, EndFindJob, mainVars, rowVars
  <2>2. PICK r \in Rows : r = at[w]
    BY <1>l
  <2>3. /\ main # 0 /\ Has(w, r) /\ active[r] /\ busy[r]
        /\ \A v \in Workers \ {w} : ~ Has(v, r)
    BY <1>t, <2>1, <2>2 DEF Tokens, Idle, Has, Leaving, Encoding
  <2>4. CASE /\ active' = active /\ busy' = busy
             /\ pc'[w] \in {"ctu", "filters"}
    BY <1>t, <1>d, <1>l, <2>1, <2>2, <2>3, <2>4 DEF Tokens, Has, Others, Stays, Encoding, bitmaps
  <2>5. CASE /\ \A q \in Rows \ {r} : active'[q] = active[q] /\ busy'[q] = busy[q]
             /\ ~ busy'[r] /\ pc'[w] = "found"
    <3>1. ~ Encodes(w)' /\ Enc(r) \notin queued'
      BY <1>t, <2>1, <2>2, <2>3, <2>5 DEF Encodes, Encoding, Leaving, Tokens, Has, bitmaps
    <3> QED
      BY <1>t, <1>d, <1>l, <2>1, <2>2, <2>3, <2>5, <3>1 DEF Tokens, Has, Others, Stays, Encodes, bitmaps
  <2>6. CASE CheckAbove(w)
    <3> DEFINE leave == (stop /\ at[w] > trigger) \/ CaughtUp(at[w])
    <3>1. /\ active' = [active EXCEPT ![r] = @ /\ ~leave] /\ busy' = [busy EXCEPT ![r] = ~leave]
          /\ pc' = [pc EXCEPT ![w] = IF leave THEN "found" ELSE NextCTU(r)]
      BY <2>2, <2>6 DEF CheckAbove, Goto
    <3> HIDE DEF leave
    <3>2. CASE leave
      BY <1>l, <2>5, <3>1, <3>2
    <3>3. CASE ~ leave
      <4>1. pc'[w] \in {"ctu", "filters"}
        BY <1>l, <3>1, <3>3 DEF NextCTU
      <4>2. active' = active /\ busy' = busy
        BY <1>l, <2>3, <3>1, <3>3
      <4> QED
        BY <2>4, <4>1, <4>2
    <3> QED
      BY <3>2, <3>3
  <2>7. CASE FinishRow(w)
    BY <1>l, <2>2, <2>5, <2>7 DEF FinishRow, Goto
  <2> QED
    BY <1>6, <2>6, <2>7
<1>7. ASSUME NEW w \in Workers, EnableFilter(w) \/ EnableLastFilters(w) PROVE Tokens'
  <2>1. /\ pc[w] \in {"filters", "last"} /\ pc'[w] \in {"last", "leave"} /\ Others(w) /\ at' = at
        /\ UNCHANGED <<rowVars, main>>
    BY <1>7, <1>t, WakingMoves DEF EnableFilter, EnableLastFilters, Waking, mainVars
  <2>2. main # 0
    BY <1>t, <2>1 DEF Tokens, Idle
  <2>3. \A r \in Rows : Enc(r) \in queued' <=> Enc(r) \in queued
    <3>1. at[w] >= FilterDelay => at[w] - FilterDelay \in Rows
      BY <1>l, SizeAssumption, DelayAssumption DEF Rows
    <3> QED
      BY <1>7, <3>1, JobNames DEF EnableFilter, EnableLastFilters, bitmaps
  <2> QED
    BY <1>t, <1>d, <1>l, <2>1, <2>2, <2>3 DEF Tokens, Has, Others, Stays, Encoding, Leaving, rowVars
<1>8. ASSUME NEW w \in Workers, FilterRow(w) \/ QueueNextFilter(w) PROVE Tokens'
  <2>1. /\ pc[w] \in {"filter", "next"} /\ pc'[w] \in {"found", "next"} /\ Others(w) /\ at' = at
        /\ UNCHANGED <<rowVars, main>>
    BY <1>8, <1>t, <1>l, PlainMoves DEF FilterRow, QueueNextFilter, Plain, EndFindJob, Goto, mainVars
  <2>2. main # 0 /\ ~ Encodes(w) /\ ~ Encodes(w)'
    BY <1>t, <2>1 DEF Tokens, Idle, Encodes, Encoding, Leaving
  <2>3. \A r \in Rows : Enc(r) \in queued' <=> Enc(r) \in queued
    <3>1. pc[w] = "next" => at[w] + 1 \in Rows
      BY <1>l, SizeAssumption DEF IInv, Filters, Rows, Last
    <3> QED
      BY <1>8, <3>1, JobNames DEF FilterRow, QueueNextFilter, bitmaps
  <2> QED
    BY <1>t, <1>d, <1>l, <2>1, <2>2, <2>3 DEF Tokens, Has, Others, Stays, Encodes, rowVars
<1>9. ASSUME EnableRow PROVE Tokens'
  <2>1. (\A v \in Workers : Stays(v)) /\ UNCHANGED rowVars
    BY <1>9, <1>t, WakeOthers DEF EnableRow
  <2>2. main' # 0
    <3>1. main' = main + 1 /\ main \in Nat
      BY <1>9 DEF EnableRow, IInv, TypeOK
    <3> QED
      BY <3>1
  <2>3. CASE main = 0 /\ queued' = queued \cup {Enc(0)}
    <3>1. /\ \A r \in Rows : Enc(r) \in queued' => r = 0
          /\ \A v \in Workers : ~ Encodes(v) /\ ~ Encodes(v)'
      BY <1>t, <1>d, <2>1, <2>3, JobNames DEF Tokens, Stays, Encodes
    <3>2. active[0] /\ ~ busy[0]
      BY <1>t, <3>1, <2>3, JobNames DEF Tokens, Has, Encodes
    <3> QED
      BY <1>t, <1>d, <1>l, <2>1, <2>2, <3>1, <3>2 DEF Tokens, Has, Encodes, rowVars
  <2>4. CASE queued' = queued
    BY <1>t, <1>d, <1>l, <2>1, <2>2, <2>4 DEF Tokens, Has, Stays, rowVars
  <2> QED
    BY <1>9, <2>3, <2>4 DEF EnableRow
<1>10. ASSUME Retry PROVE Tokens'
  <2>1. (\A v \in Workers : Stays(v)) /\ UNCHANGED <<rowVars, bitmaps, main>>
    BY <1>10, <1>t, WakeOthers DEF Retry, mainVars
  <2> QED
    BY <1>t, <1>d, <1>l, <2>1 DEF Tokens, Has, Stays, rowVars, bitmaps
<1>11. ASSUME Complete \/ RefProgress \/ UNCHANGED vars PROVE Tokens'
  <2>1. UNCHANGED <<rowVars, bitmaps, pc, at>> /\ (main' = 0 => main = 0)
    BY <1>11, SizeAssumption DEF Complete, RefProgress, vars, mainVars
  <2> QED
    BY <1>t, <2>1 DEF Tokens, Has, rowVars, bitmaps
<1> QED
  BY <1>t, <1>1, <1>2, <1>3, <1>4, <1>5, <1>6, <1>7, <1>8, <1>9, <1>10, <1>11, NextSteps
     DEF Plain, Waking

\* Steps that leave the columns of all rows as they are, and that put a worker
\* to a row, or a row into the queue, only where it may be.
Keeps(w) ==
    \/ Stays(w)
    \/ /\ at' = at
       /\ pc'[w] = "start" => Waiting(at[w])
       /\ pc'[w] = "ctu" => Clear(at[w])
       /\ pc'[w] = "lock" => at[w] < Last
       /\ pc'[w] \in {"filters", "last", "leave"} => completed[at[w]] = NumCols

LEMMA ColumnsKept ==
    ASSUME Columns, NEW w \in Workers, Others(w), Keeps(w), completed' = completed,
           \A r \in Rows : Enc(r) \in queued' => Enc(r) \in queued \/ Waiting(r)
    PROVE  Columns'
<1>1. Stair' /\ \A r \in Rows : (Waiting(r)' <=> Waiting(r)) /\ (Clear(r)' <=> Clear(r))
  BY DEF Columns, Stair, Waiting, Clear
<1>2. \A v \in Workers : \/ pc'[v] \in Idle
                         \/ pc'[v] = pc[v] /\ at'[v] = at[v]
                         \/ v = w /\ Keeps(w) /\ ~ Stays(w)
  BY DEF Others, Stays
<1> QED
  BY <1>1, <1>2 DEF Columns, Keeps, Stays, Idle, Waiting, Clear

LEMMA ColumnsStep == ASSUME IInv, [Next]_vars PROVE Columns'
<1>t. TypeOK /\ NoRestart /\ Tokens /\ Columns
  BY DEF IInv
<1>l. /\ pc \in [Workers -> Labels] /\ at \in [Workers -> Rows] /\ queued \subseteq Jobs
      /\ completed \in [Rows -> 0 .. NumCols]
  BY <1>t DEF TypeOK
<1>r. Rows \subseteq Int /\ 0 \in Rows /\ \A r \in Rows : r >= 0 /\ (r > 0 => r - 1 \in Rows)
  BY SizeAssumption DEF Rows
<1>n. NumCols \in Nat /\ NumCols > 2 /\ \A r \in Rows : completed[r] \in Nat /\ completed[r] <= NumCols
  BY <1>l, SizeAssumption
<1>1. ASSUME NEW w \in Workers, FindJob(w) PROVE Columns'
  <2>1. Others(w) /\ completed' = completed /\ pc[w] = "find"
    BY <1>1, <1>t, FindJobDoes DEF rowVars
  <2>2. Stair' /\ \A r \in Rows : (Waiting(r)' <=> Waiting(r)) /\ (Clear(r)' <=> Clear(r))
    BY <1>t, <2>1 DEF Columns, Stair, Waiting, Clear
  <2>3. CASE \E r \in Rows : Takes(w, Enc(r), r, "start")
    <3>1. PICK r \in Rows : Takes(w, Enc(r), r, "start")
      BY <2>3
    <3>2. Waiting(r)' /\ queued' \subseteq queued /\ pc'[w] = "start" /\ at'[w] = r
      BY <1>t, <2>2, <3>1 DEF Columns, Takes
    <3> QED
      BY <1>t, <1>l, <2>1, <2>2, <3>2 DEF Columns, Others, Stays, Idle
  <2>4. CASE \E r \in Rows : Takes(w, Filt(r), r, "filter")
    <3>1. queued' \subseteq queued /\ pc'[w] = "filter"
      BY <2>4 DEF Takes
    <3> QED
      BY <1>t, <1>l, <2>1, <2>2, <3>1 DEF Columns, Others, Stays, Idle
  <2>5. CASE pc'[w] = "none" /\ UNCHANGED <<queued, at>>
    BY <1>t, <1>l, <2>1, <2>2, <2>5 DEF Columns, Others, Stays, Idle
  <2> QED
    BY <1>1, <1>t, <2>3, <2>4, <2>5, FindJobDoes
<1>2. ASSUME NEW w \in Workers, EndFindJob(w) \/ Loop(w) PROVE Columns'
  BY <1>2, <1>l, <1>t, PlainMoves, ColumnsKept
     DEF EndFindJob, Loop, Goto, Stays, Idle, Plain, rowVars, bitmaps, Keeps
<1>3. ASSUME NEW w \in Workers, StartRow(w) PROVE Columns'
  <2>1. Others(w) /\ at' = at /\ UNCHANGED <<completed, queued>> /\ pc[w] = "start"
    BY <1>3, <1>t, PlainMoves DEF StartRow, Plain, EndFindJob, bitmaps
  <2>2. Clear(at[w])
    <3>1. PICK r \in Rows : r = at[w]
      BY <1>l
    <3>2. Waiting(r)
      BY <1>t, <2>1, <3>1 DEF Columns
    <3>3. r > 0 => r - 1 \in Rows
      BY <1>r
    <3>4. r # 0 => r > 0
      BY <1>r
    <3>5. Clear(r)
      BY <1>n, <3>2, <3>3, <3>4 DEF Waiting, Clear
    <3> QED
      BY <3>1, <3>5
  <2>3. pc'[w] \in {"ctu", "found"}
    BY <1>3, <1>l, <2>2 DEF StartRow, Goto, NextCTU, Clear
  <2> QED
    BY <1>t, <2>1, <2>2, <2>3, ColumnsKept DEF Keeps
<1>4. ASSUME NEW w \in Workers, LookBelow(w) PROVE Columns'
  <2>1. Others(w) /\ at' = at /\ UNCHANGED <<completed, queued>>
    BY <1>4, <1>t, PlainMoves DEF LookBelow, Plain, EndFindJob, rowVars, bitmaps
  <2>2. pc'[w] \in {"lock", "check"} /\ (pc'[w] = "lock" => at[w] < Last)
    BY <1>4, <1>l DEF LookBelow, Goto
  <2> QED
    BY <1>t, <2>1, <2>2, ColumnsKept DEF Keeps
<1>5. ASSUME NEW w \in Workers, ActivateBelow(w) PROVE Columns'
  <2>1. /\ pc[w] = "lock" /\ pc'[w] = "check" /\ Others(w) /\ at' = at /\ completed' = completed
    BY <1>5, <1>t, WakingMoves DEF ActivateBelow, Waking
  <2>2. PICK r \in Rows : r = at[w] + 1 /\ r # 0
    BY <1>t, <1>l, <2>1, SizeAssumption DEF Columns, Rows, Last
  <2>3. queued' = queued \/ (queued' = queued \cup {Enc(r)} /\ Waiting(r))
    BY <1>5, <2>2 DEF ActivateBelow, FarBehind, Waiting
  <2> QED
    BY <1>t, <2>1, <2>3, ColumnsKept, JobNames DEF Keeps
<1>6. ASSUME NEW w \in Workers, CheckAbove(w) PROVE Columns'
  <2>1. Others(w) /\ at' = at /\ UNCHANGED <<completed, queued>>
    BY <1>6, <1>t, PlainMoves DEF CheckAbove, Plain, EndFindJob, bitmaps
  <2>2. PICK r \in Rows : r = at[w]
    BY <1>l
  <2>3. pc'[w] = "found" \/ (~ CaughtUp(r) /\ pc'[w] = NextCTU(r))
    BY <1>6, <1>l, <2>2 DEF CheckAbove, Goto
  <2>4. ~ CaughtUp(r) /\ completed[r] < NumCols => Clear(r)
    <3> SUFFICES ASSUME ~ CaughtUp(r), completed[r] < NumCols, r > 0
                 PROVE  completed[r - 1] >= completed[r] + 2 \/ completed[r - 1] = NumCols
      BY DEF Clear
    <3>1. r - 1 \in Rows /\ r - 1 < r
      BY <1>r
    <3>2. completed[r] > 0 => completed[r - 1] > completed[r] \/ completed[r - 1] = NumCols
      BY <1>t, <3>1 DEF Columns, Stair
    <3> QED
      BY <1>n, <3>1, <3>2 DEF CaughtUp
  <2>5. completed[r] < NumCols \/ completed[r] = NumCols
    BY <1>n
  <2> QED
    BY <1>t, <2>1, <2>2, <2>3, <2>4, <2>5, ColumnsKept DEF Keeps, NextCTU
<1>7. ASSUME NEW w \in Workers, EncodeCTU(w) PROVE Columns'
  <2>1. /\ pc[w] = "ctu" /\ pc'[w] = "below" /\ Others(w) /\ at' = at /\ queued' = queued
    <3>1. Others(w) /\ at' = at /\ queued' = queued /\ pc[w] = "ctu"
      BY <1>7, <1>t, PlainMoves DEF EncodeCTU, Plain, EndFindJob, bitmaps
    <3>2. ~ (restarts < MaxRestarts)
      BY <1>t DEF NoRestart
    <3>3. pc' = [pc EXCEPT ![w] = "below"]
      BY <1>7, <3>2 DEF EncodeCTU, Goto
    <3> QED
      BY <1>l, <3>1, <3>3
  <2>2. PICK r \in Rows : r = at[w]
    BY <1>l
  <2>3. Clear(r) /\ completed' = [completed EXCEPT ![r] = @ + 1]
    BY <1>7, <1>t, <2>1, <2>2 DEF Columns, EncodeCTU
  <2>4. /\ completed'[r] = completed[r] + 1
        /\ \A s \in Rows \ {r} : completed'[s] = completed[s]
    BY <1>l, <2>3
  <2>5. Enc(r) \notin queued /\ \A v \in Workers \ {w} : Encodes(v) => at[v] # r
    BY <1>t, <2>1, <2>2 DEF Tokens, Has, Encodes, Encoding
  <2>6. Stair'
    <3> SUFFICES ASSUME NEW p \in Rows, NEW q \in Rows, p < q, completed'[q] > 0
                 PROVE  completed'[p] > completed'[q] \/ completed'[p] = NumCols
      BY DEF Stair
    <3>1. CASE q = r
      <4>1. r - 1 \in Rows /\ p <= r - 1 /\ p # r
        BY <1>r, <3>1
      <4>2. completed[r - 1] >= completed[r] + 2 \/ completed[r - 1] = NumCols
        BY <1>r, <2>3, <3>1 DEF Clear
      <4>3. p < r - 1 /\ completed[r - 1] > 0
                => completed[p] > completed[r - 1] \/ completed[p] = NumCols
        BY <1>t, <4>1 DEF Columns, Stair
      <4> QED
        BY <1>n, <1>r, <2>4, <3>1, <4>1, <4>2, <4>3
    <3>2. CASE p = r
      <4>1. completed[q] > 0 => completed[r] > completed[q] \/ completed[r] = NumCols
        BY <1>t, <3>2 DEF Columns, Stair
      <4> QED
        BY <1>n, <1>r, <2>3, <2>4, <3>2, <4>1 DEF Clear
    <3> QED
      BY <1>t, <2>4, <3>1, <3>2 DEF Columns, Stair
  <2>7. \A s \in Rows \ {r} : (Waiting(s) => Waiting(s)') /\ (Clear(s) => Clear(s)')
    <3> TAKE s \in Rows \ {r}
    <3>1. completed'[s] = completed[s]
      BY <2>4
    <3>2. s > 0 => \/ s - 1 # r /\ completed'[s - 1] = completed[s - 1]
                   \/ s - 1 = r /\ completed'[s - 1] = completed[s - 1] + 1 /\ completed[s - 1] < NumCols
      BY <1>r, <2>3, <2>4 DEF Clear
    <3>3. s # 0 => s > 0 /\ s - 1 \in Rows
      BY <1>r
    <3> QED
      BY <1>n, <3>1, <3>2, <3>3 DEF Waiting, Clear
  <2> QED
    BY <1>t, <1>l, <2>1, <2>2, <2>4, <2>5, <2>6, <2>7
       DEF Columns, Others, Stays, Idle, Encodes, Encoding, Leaving
<1>8. ASSUME NEW w \in Workers, EnableFilter(w) \/ EnableLastFilters(w) \/ FinishRow(w)
      PROVE  Columns'
  <2>1. /\ pc[w] \in {"filters", "last", "leave"} /\ pc'[w] \in {"last", "leave", "found"}
        /\ Others(w) /\ at' = at /\ completed' = completed
    BY <1>8, <1>t, <1>l, WakingMoves, PlainMoves
       DEF EnableFilter, EnableLastFilters, FinishRow, Waking, Plain, EndFindJob, Goto
  <2>2. \A r \in Rows : Enc(r) \in queued' => Enc(r) \in queued
    <3>1. at[w] >= FilterDelay => at[w] - FilterDelay \in Rows
      BY <1>l, SizeAssumption, DelayAssumption DEF Rows
    <3> QED
      BY <1>8, <3>1, JobNames DEF EnableFilter, EnableLastFilters, FinishRow, bitmaps
  <2>3. completed[at[w]] = NumCols
    BY <1>t, <2>1 DEF Columns
  <2> QED
    BY <1>t, <2>1, <2>2, <2>3, ColumnsKept DEF Keeps
<1>9. ASSUME NEW w \in Workers, FilterRow(w) \/ QueueNextFilter(w) PROVE Columns'
  <2>1. /\ pc'[w] \in {"found", "next"} /\ Others(w) /\ at' = at /\ completed' = completed
    BY <1>9, <1>t, <1>l, PlainMoves
       DEF FilterRow, QueueNextFilter, Plain, EndFindJob, Goto, rowVars
  <2>2. \A r \in Rows : Enc(r) \in queued' => Enc(r) \in queued
    <3>1. pc[w] = "next" => at[w] + 1 \in Rows
      BY <1>l, SizeAssumption DEF IInv, Filters, Rows, Last
    <3> QED
      BY <1>9, <3>1, JobNames DEF FilterRow, QueueNextFilter, bitmaps
  <2> QED
    BY <1>t, <2>1, <2>2, ColumnsKept DEF Keeps
<1>10. ASSUME \A v \in Workers : Stays(v), completed' = completed,
              queued' = queued \/ (main = 0 /\ queued' = queued \cup {Enc(0)})
       PROVE  Columns'
  <2>1. Stair' /\ \A r \in Rows : (Waiting(r)' <=> Waiting(r)) /\ (Clear(r)' <=> Clear(r))
    BY <1>t, <1>10 DEF Columns, Stair, Waiting, Clear
  <2>2. \A r \in Rows : Enc(r) \in queued' => Waiting(r)
    BY <1>t, <1>10, <1>r, JobNames DEF Columns, Tokens, Waiting
  <2> QED
    BY <1>t, <1>l, <1>10, <2>1, <2>2 DEF Columns, Stays, Idle
<1>11. ASSUME EnableRow \/ Retry \/ Complete \/ RefProgress \/ UNCHANGED vars PROVE Columns'
  <2>1. \A v \in Workers : Stays(v)
    BY <1>11, <1>t, WakeOthers DEF EnableRow, Retry, Complete, RefProgress, vars, Stays
  <2>2. completed' = completed /\ (queued' = queued \/ (main = 0 /\ queued' = queued \cup {Enc(0)}))
    BY <1>11 DEF EnableRow, Retry, Complete, RefProgress, vars, rowVars, bitmaps
  <2> QED
    BY <1>10, <2>1, <2>2
<1> QED
  BY <1>t, <1>1, <1>2, <1>3, <1>4, <1>5, <1>6, <1>7, <1>8, <1>9, <1>11, NextSteps DEF Plain, Waking

LEMMA ReferencesStep == ASSUME IInv, [Next]_vars PROVE References'
<1>t. TypeOK /\ NoRestart /\ References
  BY DEF IInv
<1>l. /\ pc \in [Workers -> Labels] /\ at \in [Workers -> Rows] /\ refRows \in 0 .. NumRows
  BY <1>t DEF TypeOK
<1>1. ASSUME NEW w \in Workers, FindJob(w) \/ Plain(w) \/ Waking(w) PROVE References'
  <2>1. Others(w) /\ refRows' = refRows
    BY <1>1, <1>t, FindJobDoes, PlainMoves, WakingMoves DEF mainVars
  <2>2. enabled \subseteq enabled' /\ \A r \in Rows : Enc(r) \in enabled' => Enc(r) \in enabled
    <3>1. CASE EnableFilter(w) \/ EnableLastFilters(w)
      <4>1. at[w] >= FilterDelay => at[w] - FilterDelay \in Rows
        BY <1>l, SizeAssumption, DelayAssumption DEF Rows
      <4>2. NumRows - FilterDelay .. Last \subseteq Rows
        BY SizeAssumption, DelayAssumption DEF Rows, Last
      <4> QED
        BY <3>1, <4>1, <4>2, JobNames DEF EnableFilter, EnableLastFilters, bitmaps
    <3>2. CASE FindJob(w) \/ Plain(w) \/ ActivateBelow(w)
      BY <1>t, <3>2, FindJobDoes, PlainMoves DEF ActivateBelow
    <3> QED
      BY <1>1, <3>1, <3>2 DEF Waking
  <2>3. Encodes(w)' => Enc(at'[w]) \in enabled
    <3>1. CASE FindJob(w)
      BY <1>t, <3>1, FindJobDoes DEF Takes, Encodes, Encoding, Leaving, Idle
    <3>2. CASE EndFindJob(w) \/ Loop(w) \/ FilterRow(w) \/ QueueNextFilter(w)
      BY <1>l, <3>2 DEF EndFindJob, Loop, FilterRow, QueueNextFilter, Goto, Encodes, Encoding, Leaving
    <3>3. CASE Encodes(w) /\ at' = at
      BY <1>t, <3>3 DEF References, Encodes
    <3>4. CASE Plain(w) /\ ~ (EndFindJob(w) \/ Loop(w) \/ FilterRow(w) \/ QueueNextFilter(w))
      <4>1. at' = at
        BY <1>t, <3>4, PlainMoves
      <4>2. Encodes(w)
        BY <3>4 DEF Plain, StartRow, EncodeCTU, LookBelow, CheckAbove, FinishRow, Encodes, Encoding, Leaving
      <4> QED
        BY <3>3, <4>1, <4>2
    <3>5. CASE Waking(w)
      BY <1>t, <3>3, <3>5, WakingMoves
         DEF Waking, ActivateBelow, EnableFilter, EnableLastFilters, Encodes, Encoding, Leaving
    <3> QED
      BY <1>1, <3>1, <3>2, <3>4, <3>5
  <2> QED
    BY <1>t, <1>l, <2>1, <2>2, <2>3 DEF References, RefReady, Others, Stays, Encodes, Encoding, Leaving, Idle
<1>2. ASSUME EnableRow PROVE References'
  <2>1. (\A v \in Workers : Stays(v)) /\ refRows' = refRows
    BY <1>2, <1>t, WakeOthers DEF EnableRow
  <2>2. PICK m \in Rows : m = main
    <3>1. main \in Nat /\ main < NumRows
      BY <1>2 DEF EnableRow, IInv, TypeOK
    <3> QED
      BY <3>1, SizeAssumption DEF Rows
  <2>3. enabled' = enabled \cup {Enc(m)} /\ RefReady(m)
    BY <1>2, <2>2 DEF EnableRow
  <2> QED
    BY <1>t, <2>1, <2>3, JobNames DEF References, RefReady, Stays, Encoding, Leaving, Idle
<1>3. ASSUME Retry \/ Complete \/ UNCHANGED vars PROVE References'
  <2>1. (\A v \in Workers : Stays(v)) /\ refRows' = refRows /\ enabled' = enabled
    BY <1>3, <1>t, WakeOthers DEF Retry, Complete, vars, Stays, bitmaps, mainVars
  <2> QED
    BY <1>t, <2>1 DEF References, RefReady, Stays, Encoding, Leaving, Idle
<1>4. ASSUME RefProgress PROVE References'
  <2>1. /\ UNCHANGED <<pc, at, enabled>> /\ refRows' = refRows + 1 /\ refRows < NumRows
    BY <1>4 DEF RefProgress, bitmaps
  <2>2. \A r \in Rows : RefReady(r) => RefReady(r)'
    BY <1>l, <2>1, SizeAssumption, LagAssumption DEF RefReady, Rows
  <2> QED
    BY <1>t, <2>1, <2>2 DEF References
<1> QED
  BY <1>t, <1>1, <1>2, <1>3, <1>4, NextSteps

\* An enabled filter row stays covered when no worker goes to its cover row.
LEMMA CoveredKept ==
    ASSUME Filters, NEW w \in Workers, Others(w),
           \A i \in Rows : Filt(i) \in enabled /\ completed[Cover(i)] = NumCols
                               => completed'[Cover(i)] = NumCols,
           pc'[w] \in Encoding =>
              \/ pc[w] \in Encoding /\ at'[w] = at[w]
              \/ \A i \in Rows : Filt(i) \in enabled => Cover(i) # at'[w]
    PROVE  \A i \in Rows : Filt(i) \in enabled => Covered(i)'
<1> SUFFICES ASSUME NEW i \in Rows, Filt(i) \in enabled PROVE Covered(i)'
  OBVIOUS
<1>1. completed[Cover(i)] = NumCols /\ \A v \in Workers : pc[v] \in Encoding => at[v] # Cover(i)
  BY DEF Filters, Covered
<1>2. \A v \in Workers : pc'[v] \in Encoding => at'[v] # Cover(i)
  BY <1>1 DEF Others, Stays, Idle, Encoding
<1>3. Cover(i)' = Cover(i)
  BY DEF Cover
<1> QED
  BY <1>1, <1>2, <1>3 DEF Covered

\* Steps that do not concern the filters.
LEMMA FiltersKept ==
    ASSUME TypeOK, Filters, NEW w \in Workers, Others(w), reconRows' = reconRows,
           \A i \in Rows : Filt(i) \in queued' <=> Filt(i) \in queued,
           \A i \in Rows : Filt(i) \in enabled' <=> Filt(i) \in enabled,
           \A i \in Rows : Filt(i) \in enabled /\ completed[Cover(i)] = NumCols
                               => completed'[Cover(i)] = NumCols,
           \/ Stays(w)
           \/ /\ ~ Turn(w) /\ ~ Turn(w)' /\ pc'[w] # "last"
              /\ pc'[w] \in Encoding =>
                    \/ pc[w] \in Encoding /\ at'[w] = at[w]
                    \/ \A i \in Rows : Filt(i) \in enabled => Cover(i) # at'[w]
    PROVE  Filters'
<1>1. \A v \in Workers : (Turn(v)' <=> Turn(v)) /\ (Turn(v) => pc'[v] = pc[v] /\ at'[v] = at[v])
  BY DEF Turn, Others, Stays, Idle
<1>2. \A v \in Workers : pc'[v] = "last" => pc[v] = "last" /\ at'[v] = at[v]
  BY DEF Others, Stays, Idle
<1>3. \A i \in Rows : Filt(i) \in enabled => Covered(i)'
  BY CoveredKept DEF Stays, Idle, Encoding
<1>4. \A i \in Rows : Before(i)' = Before(i)
  BY DEF Before
<1>5. 0 \in Rows
  BY JobNames
<1>6. \A v \in Workers : Turn(v)' => Filt(at'[v]) \in enabled' /\ at'[v] \in Rows
  BY <1>1 DEF Filters, TypeOK
<1>7. /\ \A v, u \in Workers : Turn(v)' /\ Turn(u)' => v = u
      /\ \A i, j \in Rows : Filt(i) \in queued' /\ Filt(j) \in queued' => i = j
      /\ \A v \in Workers, i \in Rows : ~ (Turn(v)' /\ Filt(i) \in queued')
  BY <1>1 DEF Filters
<1>8. Filt(0) \notin enabled' =>
          /\ reconRows' = 0
          /\ \A v \in Workers : ~ Turn(v)'
          /\ \A i \in Rows : Filt(i) \notin queued'
  BY <1>1, <1>5 DEF Filters
<1>9. /\ \A i \in Rows : Filt(i) \in queued' => reconRows' = Before(i)
      /\ \A v \in Workers : pc'[v] = "filter" => reconRows' = Before(at'[v])
      /\ \A v \in Workers : pc'[v] = "next" => at'[v] < Last /\ reconRows' = Before(at'[v] + 1)
  BY <1>1 DEF Filters, Turn
<1>10. \A v \in Workers : pc'[v] = "last" => at'[v] = Last
  BY <1>2 DEF Filters
<1>11. /\ \A v \in Workers : Turn(v)' => Filt(at'[v]) \in enabled'
       /\ \A i \in Rows : Filt(i) \in enabled' => Covered(i)'
  BY <1>3, <1>6
<1> QED
  BY <1>7, <1>8, <1>9, <1>10, <1>11 DEF Filters, Before

LEMMA FiltersStep == ASSUME IInv, [Next]_vars PROVE Filters'
<1>t. TypeOK /\ NoRestart /\ Tokens /\ Columns /\ Filters
  BY DEF IInv
<1>l. /\ pc \in [Workers -> Labels] /\ at \in [Workers -> Rows] /\ queued \subseteq Jobs
      /\ completed \in [Rows -> 0 .. NumCols]
  BY <1>t DEF TypeOK
<1>n. /\ NumCols \in Nat /\ NumCols > 2 /\ \A r \in Rows : completed[r] \in Nat /\ completed[r] <= NumCols
      /\ \A r \in Rows : r # 0 => r - 1 \in Rows
  BY <1>l, SizeAssumption DEF Rows
<1>c. \A i \in Rows : Cover(i) \in Rows
  BY SizeAssumption, DelayAssumption DEF Cover, Rows, Last
<1>k. ASSUME NEW w \in Workers, Others(w), reconRows' = reconRows,
             \A i \in Rows : Filt(i) \in queued' <=> Filt(i) \in queued,
             \A i \in Rows : Filt(i) \in enabled' <=> Filt(i) \in enabled,
             completed' = completed,
             \/ Stays(w)
             \/ /\ ~ Turn(w) /\ ~ Turn(w)' /\ pc'[w] # "last"
                /\ pc'[w] \in Encoding => pc[w] \in Encoding /\ at'[w] = at[w]
      PROVE  Filters'
  BY <1>t, <1>k, FiltersKept
<1>1. ASSUME NEW w \in Workers, FindJob(w) PROVE Filters'
  <2>1. /\ pc[w] = "find" /\ Others(w) /\ UNCHANGED <<completed, enabled, reconRows>>
        /\ at' \in [Workers -> Rows]
    BY <1>1, <1>t, FindJobDoes DEF rowVars, doneVars
  <2>2. CASE \E r \in Rows : Takes(w, Enc(r), r, "start")
    <3>1. PICK r \in Rows : Takes(w, Enc(r), r, "start")
      BY <2>2
    <3>2. completed[r] < NumCols
      <4>1. Waiting(r)
        BY <1>t, <3>1 DEF Columns, Takes
      <4> QED
        BY <1>n, <4>1 DEF Waiting
    <3>3. \A i \in Rows : Filt(i) \in enabled => Cover(i) # r
      BY <1>t, <1>n, <3>2 DEF Filters, Covered
    <3>4. \A i \in Rows : Filt(i) \in queued' <=> Filt(i) \in queued
      BY <3>1, JobNames DEF Takes
    <3>5. /\ ~ Turn(w) /\ ~ Turn(w)' /\ pc'[w] # "last" /\ at'[w] = r
      BY <2>1, <3>1 DEF Turn, Takes
    <3> QED
      BY <1>t, <2>1, <3>3, <3>4, <3>5, FiltersKept
  <2>3. CASE \E r \in Rows : Takes(w, Filt(r), r, "filter")
    <3>1. PICK r \in Rows : Takes(w, Filt(r), r, "filter")
      BY <2>3
    <3>2. /\ Filt(r) \in queued /\ Filt(r) \in enabled /\ queued' = queued \ {Filt(r)}
          /\ pc'[w] = "filter" /\ at'[w] = r
      BY <3>1 DEF Takes
    <3>3. /\ \A v \in Workers : ~ Turn(v) /\ (Turn(v)' => v = w)
      BY <1>t, <2>1, <3>2 DEF Filters, Turn, Others, Stays, Idle
    <3>4. \A i \in Rows : Filt(i) \notin queued' /\ reconRows = Before(r) /\ Filt(0) \in enabled
      BY <1>t, <3>2 DEF Filters
    <3>5. \A i \in Rows : Filt(i) \in enabled => Covered(i)'
      BY <1>t, <2>1, <3>2, CoveredKept DEF Encoding
    <3>6. \A v \in Workers : pc'[v] = "last" => at'[v] = Last
      BY <1>t, <2>1, <3>2 DEF Filters, Others, Stays, Idle
    <3> QED
      BY <2>1, <3>2, <3>3, <3>4, <3>5, <3>6 DEF Filters, Before, Turn
  <2>4. CASE pc'[w] = "none" /\ UNCHANGED <<queued, at>>
    BY <1>k, <2>1, <2>4 DEF Stays, Idle
  <2> QED
    BY <1>1, <1>t, <2>2, <2>3, <2>4, FindJobDoes
<1>2. ASSUME NEW w \in Workers, EndFindJob(w) \/ Loop(w) PROVE Filters'
  <2>1. Stays(w) /\ Others(w) /\ UNCHANGED <<completed, bitmaps, reconRows>>
    BY <1>2, <1>l, <1>t, PlainMoves
       DEF EndFindJob, Loop, Goto, Stays, Idle, Plain, rowVars, doneVars
  <2> QED
    BY <1>k, <2>1 DEF bitmaps
<1>3. ASSUME NEW w \in Workers, StartRow(w) \/ LookBelow(w) \/ CheckAbove(w) \/ FinishRow(w)
      PROVE  Filters'
  <2>1. Others(w) /\ at' = at /\ UNCHANGED <<completed, bitmaps, reconRows>>
    BY <1>3, <1>t, PlainMoves
       DEF StartRow, LookBelow, CheckAbove, FinishRow, Plain, EndFindJob, rowVars, doneVars
  <2>2. /\ pc[w] \in {"start", "below", "check", "leave"}
        /\ pc[w] # "leave" => pc'[w] \in {"found", "ctu", "filters", "lock", "check"}
        /\ pc[w] = "leave" => pc'[w] = "found"
    BY <1>3, <1>l DEF StartRow, LookBelow, CheckAbove, FinishRow, Goto, NextCTU
  <2> QED
    BY <1>k, <2>1, <2>2 DEF bitmaps, Turn, Encoding
<1>4. ASSUME NEW w \in Workers, EncodeCTU(w) PROVE Filters'
  <2>1. /\ pc[w] = "ctu" /\ Others(w) /\ at' = at /\ UNCHANGED <<bitmaps, reconRows>>
        /\ completed' = [completed EXCEPT ![at[w]] = @ + 1]
    BY <1>4, <1>t, PlainMoves DEF EncodeCTU, Plain, EndFindJob, doneVars
  <2>2. pc'[w] \in {"vbv", "below"}
    BY <1>4, <1>l DEF EncodeCTU, Goto
  <2>3. PICK r \in Rows : r = at[w]
    BY <1>l
  <2>4. completed[r] < NumCols
    BY <1>t, <2>1, <2>3 DEF Columns, Clear
  <2>5. \A s \in Rows : completed[s] = NumCols => completed'[s] = NumCols
    BY <1>l, <1>n, <2>1, <2>3, <2>4
  <2>6. /\ ~ Turn(w) /\ ~ Turn(w)' /\ pc'[w] # "last"
        /\ pc[w] \in Encoding /\ at'[w] = at[w]
    BY <2>1, <2>2 DEF Turn, Encoding
  <2>7. UNCHANGED <<queued, enabled, reconRows>>
    BY <2>1 DEF bitmaps
  <2> QED
    BY <1>t, <1>c, <2>1, <2>5, <2>6, <2>7, FiltersKept
<1>5. ASSUME NEW w \in Workers, ActivateBelow(w) PROVE Filters'
  <2>1. /\ pc[w] = "lock" /\ pc'[w] = "check" /\ Others(w) /\ at' = at
        /\ UNCHANGED <<completed, enabled, reconRows>>
    BY <1>5, <1>t, WakingMoves DEF ActivateBelow, Waking, doneVars
  <2>2. PICK r \in Rows : r = at[w] + 1
    BY <1>t, <1>l, <2>1, SizeAssumption DEF Columns, Rows, Last
  <2>3. \A i \in Rows : Filt(i) \in queued' <=> Filt(i) \in queued
    BY <1>5, <2>2, JobNames DEF ActivateBelow
  <2> QED
    BY <1>k, <2>1, <2>3 DEF Turn, Encoding
<1>10. ASSUME EnableRow \/ Retry \/ Complete \/ RefProgress \/ UNCHANGED vars PROVE Filters'
  <2>1. (\A v \in Workers : Stays(v)) /\ UNCHANGED <<completed, reconRows>>
    BY <1>10, <1>t, WakeOthers
       DEF EnableRow, Retry, Complete, RefProgress, vars, Stays, rowVars, doneVars
  <2>2. \A i \in Rows : /\ Filt(i) \in queued' <=> Filt(i) \in queued
                        /\ Filt(i) \in enabled' <=> Filt(i) \in enabled
    <3>1. CASE EnableRow
      <4>1. PICK m \in Rows : m = main
        <5>1. main \in Nat /\ main < NumRows
          BY <3>1, <1>t DEF EnableRow, TypeOK
        <5> QED
          BY <5>1, SizeAssumption DEF Rows
      <4> QED
        BY <3>1, <4>1, JobNames DEF EnableRow
    <3> QED
      BY <1>10, <3>1 DEF Retry, Complete, RefProgress, vars, bitmaps
  <2>3. CASE Workers = {}
    <3>1. \A i \in Rows : Covered(i)' <=> Covered(i)
      BY <2>1, <2>3 DEF Covered, Cover
    <3>2. 0 \in Rows
      BY JobNames
    <3> QED
      BY <1>t, <2>1, <2>2, <2>3, <3>1, <3>2 DEF Filters, Before
  <2>4. ASSUME NEW w \in Workers PROVE Filters'
    BY <1>k, <2>1, <2>2 DEF Others
  <2> QED
    BY <2>3, <2>4
<1>6. ASSUME NEW w \in Workers, EnableFilter(w) PROVE Filters'
  <2>1. /\ pc[w] = "filters" /\ pc'[w] = (IF at[w] = Last THEN "last" ELSE "leave")
        /\ Others(w) /\ at' = at /\ UNCHANGED <<completed, reconRows>>
    BY <1>6, <1>t, WakingMoves DEF EnableFilter, Waking, doneVars
  <2>2. PICK r \in Rows : r = at[w]
    BY <1>l
  <2>3. \A v \in Workers : (Turn(v)' <=> Turn(v)) /\ (Turn(v) => pc'[v] = pc[v] /\ at'[v] = at[v])
    BY <2>1 DEF Turn, Others, Stays, Idle
  <2>4. \A v \in Workers : pc'[v] = "last" => at'[v] = Last
    BY <1>t, <2>1 DEF Filters, Others, Stays, Idle
  <2>5. completed[r] = NumCols /\ \A v \in Workers : pc'[v] \in Encoding => at'[v] # r
    <3>1. completed[r] = NumCols
      BY <1>t, <2>1, <2>2 DEF Columns
    <3>2. \A v \in Workers \ {w} : pc[v] \in Encoding => at[v] # r
      BY <1>t, <2>1, <2>2 DEF Tokens, Has, Encoding
    <3> QED
      BY <2>1, <3>1, <3>2 DEF Others, Stays, Encoding, Idle
  <2>6. \A i \in Rows : Filt(i) \in enabled => Covered(i)'
    BY <1>t, <2>1, CoveredKept DEF Encoding
  <2>7. CASE r < FilterDelay
    <3>1. UNCHANGED <<queued, enabled>>
      BY <1>6, <1>n, <2>2, <2>7, SizeAssumption, DelayAssumption DEF EnableFilter, bitmaps, Rows
    <3> QED
      BY <1>t, <2>1, <2>3, <2>4, <2>6, <3>1 DEF Filters, Before, Turn
  <2>8. CASE r >= FilterDelay
    <3>1. PICK i \in Rows : i = r - FilterDelay
      BY <2>8, SizeAssumption, DelayAssumption DEF Rows
    <3>2. Cover(i) = r /\ (FirstFilter(r) <=> i = 0)
      BY <3>1, SizeAssumption, DelayAssumption DEF Cover, Rows, FirstFilter
    <3>3. /\ enabled' = enabled \cup {Filt(i)}
          /\ queued' = queued \cup (IF i = 0 THEN {Filt(i)} ELSE {})
      <4>1. ~ (r < FilterDelay)
        BY <2>8, DelayAssumption DEF Rows
      <4> QED
        BY <1>6, <2>2, <3>1, <3>2, <4>1 DEF EnableFilter
    <3>4. Covered(i)' /\ Filt(i) \notin enabled
      <4>1. Covered(i)'
        BY <2>1, <2>5, <3>2 DEF Covered, Cover
      <4>2. ~ Covered(i)
        BY <2>1, <2>2, <3>2 DEF Covered, Encoding
      <4> QED
        BY <1>t, <4>1, <4>2 DEF Filters
    <3>5. \A j \in Rows : Filt(j) \in enabled' => Covered(j)'
      BY <2>6, <3>3, <3>4, JobNames
    <3>6. CASE i = 0
      <4>1. /\ reconRows = 0 /\ \A v \in Workers : ~ Turn(v)
            /\ \A j \in Rows : Filt(j) \notin queued
        BY <1>t, <3>4, <3>6 DEF Filters
      <4>2. \A j \in Rows : Filt(j) \in queued' => j = 0
        BY <3>3, <3>6, <4>1, JobNames
      <4>3. Before(0) = 0 /\ Filt(0) \in enabled'
        BY <3>3, <3>6 DEF Before
      <4>4. \A v \in Workers : ~ Turn(v)'
        BY <2>3, <4>1
      <4> QED
        BY <2>1, <2>4, <3>5, <4>1, <4>2, <4>3, <4>4 DEF Filters, Before, Turn
    <3>7. CASE i # 0
      <4>1. /\ queued' = queued /\ (Filt(0) \in enabled' <=> Filt(0) \in enabled)
            /\ enabled \subseteq enabled'
        BY <3>3, <3>7, JobNames
      <4> QED
        BY <1>t, <2>1, <2>3, <2>4, <3>5, <4>1 DEF Filters, Before, Turn
    <3> QED
      BY <3>6, <3>7
  <2> QED
    BY <2>7, <2>8, DelayAssumption, SizeAssumption DEF Rows
<1>7. ASSUME NEW w \in Workers, EnableLastFilters(w) PROVE Filters'
  <2>1. /\ pc[w] = "last" /\ pc'[w] = "leave" /\ Others(w) /\ at' = at
        /\ UNCHANGED <<completed, reconRows, queued>>
    BY <1>7, <1>t, WakingMoves DEF EnableLastFilters, Waking, doneVars
  <2>2. \A v \in Workers : (Turn(v)' <=> Turn(v)) /\ (Turn(v) => pc'[v] = pc[v] /\ at'[v] = at[v])
    BY <2>1 DEF Turn, Others, Stays, Idle
  <2>3. \A v \in Workers : pc'[v] = "last" => at'[v] = Last
    BY <1>t, <2>1 DEF Filters, Others, Stays, Idle
  <2>4. /\ at[w] = Last /\ completed[Last] = NumCols
        /\ \A v \in Workers : pc[v] \in Encoding => at[v] # Last
    BY <1>t, <2>1, JobNames DEF Filters, Columns, Tokens, Has, Encoding, Leaving
  <2>5. \A i \in Rows : Filt(i) \in enabled \/ i >= NumRows - FilterDelay => Covered(i)'
    <3> SUFFICES ASSUME NEW i \in Rows, Filt(i) \in enabled \/ i >= NumRows - FilterDelay
                 PROVE  Covered(i)'
      OBVIOUS
    <3>1. i >= NumRows - FilterDelay => Cover(i) = Last
      BY SizeAssumption, DelayAssumption DEF Cover, Rows
    <3>2. completed[Cover(i)] = NumCols /\ \A v \in Workers : pc[v] \in Encoding => at[v] # Cover(i)
      BY <1>t, <2>4, <3>1 DEF Filters, Covered
    <3>3. \A v \in Workers : pc'[v] \in Encoding => at'[v] # Cover(i)
      BY <2>1, <3>2 DEF Others, Stays, Idle, Encoding
    <3>4. Cover(i)' = Cover(i)
      BY DEF Cover
    <3> QED
      BY <2>1, <3>2, <3>3, <3>4 DEF Covered
  <2>6. /\ \A i \in Rows : Filt(i) \in enabled' => Filt(i) \in enabled \/ i >= NumRows - FilterDelay
        /\ enabled \subseteq enabled' /\ (Filt(0) \in enabled' => Filt(0) \in enabled)
    <3>1. \A i \in NumRows - FilterDelay .. Last : i \in Rows /\ i >= NumRows - FilterDelay /\ i # 0
      BY SizeAssumption, DelayAssumption DEF Rows, Last
    <3> QED
      BY <1>7, <3>1, JobNames DEF EnableLastFilters
  <2> QED
    BY <1>t, <2>1, <2>2, <2>3, <2>5, <2>6 DEF Filters, Before, Turn
<1>8. ASSUME NEW w \in Workers, FilterRow(w) PROVE Filters'
  <2>1. /\ pc[w] = "filter" /\ Others(w) /\ at' = at /\ UNCHANGED <<completed, bitmaps>>
        /\ reconRows' = reconRows + Posted(at[w])
        /\ pc'[w] = (IF at[w] = Last THEN "found" ELSE "next")
    BY <1>8, <1>l, <1>t, PlainMoves DEF FilterRow, Plain, EndFindJob, Goto, rowVars
  <2>2. PICK r \in Rows : r = at[w]
    BY <1>l
  <2>3. /\ \A v \in Workers \ {w} : ~ Turn(v) /\ ~ Turn(v)'
        /\ \A i \in Rows : Filt(i) \notin queued
        /\ Filt(r) \in enabled /\ Filt(0) \in enabled
        /\ reconRows = Before(r)
    BY <1>t, <2>1, <2>2 DEF Filters, Turn, Others, Stays, Idle
  <2>4. r # Last => r < Last /\ reconRows' = Before(r + 1)
    <3>1. Before(r) + Posted(r) = Before(r + 1) \/ r = Last
      BY SizeAssumption, DelayAssumption DEF Posted, Before, Rows, Last
    <3>2. r <= Last
      BY SizeAssumption DEF Rows, Last
    <3> QED
      BY <2>1, <2>2, <2>3, <3>1, <3>2, SizeAssumption DEF Rows, Last
  <2>5. \A i \in Rows : Filt(i) \in enabled => Covered(i)'
    BY <1>t, <2>1, CoveredKept DEF Encoding
  <2>6. \A v \in Workers : pc'[v] = "last" => at'[v] = Last
    BY <1>t, <2>1 DEF Filters, Others, Stays, Idle
  <2> QED
    BY <2>1, <2>2, <2>3, <2>4, <2>5, <2>6 DEF Filters, Before, Turn, bitmaps
<1>9. ASSUME NEW w \in Workers, QueueNextFilter(w) PROVE Filters'
  <2>1. /\ pc[w] = "next" /\ Others(w) /\ at' = at /\ UNCHANGED <<completed, enabled, reconRows>>
        /\ queued' = queued \cup {Filt(at[w] + 1)} /\ pc'[w] = "found"
    BY <1>9, <1>l, <1>t, PlainMoves DEF QueueNextFilter, Plain, EndFindJob, Goto, rowVars, doneVars
  <2>2. PICK r \in Rows : r = at[w] + 1 /\ reconRows = Before(r)
    BY <1>t, <1>l, <2>1, SizeAssumption DEF Filters, Rows, Last
  <2>3. /\ \A v \in Workers : ~ Turn(v)'
        /\ \A i \in Rows : Filt(i) \in queued' <=> i = r
        /\ Filt(0) \in enabled
    BY <1>t, <2>1, <2>2, JobNames DEF Filters, Turn, Others, Stays, Idle
  <2>4. \A i \in Rows : Filt(i) \in enabled => Covered(i)'
    BY <1>t, <2>1, CoveredKept DEF Encoding
  <2>5. \A v \in Workers : pc'[v] = "last" => at'[v] = Last
    BY <1>t, <2>1 DEF Filters, Others, Stays, Idle
  <2> QED
    BY <2>1, <2>2, <2>3, <2>4, <2>5 DEF Filters, Before, Turn
<1> QED
  BY <1>t, <1>1, <1>2, <1>3, <1>4, <1>5, <1>6, <1>7, <1>8, <1>9, <1>10, NextSteps DEF Plain, Waking

\* How many rows can be finished.
LEMMA RowCount ==
    /\ IsFiniteSet(Rows) /\ Cardinality(Rows) = NumRows
    /\ IsFiniteSet(Finished) /\ Cardinality(Finished) \in Nat /\ Cardinality(Finished) <= NumRows
    /\ Cardinality(Finished) = NumRows => Finished = Rows
<1>1. IsFiniteSet(Rows) /\ Cardinality(Rows) = NumRows
  <2>1. 0 \in Int /\ NumRows - 1 \in Int /\ 0 <= NumRows - 1
    BY SizeAssumption
  <2>2. IsFiniteSet(Rows) /\ Cardinality(Rows) = NumRows - 1 - 0 + 1
    BY <2>1, FS_Interval DEF Rows
  <2> QED
    BY <2>2, SizeAssumption
<1>2. Finished \subseteq Rows
  BY DEF Finished
<1>3. /\ IsFiniteSet(Finished) /\ Cardinality(Finished) <= Cardinality(Rows)
      /\ Cardinality(Finished) = Cardinality(Rows) => Finished = Rows
  BY <1>1, <1>2, FS_Subset
<1>4. Cardinality(Finished) \in Nat
  BY <1>3, FS_CardinalityType
<1> QED
  BY <1>1, <1>3, <1>4

\* The numbers in which the counter moves.
LEMMA CountOk ==
    ASSUME Counted, NEW n \in Nat, count \in Nat, CountJobs(n), main' = main,
           count + n = Cardinality(Finished') + reconRows'
    PROVE  Counted'
<1>1. Total \in Nat
  BY SizeAssumption DEF Total
<1>2. count' = count + n
  BY DEF CountJobs
<1>3. count' < Total => count < Total /\ fired' = fired
  BY <1>1, <1>2 DEF CountJobs
<1>4. Finished' = {r \in Rows : completed'[r] = NumCols /\ ~ busy'[r]}
  BY DEF Finished
<1>5. Total' = Total
  BY DEF Total
<1> QED
  BY <1>2, <1>3, <1>5 DEF Counted

LEMMA CountedStep == ASSUME IInv, [Next]_vars PROVE Counted'
<1>t. TypeOK /\ NoRestart /\ Tokens /\ Columns /\ Counted
  BY DEF IInv
<1>l. /\ pc \in [Workers -> Labels] /\ at \in [Workers -> Rows] /\ busy \in [Rows -> BOOLEAN]
      /\ completed \in [Rows -> 0 .. NumCols] /\ reconRows \in Nat /\ count \in Nat
  BY <1>t DEF TypeOK
<1>n. /\ NumCols \in Nat /\ NumCols > 2 /\ \A r \in Rows : completed[r] \in Nat /\ completed[r] <= NumCols
      /\ \A r \in Rows : r # 0 => r - 1 \in Rows
  BY <1>l, SizeAssumption DEF Rows
<1>k. ASSUME Finished' = Finished, UNCHANGED <<count, reconRows, fired, main>> PROVE Counted'
  BY <1>t, <1>k DEF Counted, Total
<1>1. ASSUME NEW w \in Workers, FindJob(w) \/ Waking(w) \/ EndFindJob(w) \/ Loop(w) \/ LookBelow(w)
                                \/ QueueNextFilter(w)
      PROVE  Counted'
  <2>1. UNCHANGED <<completed, busy, doneVars, mainVars>>
    BY <1>1, <1>t, FindJobDoes, WakingMoves DEF EndFindJob, Loop, LookBelow, QueueNextFilter, rowVars
  <2>2. Finished' = Finished
    BY <2>1 DEF Finished
  <2> QED
    BY <1>k, <2>1, <2>2 DEF doneVars, mainVars
<1>2. ASSUME NEW w \in Workers, StartRow(w) PROVE Counted'
  <2>1. PICK r \in Rows : r = at[w]
    BY <1>l
  <2>2. pc[w] = "start" /\ Waiting(r) /\ UNCHANGED <<completed, doneVars, mainVars>>
    BY <1>2, <1>t, <2>1 DEF StartRow, Columns
  <2>3. completed[r] # NumCols
    BY <1>n, <2>2 DEF Waiting
  <2>4. busy' = busy \/ busy' = [busy EXCEPT ![r] = TRUE]
    BY <1>2, <2>1 DEF StartRow
  <2>5. Finished' = Finished
    BY <1>l, <2>2, <2>3, <2>4 DEF Finished
  <2> QED
    BY <1>k, <2>2, <2>5 DEF doneVars, mainVars
<1>3. ASSUME NEW w \in Workers, EncodeCTU(w) PROVE Counted'
  <2>1. PICK r \in Rows : r = at[w]
    BY <1>l
  <2>2. pc[w] = "ctu" /\ UNCHANGED <<busy, doneVars, mainVars>>
        /\ completed' = [completed EXCEPT ![r] = @ + 1]
    BY <1>3, <2>1 DEF EncodeCTU
  <2>3. busy[r]
    BY <1>t, <2>1, <2>2 DEF Tokens, Encoding
  <2>4. Finished' = Finished
    BY <1>l, <2>2, <2>3 DEF Finished
  <2> QED
    BY <1>k, <2>2, <2>4 DEF doneVars, mainVars
<1>4. ASSUME NEW w \in Workers, CheckAbove(w) PROVE Counted'
  <2>1. PICK r \in Rows : r = at[w]
    BY <1>l
  <2> DEFINE leave == (stop /\ r > trigger) \/ CaughtUp(r)
  <2>2. pc[w] = "check" /\ UNCHANGED <<completed, doneVars, mainVars>>
        /\ busy' = [busy EXCEPT ![r] = ~leave]
    BY <1>4, <2>1 DEF CheckAbove
  <2>3. busy[r]
    BY <1>t, <2>1, <2>2 DEF Tokens, Encoding
  <2>4. leave => completed[r] < NumCols
    <3>1. leave => CaughtUp(r)
      BY <1>t DEF NoRestart
    <3> QED
      BY <1>n, <3>1 DEF CaughtUp
  <2>5. Finished' = Finished
    <3>1. \A s \in Rows : completed[s] = NumCols => (busy'[s] <=> busy[s])
      BY <1>l, <1>n, <2>2, <2>3, <2>4
    <3> QED
      BY <2>2, <3>1 DEF Finished
  <2> QED
    BY <1>k, <2>2, <2>5 DEF doneVars, mainVars
<1>5. ASSUME NEW w \in Workers, FinishRow(w) PROVE Counted'
  <2>1. PICK r \in Rows : r = at[w]
    BY <1>l
  <2>2. /\ pc[w] = "leave" /\ UNCHANGED <<completed, reconRows, mainVars>> /\ CountJobs(1)
        /\ busy' = [busy EXCEPT ![r] = FALSE]
    BY <1>5, <2>1 DEF FinishRow
  <2>3. busy[r] /\ completed[r] = NumCols
    BY <1>t, <2>1, <2>2 DEF Tokens, Columns, Leaving
  <2>4. Finished' = Finished \cup {r} /\ r \notin Finished
    BY <1>l, <2>2, <2>3 DEF Finished
  <2>5. Cardinality(Finished') = Cardinality(Finished) + 1
    BY <2>4, RowCount, FS_AddElement
  <2>6. count + 1 = Cardinality(Finished') + reconRows'
    <3>1. count = Cardinality(Finished) + reconRows /\ reconRows' = reconRows
      BY <1>t, <2>2 DEF Counted
    <3> QED
      BY <1>l, <2>5, <3>1, RowCount
  <2> QED
    BY <1>t, <1>l, <2>2, <2>6, CountOk DEF mainVars
<1>6. ASSUME NEW w \in Workers, FilterRow(w) PROVE Counted'
  <2>1. PICK n \in Nat : n = Posted(at[w])
    BY DEF Posted
  <2>2. UNCHANGED <<rowVars, mainVars>> /\ reconRows' = reconRows + n /\ CountJobs(n)
    BY <1>6, <2>1 DEF FilterRow
  <2>3. Finished' = Finished
    BY <2>2 DEF Finished, rowVars
  <2>4. count + n = Cardinality(Finished') + reconRows'
    <3>1. count = Cardinality(Finished) + reconRows
      BY <1>t DEF Counted
    <3> QED
      BY <1>l, <2>2, <2>3, <3>1, RowCount
  <2> QED
    BY <1>t, <1>l, <2>2, <2>4, CountOk DEF mainVars
<1>7. ASSUME EnableRow \/ Retry \/ Complete \/ RefProgress \/ UNCHANGED vars PROVE Counted'
  <2>1. UNCHANGED <<completed, busy, reconRows, count>>
    BY <1>7 DEF EnableRow, Retry, Complete, RefProgress, vars, rowVars, doneVars
  <2>2. Finished' = Finished
    BY <2>1 DEF Finished
  <2>3. count < Total => fired' = 0 /\ main' <= NumRows
    <3>1. main \in Nat /\ NumRows \in Nat
      BY <1>t, SizeAssumption DEF TypeOK
    <3>2. count < Total => fired = 0 /\ main <= NumRows
      BY <1>t DEF Counted
    <3>3. CASE EnableRow
      BY <3>1, <3>2, <3>3 DEF EnableRow, doneVars
    <3>4. CASE Complete
      BY <3>2, <3>4 DEF Complete
    <3>5. CASE Retry \/ RefProgress \/ UNCHANGED vars
      BY <3>2, <3>5 DEF Retry, RefProgress, vars, mainVars, doneVars
    <3> QED
      BY <1>7, <3>3, <3>4, <3>5
  <2> QED
    BY <1>t, <2>1, <2>2, <2>3 DEF Counted, Total
<1> QED
  BY <1>t, <1>1, <1>2, <1>3, <1>4, <1>5, <1>6, <1>7, NextSteps DEF Plain

LEMMA NoRestartTypes ==
    ASSUME NEW s, s = FALSE, NEW t, t = -1, NEW n, n = 0, MaxRestarts = 0
    PROVE  s \in BOOLEAN /\ t \in Rows \cup {-1} /\ n \in 0 .. MaxRestarts
<1>1. s \in BOOLEAN
  OBVIOUS
<1>2. t \in Rows \cup {-1}
  OBVIOUS
<1>3. n \in 0 .. MaxRestarts
  OBVIOUS
<1> QED
  BY <1>1, <1>2, <1>3

LEMMA TypeStep == ASSUME IInv, [Next]_vars PROVE TypeOK'
<1>t. TypeOK /\ NoRestart /\ Tokens /\ Columns /\ Filters /\ Counted /\ NoRestart' /\ Counted'
  BY NoRestartStep, CountedStep DEF IInv
<1>l. /\ active \in [Rows -> BOOLEAN] /\ busy \in [Rows -> BOOLEAN]
      /\ completed \in [Rows -> 0 .. NumCols]
      /\ queued \subseteq Jobs /\ enabled \subseteq Jobs /\ helpWanted \in BOOLEAN
      /\ pc \in [Workers -> Labels] /\ at \in [Workers -> Rows] /\ k \in [Workers -> Rows]
      /\ main \in 0 .. NumRows + 1 /\ refRows \in 0 .. NumRows
      /\ reconRows \in 0 .. NumRows /\ count \in 0 .. 2 * NumRows /\ fired \in {0, 1}
  BY <1>t DEF TypeOK
<1>r. NumRows \in Nat /\ NumRows > 1 /\ NumCols \in Nat
  BY SizeAssumption
<1> DEFINE RowsOK == /\ active \in [Rows -> BOOLEAN] /\ busy \in [Rows -> BOOLEAN]
                     /\ completed \in [Rows -> 0 .. NumCols]
           BitsOK == queued \subseteq Jobs /\ enabled \subseteq Jobs
           WorkersOK == /\ helpWanted \in BOOLEAN /\ pc \in [Workers -> Labels]
                        /\ at \in [Workers -> Rows] /\ k \in [Workers -> Rows]
           MainOK == main \in 0 .. NumRows + 1 /\ refRows \in 0 .. NumRows
           DoneOK == reconRows \in 0 .. NumRows /\ fired \in {0, 1}
           Good == RowsOK /\ BitsOK /\ WorkersOK /\ MainOK /\ DoneOK
<1>1. ASSUME NEW w \in Workers, FindJob(w) PROVE Good'
  <2>1. /\ UNCHANGED <<rowVars, enabled, helpWanted, k, mainVars, doneVars>>
        /\ pc' \in [Workers -> Labels] /\ at' \in [Workers -> Rows] /\ queued' \subseteq queued
    BY <1>1, <1>t, FindJobDoes DEF Takes
  <2> QED
    BY <1>l, <2>1 DEF rowVars, mainVars, doneVars
<1>2. ASSUME NEW w \in Workers, Plain(w) PROVE Good'
  <2>1. /\ pc' \in [Workers -> Labels] /\ at' \in [Workers -> Rows] /\ UNCHANGED <<enabled, mainVars>>
    BY <1>2, <1>t, PlainMoves
  <2>2. helpWanted' \in BOOLEAN /\ k' \in [Workers -> Rows]
    <3>1. CASE EndFindJob(w)
      BY <1>l, <3>1, JobNames DEF EndFindJob
    <3>2. CASE ~ EndFindJob(w)
      <4>1. UNCHANGED <<helpWanted, k>>
        BY <1>2, <3>2 DEF Plain, Loop, StartRow, EncodeCTU, LookBelow, CheckAbove, FinishRow,
              FilterRow, QueueNextFilter
      <4> QED
        BY <1>l, <4>1
    <3> QED
      BY <3>1, <3>2
  <2>3. queued' \subseteq Jobs
    <3>1. pc[w] = "next" => at[w] + 1 \in Rows
      BY <1>t, <1>l, SizeAssumption DEF Filters, Rows, Last
    <3> QED
      BY <1>2, <1>l, <3>1, JobNames DEF Plain, EndFindJob, Loop, StartRow, EncodeCTU, LookBelow,
          CheckAbove, FinishRow, FilterRow, QueueNextFilter, bitmaps
  <2>4. RowsOK'
    <3>1. CASE EncodeCTU(w)
      <4>1. PICK r \in Rows : r = at[w]
        BY <1>l
      <4>2. completed[r] < NumCols /\ completed' = [completed EXCEPT ![r] = @ + 1]
        BY <1>t, <3>1, <4>1 DEF EncodeCTU, Columns, Clear
      <4>3. completed[r] + 1 \in 0 .. NumCols
        BY <1>l, <1>r, <4>2
      <4> QED
        BY <1>l, <3>1, <4>2, <4>3 DEF EncodeCTU
    <3>2. CASE StartRow(w) \/ CheckAbove(w) \/ FinishRow(w)
      BY <1>l, <3>2 DEF StartRow, CheckAbove, FinishRow
    <3>3. CASE UNCHANGED rowVars
      BY <1>l, <3>3 DEF rowVars
    <3> QED
      BY <1>2, <3>1, <3>2, <3>3 DEF Plain, EndFindJob, Loop, LookBelow, FilterRow, QueueNextFilter
  <2>5. DoneOK'
    <3>1. CASE FilterRow(w)
      <4>1. PICK r \in Rows : r = at[w]
        BY <1>l
      <4>2. reconRows = Before(r) /\ reconRows' = reconRows + Posted(r) /\ CountJobs(Posted(r))
        BY <1>t, <3>1, <4>1 DEF FilterRow, Filters
      <4>3. Before(r) + Posted(r) \in 0 .. NumRows
        BY SizeAssumption, DelayAssumption DEF Before, Posted, Rows, Last
      <4>4. fired' \in {0, 1}
        BY <1>t, <1>l, <4>2 DEF CountJobs, Counted
      <4> QED
        BY <4>2, <4>3, <4>4
    <3>2. CASE FinishRow(w)
      BY <1>t, <1>l, <3>2 DEF FinishRow, CountJobs, Counted
    <3>3. CASE UNCHANGED doneVars
      BY <1>l, <3>3 DEF doneVars
    <3> QED
      BY <1>2, <3>1, <3>2, <3>3
         DEF Plain, EndFindJob, Loop, StartRow, EncodeCTU, LookBelow, CheckAbove, QueueNextFilter
  <2> QED
    BY <1>l, <2>1, <2>2, <2>3, <2>4, <2>5 DEF mainVars
<1>3. ASSUME NEW w \in Workers, Waking(w) PROVE Good'
  <2>1. /\ pc' \in [Workers -> Labels] /\ at' = at /\ helpWanted' \in BOOLEAN
        /\ UNCHANGED <<busy, completed, k, mainVars, doneVars>>
    BY <1>3, <1>t, WakingMoves
  <2>2. pc[w] = "lock" => at[w] + 1 \in Rows
    BY <1>t, <1>l, SizeAssumption DEF Columns, Rows, Last
  <2>3. at[w] >= FilterDelay => at[w] - FilterDelay \in Rows
    BY <1>l, SizeAssumption, DelayAssumption DEF Rows
  <2>4. NumRows - FilterDelay .. Last \subseteq Rows
    BY SizeAssumption, DelayAssumption DEF Rows, Last
  <2>5. BitsOK'
    BY <1>3, <1>l, <2>2, <2>3, <2>4, JobNames
       DEF Waking, ActivateBelow, EnableFilter, EnableLastFilters, bitmaps
  <2>6. active' \in [Rows -> BOOLEAN]
    BY <1>3, <1>l, <2>2 DEF Waking, ActivateBelow, EnableFilter, EnableLastFilters, rowVars
  <2> QED
    BY <1>l, <2>1, <2>5, <2>6 DEF mainVars, doneVars
<1>4. ASSUME EnableRow \/ Retry PROVE Good'
  <2>1. /\ pc' \in [Workers -> Labels] /\ helpWanted' \in BOOLEAN
        /\ UNCHANGED <<rowVars, at, k, doneVars, refRows>>
    BY <1>4, <1>t, WakeOthers DEF EnableRow, Retry, mainVars
  <2>2. main' \in 0 .. NumRows + 1
    BY <1>4, <1>l, <1>r DEF EnableRow, Retry, mainVars
  <2>3. BitsOK'
    <3>1. main < NumRows => main \in Rows
      BY <1>l, <1>r DEF Rows
    <3> QED
      BY <1>4, <1>l, <3>1, JobNames DEF EnableRow, Retry, bitmaps
  <2> QED
    BY <1>l, <2>1, <2>2, <2>3 DEF rowVars, doneVars
<1>5. ASSUME Complete \/ RefProgress \/ UNCHANGED vars PROVE Good'
  <2>1. UNCHANGED <<rowVars, bitmaps, helpWanted, pc, at, k, reconRows>>
    BY <1>5 DEF Complete, RefProgress, vars, doneVars
  <2>2. MainOK' /\ fired' \in {0, 1}
    BY <1>5, <1>l, <1>r DEF Complete, RefProgress, vars, mainVars, doneVars
  <2> QED
    BY <1>l, <2>1, <2>2 DEF rowVars, bitmaps
<1>6. Good'
  BY <1>t, <1>1, <1>2, <1>3, <1>4, <1>5, NextSteps
<1>7. count' \in 0 .. 2 * NumRows
  <2>1. Cardinality(Finished') \in Nat /\ Cardinality(Finished') <= NumRows
    <3>1. Finished' \subseteq Rows
      BY DEF Finished
    <3> QED
      BY <3>1, RowCount, FS_Subset, FS_CardinalityType
  <2>2. count' = Cardinality(Finished') + reconRows'
    BY <1>t DEF Counted
  <2>3. reconRows' \in 0 .. NumRows
    BY <1>6
  <2> QED
    BY <1>r, <2>1, <2>2, <2>3
<1>8. stop' \in BOOLEAN /\ trigger' \in Rows \cup {-1} /\ restarts' \in 0 .. MaxRestarts
  BY <1>t, NoRestartTypes DEF NoRestart
<1> QED
  BY <1>6, <1>7, <1>8 DEF TypeOK

-----------------------------------------------------------------------------
(* The theorems *)

LEMMA InitIInv == ASSUME MaxRestarts = 0, Init PROVE IInv
<1>r. 0 \in Rows /\ NumRows \in Nat /\ NumRows > 1 /\ NumCols \in Nat /\ NumCols > 2
  BY SizeAssumption DEF Rows
<1>1. TypeOK
  <2>1. stop \in BOOLEAN /\ trigger \in Rows \cup {-1} /\ restarts \in 0 .. MaxRestarts
    BY NoRestartTypes DEF Init
  <2>2. active \in [Rows -> BOOLEAN] /\ busy \in [Rows -> BOOLEAN] /\ helpWanted \in BOOLEAN
    BY Zenon DEF Init
  <2>5. /\ completed \in [Rows -> 0 .. NumCols] /\ queued \subseteq Jobs /\ enabled \subseteq Jobs
    BY <1>r DEF Init
  <2>3. pc \in [Workers -> Labels] /\ at \in [Workers -> Rows] /\ k \in [Workers -> Rows]
    BY <1>r DEF Init, Labels
  <2>4. /\ main \in 0 .. NumRows + 1 /\ refRows \in 0 .. NumRows
        /\ reconRows \in 0 .. NumRows /\ count \in 0 .. 2 * NumRows /\ fired \in {0, 1}
    BY <1>r DEF Init
  <2> QED
    BY <2>1, <2>2, <2>3, <2>4, <2>5 DEF TypeOK
<1>2. NoRestart
  BY DEF Init, NoRestart
<1>3. Tokens
  BY <1>r DEF Init, Tokens, Has, Idle, Encoding, Leaving
<1>6. Columns /\ References
  BY <1>r DEF Init, Columns, Stair, References, Encoding, Leaving
<1>4. Filters
  BY DEF Init, Filters, Turn
<1>5. Counted
  <2>1. Finished = {}
    BY <1>r DEF Init, Finished
  <2>2. Cardinality(Finished) = 0
    BY <2>1, FS_EmptySet
  <2> QED
    BY <1>r, <2>2 DEF Init, Counted
<1> QED
  BY <1>1, <1>2, <1>3, <1>4, <1>5, <1>6 DEF IInv

LEMMA StepIInv == IInv /\ [Next]_vars => IInv'
<1> SUFFICES ASSUME IInv, [Next]_vars PROVE IInv'
  OBVIOUS
<1>1. NoRestart'
  BY NoRestartStep DEF IInv
<1> QED
  BY <1>1, TypeStep, TokensStep, ColumnsStep, ReferencesStep, FiltersStep, CountedStep DEF IInv

LEMMA Invariance == ASSUME MaxRestarts = 0 PROVE Spec => []IInv
<1>1. Init => IInv
  BY InitIInv
<1> QED
  BY <1>1, StepIInv, PTL DEF Spec

LEMMA MinOfTwo == ASSUME NEW a \in Int, NEW b \in Int PROVE Min({a, b}) = IF a <= b THEN a ELSE b
BY DEF Min

\* Without VBV, for a frame of any size and any number of workers: a row's bit
\* that a worker took is of an active row that nobody is in, so
\* "simultaneous row access detected" (frameencoder.cpp:813) is never logged.
THEOREM RowsAreNotShared == ASSUME MaxRestarts = 0 PROVE Spec => []WaveInv
<1>1. IInv => WaveInv
  <2> SUFFICES ASSUME IInv PROVE OneWorkerPerRow
    BY DEF IInv, WaveInv
  <2>1. \A w \in Workers : pc[w] \in InRow \cup {"start"} => Has(w, at[w]) /\ at[w] \in Rows
    BY DEF IInv, NoRestart, TypeOK, InRow, Has, Encoding, Leaving
  <2>2. \A w \in Workers : /\ pc[w] = "start" => active[at[w]] /\ ~busy[at[w]]
                           /\ pc[w] \in InRow => busy[at[w]]
    BY <2>1 DEF IInv, Tokens, Has, InRow
  <2>3. \A v, w \in Workers : {pc[v], pc[w]} \subseteq InRow \cup {"start"} /\ at[v] = at[w] => v = w
    BY <2>1 DEF IInv, Tokens
  <2> QED
    BY <2>2, <2>3 DEF OneWorkerPerRow
<1> QED
  BY <1>1, Invariance, PTL

\* Every CTU finds its neighbour above and to the right encoded, and the rows
\* of the reference frame that it may reach reconstructed.
THEOREM CtusAreReady == ASSUME MaxRestarts = 0 PROVE Spec => []CtuReady
<1>1. IInv => CtuReady
  <2> SUFFICES ASSUME IInv, NEW w \in Workers, pc[w] = "ctu", NEW r \in Rows, r = at[w]
               PROVE  /\ r > 0 => completed[r - 1] >= Min({completed[r] + 2, NumCols})
                      /\ refRows >= Min({r + RefLag, NumRows})
    BY DEF CtuReady, IInv, TypeOK
  <2>1. /\ completed[r] \in Int /\ NumCols \in Int /\ r \in Int /\ RefLag \in Int /\ NumRows \in Int
        /\ refRows \in Int /\ (r > 0 => r - 1 \in Rows /\ completed[r - 1] \in Int)
    BY SizeAssumption, LagAssumption DEF IInv, TypeOK, Rows
  <2>2. Clear(r) /\ RefReady(r)
    BY DEF IInv, Columns, References, Encoding
  <2>3. r > 0 => completed[r - 1] >= Min({completed[r] + 2, NumCols})
    <3>1. completed[r] + 2 \in Int
      BY <2>1
    <3>2. Min({completed[r] + 2, NumCols})
            = IF completed[r] + 2 <= NumCols THEN completed[r] + 2 ELSE NumCols
      BY <2>1, <3>1, MinOfTwo
    <3> QED
      BY <2>1, <2>2, <3>2 DEF Clear
  <2>4. refRows >= Min({r + RefLag, NumRows})
    <3>1. r + RefLag \in Int
      BY <2>1
    <3>2. Min({r + RefLag, NumRows}) = IF r + RefLag <= NumRows THEN r + RefLag ELSE NumRows
      BY <2>1, <3>1, MinOfTwo
    <3> QED
      BY <2>1, <2>2, <3>2 DEF RefReady
  <2> QED
    BY <2>3, <2>4
<1> QED
  BY <1>1, Invariance, PTL

\* One filter row is processed or queued at a time, and only over rows whose
\* encoding is over.
THEOREM FiltersStayBehind == ASSUME MaxRestarts = 0 PROVE Spec => []FilterBehind
<1>1. IInv => FilterBehind
  <2> SUFFICES ASSUME IInv PROVE FilterBehind
    OBVIOUS
  <2> DEFINE Q == {r \in Rows : Filt(r) \in queued}
  <2>1. /\ \A v, w \in Filtering : v = w
        /\ \A q, r \in Q : q = r
        /\ Filtering = {} \/ Q = {}
    BY DEF IInv, Filters, Filtering, Turn
  <2>2. ASSUME NEW S, \A x, y \in S : x = y
        PROVE  Cardinality(S) = 0 \/ Cardinality(S) = 1
    <3>1. CASE S = {}
      BY <3>1, FS_EmptySet
    <3>2. ASSUME NEW x \in S PROVE Cardinality(S) = 1
      <4>1. S = {x}
        BY <2>2
      <4> QED
        BY <4>1, FS_Singleton
    <3> QED
      BY <3>1, <3>2
  <2>3. Cardinality(Filtering) + Cardinality(Q) <= 1
    <3>1. CASE Filtering = {}
      <4>1. Cardinality(Filtering) = 0 /\ (Cardinality(Q) = 0 \/ Cardinality(Q) = 1)
        BY <2>1, <2>2, <3>1, FS_EmptySet
      <4> QED
        BY <4>1
    <3>2. CASE Q = {}
      <4>1. Cardinality(Q) = 0 /\ (Cardinality(Filtering) = 0 \/ Cardinality(Filtering) = 1)
        BY <2>1, <2>2, <3>2, FS_EmptySet
      <4> QED
        BY <4>1
    <3> QED
      BY <2>1, <3>1, <3>2
  <2>4. ASSUME NEW w \in Filtering, NEW r \in 0 .. Min({at[w] + FilterDelay, Last})
        PROVE  completed[r] = NumCols
    <3>1. PICK i \in Rows : i = at[w] /\ Covered(i)
      BY DEF IInv, TypeOK, Filters, Filtering, Turn
    <3>2. i \in Int /\ FilterDelay \in Int /\ NumRows \in Int /\ Last = NumRows - 1
      BY SizeAssumption, DelayAssumption DEF Rows, Last
    <3>3. Min({i + FilterDelay, Last}) = Cover(i)
      <4>1. i + FilterDelay \in Int /\ Last \in Int
        BY <3>2
      <4>2. Min({i + FilterDelay, Last}) = IF i + FilterDelay <= Last THEN i + FilterDelay ELSE Last
        BY <4>1, MinOfTwo
      <4> QED
        BY <3>2, <4>2 DEF Cover
    <3>4. PICK c \in Rows : c = Cover(i)
      BY SizeAssumption, DelayAssumption DEF Cover, Rows, Last
    <3>5. r \in Rows /\ (r < c \/ r = c)
      BY <3>1, <3>3, <3>4, SizeAssumption DEF Rows
    <3>6. completed[c] = NumCols /\ NumCols > 0 /\ completed[r] \in 0 .. NumCols
      BY <3>1, <3>4, <3>5, SizeAssumption DEF Covered, IInv, TypeOK
    <3>7. r < c => completed[r] > completed[c] \/ completed[r] = NumCols
      BY <3>5, <3>6 DEF IInv, Columns, Stair
    <3> QED
      BY <3>5, <3>6, <3>7, SizeAssumption
  <2> QED
    BY <2>3, <2>4 DEF FilterBehind
<1> QED
  BY <1>1, Invariance, PTL

\* When the completion event has fired every row is encoded and filtered, and
\* no worker is in one: the bitstream may be written.
THEOREM FrameIsDone == ASSUME MaxRestarts = 0 PROVE Spec => []DoneIsDone
<1>1. IInv => DoneIsDone
  <2> SUFFICES ASSUME IInv, fired > 0 \/ main > NumRows
               PROVE  /\ \A r \in Rows : completed[r] = NumCols /\ ~busy[r]
                      /\ reconRows = NumRows
                      /\ queued = {}
    BY DEF DoneIsDone
  <2>1. /\ count \in Nat /\ reconRows \in Nat /\ reconRows <= NumRows /\ NumRows \in Nat
        /\ fired \in Nat /\ main \in Nat
    BY SizeAssumption DEF IInv, TypeOK
  <2>2. count >= 2 * NumRows
    <3>1. count < Total => fired = 0 /\ main <= NumRows
      BY DEF IInv, Counted
    <3> QED
      BY <2>1, <3>1 DEF Total
  <2>3. count = Cardinality(Finished) + reconRows
    BY DEF IInv, Counted
  <2>4. Cardinality(Finished) = NumRows /\ reconRows = NumRows
    BY <2>1, <2>2, <2>3, RowCount
  <2>5. \A r \in Rows : completed[r] = NumCols /\ ~busy[r]
    BY <2>4, RowCount DEF Finished
  <2>6. ASSUME NEW j \in queued PROVE FALSE
    <3>1. PICK r \in Rows : j = Enc(r) \/ j = Filt(r)
      BY JobNames DEF IInv, TypeOK
    <3>2. CASE j = Enc(r)
      <4>1. Waiting(r)
        BY <3>2 DEF IInv, Columns
      <4>2. completed[r] = NumCols /\ NumCols \in Nat /\ NumCols > 2
        BY <2>5, SizeAssumption
      <4>3. r # 0 => completed[r - 1] = NumCols
        <5>1. r # 0 => r - 1 \in Rows
          BY SizeAssumption DEF Rows
        <5> QED
          BY <2>5, <5>1
      <4> QED
        BY <4>1, <4>2, <4>3 DEF Waiting
    <3>3. CASE j = Filt(r)
      <4>1. reconRows = Before(r)
        BY <3>3 DEF IInv, Filters
      <4> QED
        BY <2>4, <4>1, SizeAssumption DEF Before, Rows
    <3> QED
      BY <3>1, <3>2, <3>3
  <2> QED
    BY <2>4, <2>5, <2>6
<1> QED
  BY <1>1, Invariance, PTL
=============================================================================
