------------------------- MODULE MarketSyncProofs -------------------------
(***************************************************************************)
(* Proofs about MarketSync for every set of calls and replicas, any number *)
(* of symbols and days, every batch size and every pattern of suspensions. *)
(***************************************************************************)
EXTENDS MarketSync, FiniteSetTheorems, WellFoundedInduction, NaturalsInduction, TLAPS

BarPcs  == {"latest", "symbol", "existing", "upsert", "commit"}
LoopPcs == {"symbol", "existing", "upsert", "commit"}
Looping(c) == pc[c] \in LoopPcs \/ (pc[c] \in {"synced", "closing"} /\ Job(c) = DailyBars)

\* A call works on the job at the head of its order, with the variables of
\* that job: nothing is left over from the job before.
JobIsAtHand ==
  \A c \in Calls :
    /\ todo[c] = <<>> => pc[c] = "done"
    /\ pc[c] \in {"master", "commit_master"} => Job(c) = StockMaster
    /\ pc[c] \in BarPcs => Job(c) = DailyBars

\* The loop over the symbols has a next symbol and room in its batch.
LoopIsInside ==
  \A c \in Calls :
    /\ mem[c].left \subseteq mem[c].symbols
    /\ pc[c] \in {"idle", "start", "insert", "sync"} =>
         mem[c].filled = 0 /\ mem[c].count = 0 /\ mem[c].fetched = {}
    /\ pc[c] = "latest" => mem[c].left = mem[c].symbols /\ mem[c].filled = 0 /\ mem[c].count = 0
    /\ pc[c] \in {"symbol", "existing", "upsert"} => mem[c].left # {} /\ mem[c].filled < BatchSize
    /\ pc[c] \in {"master", "commit_master"} => mem[c].fetched \subseteq Symbols
    /\ pc[c] \in {"existing", "upsert"} => mem[c].fetched \subseteq Days
    /\ pc[c] \in {"synced", "closing"} /\ Job(c) = DailyBars => mem[c].left = {}

\* Every symbol behind the loop has added at most one bar per day.
CountIsBounded ==
  \A c \in Calls :
    Looping(c) =>
      mem[c].count <= (Cardinality(mem[c].symbols \ mem[c].left)
                         + (IF pc[c] = "upsert" THEN 1 ELSE 0)) * MaxDay

\* Who is inside a runner holds its lock, and nobody else does.
LockInv ==
  /\ \A c \in Calls : pc[c] \in RunPcs => lock[Process(c)][Job(c)] = c
  /\ \A p \in Processes, j \in Jobs :
       lock[p][j] # Nobody =>
         /\ Process(lock[p][j]) = p
         /\ pc[lock[p][j]] \in RunPcs
         /\ Job(lock[p][j]) = j

StateInv == TypeOK /\ JobIsAtHand /\ LoopIsInside /\ CountIsBounded /\ LockInv

----------------------------------------------------------------------------
\* The bars a call owes a symbol, and those it has written but not committed.
Owed(c, s)    == daily_bars(s, Start(c, s), mem[c].end)
Written(c, s) == {d \in Days : <<s, d>> \in pending[c]}

\* Behind the loop every bar owed is stored or written; what the loop holds of
\* the symbol at hand is what is owed and not stored.
WorkOf(c) ==
  Looping(c) =>
    /\ mem[c].end \in 1..today
    /\ \A s \in mem[c].symbols : mem[c].latest[s] # 0 => mem[c].latest[s] \in Stored(s)
    /\ \A s \in mem[c].symbols \ mem[c].left : Owed(c, s) \subseteq Stored(s) \cup Written(c, s)
    /\ \A s \in Symbols, d \in Days : <<s, d>> \in pending[c] =>
         s \in mem[c].symbols \ mem[c].left /\ d \in Owed(c, s)
    /\ pc[c] = "existing" => mem[c].fetched = Owed(c, NextSymbol(c))
    /\ pc[c] = "upsert" =>
         /\ mem[c].fetched \subseteq Owed(c, NextSymbol(c))
         /\ Owed(c, NextSymbol(c)) \subseteq Stored(NextSymbol(c)) \cup mem[c].fetched

WorkIsDone == \A c \in Calls : WorkOf(c)

\* Nothing is written outside the loop, and a success is the end of the call.
EndIsClean ==
  \A c \in Calls :
    /\ pc[c] \notin LoopPcs => pending[c] = {}
    /\ audit[c][DailyBars].status = "succeeded" => pc[c] = "done"

WorkInv == WorkIsDone /\ EndIsClean /\ SuccessIsComplete

----------------------------------------------------------------------------
\* No call is still in its loop when the history window has passed.
CallsAreBrief == \A c \in Calls : pc[c] \in LoopPcs => today <= mem[c].end + Window + 1

\* Of the days of today's window, a symbol has all up to its last bar.
WindowIsFilled ==
  \A s \in Symbols, d \in Days, e \in Days :
    e \in Stored(s) /\ d < e /\ today - Window <= d /\ <<s, d>> \notin Suspended
      => d \in Stored(s)

\* A symbol that was empty when the call looked has no hole before the window
\* the call will fill.
NewIsAttached ==
  \A c \in Calls : Looping(c) =>
    \A s \in mem[c].symbols, d \in Days, e \in Days :
      /\ mem[c].latest[s] = 0
      /\ e \in Stored(s) /\ e < d /\ d < mem[c].end - Window /\ <<s, d>> \notin Suspended
      => d \in Stored(s)

GapInv == NoGap /\ WindowIsFilled /\ NewIsAttached

----------------------------------------------------------------------------
OneProcess == \A b, c \in Calls : Process(b) = Process(c)
Mine(c)    == {x \in Symbols \X Days : bars[x[1]][x[2]] = c}

\* inserted_rows counts the bars stored, written and at hand; none of them was
\* stored before, and none is counted twice.
CountOf(c) ==
  /\ Looping(c) =>
       /\ mem[c].count = Cardinality(Mine(c)) + Cardinality(pending[c])
                           + (IF pc[c] = "upsert" THEN Cardinality(mem[c].fetched) ELSE 0)
       /\ \A s \in Symbols, d \in Days : <<s, d>> \in pending[c] => bars[s][d] = Nobody
       /\ pc[c] = "upsert" => \A d \in mem[c].fetched : bars[NextSymbol(c)][d] = Nobody
  /\ pc[c] \notin EndPcs /\ ~Looping(c) => Mine(c) = {}

CountInv == OneProcess => (\A c \in Calls : CountOf(c)) /\ InsertedIsCounted

----------------------------------------------------------------------------
\* A set of naturals has a smallest member.
LEMMA Smallest ==
  ASSUME NEW T, T \subseteq Nat, T # {}
  PROVE  \E x \in T : \A y \in T : x <= y
<1>1. PICK x \in T : \A y \in T : ~(<<y, x>> \in OpToRel(<, Nat))
  BY NatLessThanWellFounded, WFMin, Zenon
<1>2. \A y \in T : ~(y < x)
  BY <1>1 DEF OpToRel
<1> QED
  BY <1>2

\* The next symbol of the ORDER BY is one of those left.
LEMMA LeastIn ==
  ASSUME NEW T \in SUBSET Symbols, T # {}
  PROVE  Least(T) \in T
<1>1. T \subseteq Nat
  BY SizesAssumption DEF Symbols
<1>2. PICK x \in T : \A y \in T : x <= y
  BY <1>1, Smallest
<1> QED
  BY <1>2 DEF Least

\* The latest date of a stored bar.
LEMMA LastIn ==
  ASSUME NEW T \in SUBSET Days, T # {}
  PROVE  Last(T) \in T /\ \A e \in T : e <= Last(T)
<1> DEFINE U == {MaxDay - d : d \in T}
<1>1. U \subseteq Nat /\ U # {}
  <2>1. \A t \in T : MaxDay - t \in Nat
    BY SizesAssumption DEF Days
  <2>2. PICK t \in T : TRUE
    OBVIOUS
  <2>3. MaxDay - t \in U
    OBVIOUS
  <2> QED
    BY <2>1, <2>3
<1>2. PICK u \in U : \A v \in U : u <= v
  BY <1>1, Smallest
<1>3. PICK d \in T : u = MaxDay - d
  OBVIOUS
<1>4. \A e \in T : e <= d
  <2> TAKE e \in T
  <2>1. u <= MaxDay - e
    BY <1>2
  <2> QED
    BY <2>1, <1>3, SizesAssumption DEF Days
<1> QED
  BY <1>4 DEF Last

\* One more symbol behind the loop is one more in the count, and there are
\* never more than there are symbols.
LEMMA OneMoreBehind ==
  ASSUME NEW S \in SUBSET Symbols, NEW L \in SUBSET S, NEW s \in L
  PROVE  /\ Cardinality(S \ L) \in Nat
         /\ Cardinality(S \ (L \ {s})) = Cardinality(S \ L) + 1
         /\ Cardinality(S \ L) + 1 <= NumSymbols
<1>1. IsFiniteSet(Symbols) /\ Cardinality(Symbols) = NumSymbols
  BY FS_Interval, SizesAssumption DEF Symbols
<1>2. IsFiniteSet(S \ L)
  BY <1>1, FS_Subset
<1>3. S \ (L \ {s}) = (S \ L) \cup {s}
  OBVIOUS
<1>4. Cardinality(S \ (L \ {s})) = Cardinality(S \ L) + 1
  BY <1>2, <1>3, FS_AddElement
<1>5. Cardinality(S \ (L \ {s})) <= NumSymbols
  <2>1. S \ (L \ {s}) \in SUBSET Symbols
    OBVIOUS
  <2> QED
    BY <2>1, <1>1, FS_Subset
<1> QED
  BY <1>2, <1>4, <1>5, FS_CardinalityType

\* A factor may be replaced by a larger one.
LEMMA TimesGrows ==
  ASSUME NEW a \in Nat, NEW b \in Nat, NEW m \in Nat, a <= b
  PROVE  a * m <= b * m /\ a * m \in Nat /\ (a + 1) * m = a * m + m
<1>1. PICK k \in Nat : b = a + k
  BY b - a \in Nat
<1>2. (a + k) * m = a * m + k * m
  OBVIOUS
<1>3. a * m \in Nat /\ k * m \in Nat
  OBVIOUS
<1> QED
  BY <1>1, <1>2, <1>3

\* Days and symbols are finite sets of known size.
LEMMA FiniteDays ==
  ASSUME NEW T \in SUBSET Days
  PROVE  IsFiniteSet(T) /\ Cardinality(T) \in Nat /\ Cardinality(T) <= MaxDay
<1>1. IsFiniteSet(Days) /\ Cardinality(Days) = MaxDay
  BY FS_Interval, SizesAssumption DEF Days
<1> QED
  BY <1>1, FS_Subset, FS_CardinalityType

\* The same for the symbols.
LEMMA FiniteSymbols ==
  ASSUME NEW T \in SUBSET Symbols
  PROVE  IsFiniteSet(T) /\ Cardinality(T) \in Nat /\ Cardinality(T) <= NumSymbols
<1>1. IsFiniteSet(Symbols) /\ Cardinality(Symbols) = NumSymbols
  BY FS_Interval, SizesAssumption DEF Symbols
<1> QED
  BY <1>1, FS_Subset, FS_CardinalityType

\* The local variables of a call.
MemType == [saw: BOOLEAN, end: 0..MaxDay, symbols: SUBSET Symbols,
            left: SUBSET Symbols, latest: [Symbols -> 0..MaxDay],
            filled: 0..BatchSize, fetched: SUBSET (Symbols \cup Days),
            count: 0..(NumSymbols * MaxDay)]

\* The rows of sync_job_runs.
RowType == [status: {"absent", "running", "succeeded", "failed"}, inserted: Nat]

\* An assignment to local variables keeps their types.
LEMMA MemAssign ==
  ASSUME NEW m \in MemType
  PROVE  /\ \A b \in BOOLEAN : [m EXCEPT !.saw = b] \in MemType
         /\ \A f \in SUBSET (Symbols \cup Days) : [m EXCEPT !.fetched = f] \in MemType
         /\ \A f \in SUBSET (Symbols \cup Days), n \in 0..(NumSymbols * MaxDay) :
              [m EXCEPT !.fetched = f, !.count = n] \in MemType
         /\ \A S \in SUBSET Symbols : [m EXCEPT !.symbols = S, !.left = S] \in MemType
         /\ \A g \in [Symbols -> 0..MaxDay], d \in 0..MaxDay :
              [m EXCEPT !.latest = g, !.end = d] \in MemType
         /\ [m EXCEPT !.filled = 0] \in MemType
         /\ \A s : m.filled < BatchSize => Advance(m, s) \in MemType
<1> USE SizesAssumption DEF MemType
<1>1. \A b \in BOOLEAN : [m EXCEPT !.saw = b] \in MemType
  OBVIOUS
<1>2. \A f \in SUBSET (Symbols \cup Days) : [m EXCEPT !.fetched = f] \in MemType
  OBVIOUS
<1>3. \A f \in SUBSET (Symbols \cup Days), n \in 0..(NumSymbols * MaxDay) :
        [m EXCEPT !.fetched = f, !.count = n] \in MemType
  OBVIOUS
<1>4. \A S \in SUBSET Symbols : [m EXCEPT !.symbols = S, !.left = S] \in MemType
  OBVIOUS
<1>5. \A g \in [Symbols -> 0..MaxDay], d \in 0..MaxDay :
        [m EXCEPT !.latest = g, !.end = d] \in MemType
  OBVIOUS
<1>6. [m EXCEPT !.filled = 0] \in MemType
  OBVIOUS
<1>7. ASSUME NEW s, m.filled < BatchSize PROVE Advance(m, s) \in MemType
  <2> DEFINE L == m.left \ {s}
  <2> DEFINE n == m.filled + 1
  <2>1. L \in SUBSET Symbols /\ n \in 0..BatchSize
    BY <1>7
  <2>2. Advance(m, s) = [m EXCEPT !.left = L, !.filled = n, !.fetched = {}]
    BY DEF Advance
  <2> HIDE DEF L, n
  <2> QED
    BY <2>1, <2>2
<1> QED
  BY <1>1, <1>2, <1>3, <1>4, <1>5, <1>6, <1>7

\* The whole array keeps its type when one call's variables do.
LEMMA MemUpdate ==
  ASSUME mem \in [Calls -> MemType], NEW c \in Calls, NEW m \in MemType
  PROVE  [mem EXCEPT ![c] = m] \in [Calls -> MemType]
  OBVIOUS

\* What the types say of one call.
LEMMA MemTyped ==
  ASSUME TypeOK
  PROVE  mem \in [Calls -> MemType] /\ \A c \in Calls : mem[c] \in MemType
  BY DEF TypeOK, MemType

\* A call that has not finished its order works on a job.
LEMMA JobTyped ==
  ASSUME TypeOK, JobIsAtHand
  PROVE  \A c \in Calls : pc[c] # "done" => Job(c) \in Jobs
  BY DEF TypeOK, JobIsAtHand, Job, Jobs, Orders

\* Every order is a job, or a job before another.
LEMMA OrdersTail ==
  ASSUME TypeOK, JobIsAtHand
  PROVE  \A c \in Calls : pc[c] # "done" =>
           /\ Tail(todo[c]) \in Orders \cup {<<>>}
           /\ Job(c) = DailyBars => Tail(todo[c]) = <<>>
<1>1. Tail(<<StockMaster>>) = <<>> /\ Tail(<<DailyBars>>) = <<>>
  OBVIOUS
<1>2. Tail(<<StockMaster, DailyBars>>) = <<DailyBars>>
  OBVIOUS
<1>3. Head(<<StockMaster, DailyBars>>) # DailyBars
  BY DEF StockMaster, DailyBars
<1> QED
  BY <1>1, <1>2, <1>3 DEF TypeOK, JobIsAtHand, Job, Orders

\* There is at least one day.
LEMMA ProductIsLarger ==
  \A n \in 0..NumSymbols : n \in 0..(NumSymbols * MaxDay)
<1> SUFFICES ASSUME NEW n \in 0..NumSymbols PROVE n <= NumSymbols * MaxDay /\ NumSymbols * MaxDay \in Nat
  BY SizesAssumption
<1>1. 1 * NumSymbols <= MaxDay * NumSymbols /\ MaxDay * NumSymbols \in Nat
  BY SizesAssumption, TimesGrows
<1> QED
  BY <1>1, SizesAssumption

\* The bars of one more symbol still fit: at most one per symbol and day.
LEMMA CountStays ==
  ASSUME StateInv, NEW c \in Calls, pc[c] = "existing", NEW new, new \subseteq mem[c].fetched
  PROVE  /\ Counted(mem[c], new) \in 0..(NumSymbols * MaxDay)
         /\ Counted(mem[c], new) <=
              (Cardinality(mem[c].symbols \ mem[c].left) + 1) * MaxDay
<1> DEFINE k == Cardinality(mem[c].symbols \ mem[c].left)
<1>1. mem[c] \in MemType
  BY MemTyped DEF StateInv
<1>2. new \in SUBSET Days
  BY DEF StateInv, LoopIsInside
<1>3. Cardinality(new) \in Nat /\ Cardinality(new) <= MaxDay
  BY <1>2, FiniteDays
<1>4. PICK s \in mem[c].left : TRUE
  BY DEF StateInv, LoopIsInside
<1>5. k \in Nat /\ k + 1 <= NumSymbols
  BY <1>1, <1>4, OneMoreBehind DEF MemType, StateInv, LoopIsInside
<1>6. mem[c].count \in Nat /\ mem[c].count <= k * MaxDay
  <2>1. mem[c].count \in Nat
    BY <1>1 DEF MemType
  <2>2. mem[c].count <= (k + 0) * MaxDay
    BY DEF StateInv, CountIsBounded, Looping, LoopPcs
  <2> QED
    BY <2>1, <2>2, <1>5, SizesAssumption
<1>7. (k + 1) * MaxDay = k * MaxDay + MaxDay /\ k * MaxDay \in Nat
  BY <1>5, SizesAssumption, TimesGrows
<1>8. (k + 1) * MaxDay <= NumSymbols * MaxDay
  BY <1>5, SizesAssumption, TimesGrows
<1> HIDE DEF k
<1>9. Counted(mem[c], new) \in Nat /\ Counted(mem[c], new) <= (k + 1) * MaxDay
  BY <1>3, <1>6, <1>7, SizesAssumption DEF Counted
<1> QED
  BY <1>8, <1>9, <1>5, SizesAssumption, TimesGrows DEF k

\* No step breaks a type; the bounds of the loop are what TypeOK rests on.
LEMMA TypeStep == StateInv /\ [Next]_vars => TypeOK'
<1> SUFFICES ASSUME StateInv, [Next]_vars PROVE TypeOK'
  OBVIOUS
<1> USE DEF StateInv
<1>1. ASSUME NEW c \in Calls, Conflict(c) PROVE TypeOK'
  <2>1. pc' \in [Calls -> {"idle"} \cup RunPcs \cup EndPcs]
    BY <1>1 DEF TypeOK, Conflict, Goto, RunPcs, TryPcs, EndPcs
  <2>2. result' \in [Calls -> {"none", "ok", "conflict", "error"}]
    BY <1>1 DEF TypeOK, Conflict
  <2>3. UNCHANGED <<args, todo, mem, open, pending, lock, jobs, audit, stocks, bars, listed, today>>
    BY <1>1 DEF Conflict, tables, world
  <2> QED
    BY <2>1, <2>2, <2>3 DEF TypeOK
<1>2. ASSUME NEW c \in Calls, EnterLock(c) PROVE TypeOK'
  <2>1. pc' \in [Calls -> {"idle"} \cup RunPcs \cup EndPcs]
    BY <1>2 DEF TypeOK, EnterLock, Goto, RunPcs, TryPcs, EndPcs
  <2>2. lock' \in [Processes -> [Jobs -> Calls \cup {Nobody}]]
    BY <1>2, CallsAssumption DEF TypeOK, EnterLock, Release, Process, Job
  <2>3. UNCHANGED <<args, todo, mem, open, pending, result, jobs, audit, stocks, bars, listed, today>>
    BY <1>2 DEF EnterLock, tables, world
  <2> QED
    BY <2>1, <2>2, <2>3 DEF TypeOK
<1>3. ASSUME NEW c \in Calls, FindJob(c) PROVE TypeOK'
  <2>1. pc' \in [Calls -> {"idle"} \cup RunPcs \cup EndPcs]
    BY <1>3 DEF TypeOK, FindJob, Goto, RunPcs, TryPcs, EndPcs
  <2>2. mem' \in [Calls -> MemType]
    <3> DEFINE b == Job(c) \in jobs
    <3>1. b \in BOOLEAN
      OBVIOUS
    <3>2. mem' = [mem EXCEPT ![c].saw = b]
      BY <1>3 DEF FindJob
    <3> HIDE DEF b
    <3>8. [mem[c] EXCEPT !.saw = b] \in MemType
      BY MemTyped, MemAssign, <3>1
    <3>9. mem' = [mem EXCEPT ![c] = [mem[c] EXCEPT !.saw = b]]
      BY <3>2
    <3> QED
      BY <3>8, <3>9, MemTyped, MemUpdate
  <2>3. UNCHANGED <<args, todo, open, pending, result, lock, jobs, audit, stocks, bars, listed, today>>
    BY <1>3 DEF FindJob, tables, world
  <2> QED
    BY <2>1, <2>2, <2>3 DEF TypeOK, MemType
<1>4. ASSUME NEW c \in Calls, StartRun(c) PROVE TypeOK'
  <2>1. pc' \in [Calls -> {"idle"} \cup RunPcs \cup EndPcs]
    BY <1>4 DEF TypeOK, StartRun, Goto, RunPcs, TryPcs, EndPcs
  <2>2. jobs' \in SUBSET Jobs
    BY <1>4, JobTyped DEF TypeOK, StartRun
  <2>3. audit' \in [Calls -> [Jobs -> RowType]]
    <3>1. Job(c) \in Jobs /\ audit[c][Job(c)] \in RowType
      BY <1>4, JobTyped DEF TypeOK, RowType, StartRun, TryPcs
    <3>2. [audit[c][Job(c)] EXCEPT !.status = "running"] \in RowType
      BY <3>1 DEF RowType
    <3>3. audit \in [Calls -> [Jobs -> RowType]]
      BY DEF TypeOK, RowType
    <3> QED
      BY <1>4, <3>1, <3>2, <3>3 DEF StartRun
  <2>4. UNCHANGED <<args, todo, mem, open, pending, result, lock, stocks, bars, listed, today>>
    BY <1>4 DEF StartRun, tables, world
  <2> QED
    BY <2>1, <2>2, <2>3, <2>4 DEF TypeOK, RowType
<1>5. ASSUME NEW c \in Calls, StartCollides(c) PROVE TypeOK'
  <2>1. pc' \in [Calls -> {"idle"} \cup RunPcs \cup EndPcs]
    BY <1>5 DEF TypeOK, StartCollides, Goto, RunPcs, TryPcs, EndPcs
  <2>2. result' \in [Calls -> {"none", "ok", "conflict", "error"}]
    BY <1>5 DEF TypeOK, StartCollides
  <2>3. lock' \in [Processes -> [Jobs -> Calls \cup {Nobody}]]
    BY <1>5, CallsAssumption DEF TypeOK, StartCollides, Release, Process, Job
  <2>4. UNCHANGED <<args, todo, mem, open, pending, jobs, audit, stocks, bars, listed, today>>
    BY <1>5 DEF StartCollides, tables, world
  <2> QED
    BY <2>1, <2>2, <2>3, <2>4 DEF TypeOK
<1>6. ASSUME NEW c \in Calls, FetchMaster(c) PROVE TypeOK'
  <2>1. pc' \in [Calls -> {"idle"} \cup RunPcs \cup EndPcs]
    BY <1>6 DEF TypeOK, FetchMaster, Goto, RunPcs, TryPcs, EndPcs
  <2>2. mem' \in [Calls -> MemType]
    <3>8. [mem[c] EXCEPT !.fetched = listed] \in MemType
      BY MemTyped, MemAssign DEF TypeOK
    <3>9. mem' = [mem EXCEPT ![c] = [mem[c] EXCEPT !.fetched = listed]]
      BY <1>6 DEF FetchMaster
    <3> QED
      BY <3>8, <3>9, MemTyped, MemUpdate
  <2>3. UNCHANGED <<args, todo, open, pending, result, lock, jobs, audit, stocks, bars, listed, today>>
    BY <1>6 DEF FetchMaster, tables, world
  <2> QED
    BY <2>1, <2>2, <2>3 DEF TypeOK, MemType
<1>7. ASSUME NEW c \in Calls, UpsertMaster(c) PROVE TypeOK'
  <2>1. pc' \in [Calls -> {"idle"} \cup RunPcs \cup EndPcs]
    BY <1>7 DEF TypeOK, UpsertMaster, Goto, RunPcs, TryPcs, EndPcs
  <2>2. mem' \in [Calls -> MemType]
    <3>1. mem[c].fetched \ stocks \in SUBSET Symbols
      BY <1>7 DEF UpsertMaster, LoopIsInside
    <3>2. Cardinality(mem[c].fetched \ stocks) \in 0..NumSymbols
      BY <3>1, FiniteSymbols, SizesAssumption
    <3>3. Cardinality(mem[c].fetched \ stocks) \in 0..(NumSymbols * MaxDay)
      BY <3>2, ProductIsLarger
    <3>8. [mem[c] EXCEPT !.fetched = mem[c].fetched \ stocks, !.count = Cardinality(mem[c].fetched \ stocks)] \in MemType
      BY MemTyped, MemAssign, <3>1, <3>3
    <3>9. mem' = [mem EXCEPT ![c] = [mem[c] EXCEPT !.fetched = mem[c].fetched \ stocks, !.count = Cardinality(mem[c].fetched \ stocks)]]
      BY <1>7 DEF UpsertMaster
    <3> QED
      BY <3>8, <3>9, MemTyped, MemUpdate
  <2>3. open' \in [Calls -> BOOLEAN]
    BY <1>7 DEF TypeOK, UpsertMaster
  <2>4. UNCHANGED <<args, todo, pending, result, lock, jobs, audit, stocks, bars, listed, today>>
    BY <1>7 DEF UpsertMaster, tables, world
  <2> QED
    BY <2>1, <2>2, <2>3, <2>4 DEF TypeOK, MemType
<1>8. ASSUME NEW c \in Calls, CommitMaster(c) PROVE TypeOK'
  <2>1. pc' \in [Calls -> {"idle"} \cup RunPcs \cup EndPcs]
    BY <1>8 DEF TypeOK, CommitMaster, Goto, RunPcs, TryPcs, EndPcs
  <2>2. mem' \in [Calls -> MemType]
    <3>8. [mem[c] EXCEPT !.fetched = {}] \in MemType
      BY MemTyped, MemAssign
    <3>9. mem' = [mem EXCEPT ![c] = [mem[c] EXCEPT !.fetched = {}]]
      BY <1>8 DEF CommitMaster
    <3> QED
      BY <3>8, <3>9, MemTyped, MemUpdate
  <2>3. open' \in [Calls -> BOOLEAN]
    BY <1>8 DEF TypeOK, CommitMaster
  <2>4. stocks' \in SUBSET Symbols
    BY <1>8 DEF TypeOK, CommitMaster, LoopIsInside
  <2>5. UNCHANGED <<args, todo, pending, result, lock, jobs, audit, bars, listed, today>>
    BY <1>8 DEF CommitMaster, tables, world
  <2> QED
    BY <2>1, <2>2, <2>3, <2>4, <2>5 DEF TypeOK, MemType
<1>9. ASSUME NEW c \in Calls, ReadActive(c) PROVE TypeOK'
  <2>1. pc' \in [Calls -> {"idle"} \cup RunPcs \cup EndPcs]
    BY <1>9 DEF TypeOK, ReadActive, Goto, RunPcs, TryPcs, EndPcs
  <2>2. mem' \in [Calls -> MemType]
    <3>8. [mem[c] EXCEPT !.symbols = stocks, !.left = stocks] \in MemType
      BY MemTyped, MemAssign DEF TypeOK
    <3>9. mem' = [mem EXCEPT ![c] = [mem[c] EXCEPT !.symbols = stocks, !.left = stocks]]
      BY <1>9 DEF ReadActive
    <3> QED
      BY <3>8, <3>9, MemTyped, MemUpdate
  <2>3. open' \in [Calls -> BOOLEAN]
    BY <1>9 DEF TypeOK, ReadActive
  <2>4. UNCHANGED <<args, todo, pending, result, lock, jobs, audit, stocks, bars, listed, today>>
    BY <1>9 DEF ReadActive, tables, world
  <2> QED
    BY <2>1, <2>2, <2>3, <2>4 DEF TypeOK, MemType
<1>10. ASSUME NEW c \in Calls, ReadLatest(c) PROVE TypeOK'
  <2>1. pc' \in [Calls -> {"idle"} \cup RunPcs \cup EndPcs]
    BY <1>10 DEF TypeOK, ReadLatest, Goto, RunPcs, TryPcs, EndPcs
  <2>2. mem' \in [Calls -> MemType]
    <3> DEFINE f == [s \in Symbols |-> IF s \in mem[c].left /\ Stored(s) # {} THEN Last(Stored(s)) ELSE 0]
    <3>1. \A s \in Symbols : Stored(s) # {} => Last(Stored(s)) \in Days
      BY LastIn DEF Stored
    <3>2. f \in [Symbols -> 0..MaxDay]
      BY <3>1, SizesAssumption DEF Days
    <3>3. today \in 0..MaxDay
      BY SizesAssumption DEF TypeOK, Days
    <3>8. [mem[c] EXCEPT !.latest = f, !.end = today] \in MemType
      BY MemTyped, MemAssign, <3>2, <3>3
    <3>9. mem' = [mem EXCEPT ![c] = [mem[c] EXCEPT !.latest = f, !.end = today]]
      BY <1>10 DEF ReadLatest
    <3> QED
      BY <3>8, <3>9, MemTyped, MemUpdate
  <2>3. open' \in [Calls -> BOOLEAN]
    BY <1>10 DEF TypeOK, ReadLatest
  <2>4. UNCHANGED <<args, todo, pending, result, lock, jobs, audit, stocks, bars, listed, today>>
    BY <1>10 DEF ReadLatest, tables, world
  <2> QED
    BY <2>1, <2>2, <2>3, <2>4 DEF TypeOK, MemType
<1>11. ASSUME NEW c \in Calls, SkipSymbol(c) PROVE TypeOK'
  <2>1. pc' \in [Calls -> {"idle"} \cup RunPcs \cup EndPcs]
    BY <1>11 DEF TypeOK, SkipSymbol, AfterSymbol, Goto, RunPcs, TryPcs, EndPcs
  <2>2. mem' \in [Calls -> MemType]
    <3>1. mem[c].filled < BatchSize
      BY <1>11 DEF SkipSymbol, LoopIsInside
    <3>8. Advance(mem[c], NextSymbol(c)) \in MemType
      BY MemTyped, MemAssign, <3>1
    <3>9. mem' = [mem EXCEPT ![c] = Advance(mem[c], NextSymbol(c))]
      BY <1>11 DEF SkipSymbol, AfterSymbol
    <3> QED
      BY <3>8, <3>9, MemTyped, MemUpdate
  <2>3. UNCHANGED <<args, todo, open, pending, result, lock, jobs, audit, stocks, bars, listed, today>>
    BY <1>11 DEF SkipSymbol, tables, world
  <2> QED
    BY <2>1, <2>2, <2>3 DEF TypeOK, MemType
<1>12. ASSUME NEW c \in Calls, FetchBars(c) PROVE TypeOK'
  <2>1. pc' \in [Calls -> {"idle"} \cup RunPcs \cup EndPcs]
    BY <1>12 DEF TypeOK, FetchBars, Goto, RunPcs, TryPcs, EndPcs
  <2>2. mem' \in [Calls -> MemType]
    <3>1. daily_bars(NextSymbol(c), Start(c, NextSymbol(c)), mem[c].end) \in SUBSET (Symbols \cup Days)
      BY DEF daily_bars
    <3>8. [mem[c] EXCEPT !.fetched = daily_bars(NextSymbol(c), Start(c, NextSymbol(c)), mem[c].end)] \in MemType
      BY MemTyped, MemAssign, <3>1
    <3>9. mem' = [mem EXCEPT ![c] = [mem[c] EXCEPT !.fetched = daily_bars(NextSymbol(c), Start(c, NextSymbol(c)), mem[c].end)]]
      BY <1>12 DEF FetchBars
    <3> QED
      BY <3>8, <3>9, MemTyped, MemUpdate
  <2>3. UNCHANGED <<args, todo, open, pending, result, lock, jobs, audit, stocks, bars, listed, today>>
    BY <1>12 DEF FetchBars, tables, world
  <2> QED
    BY <2>1, <2>2, <2>3 DEF TypeOK, MemType
<1>13. ASSUME NEW c \in Calls, CountBars(c) PROVE TypeOK'
  <2>1. pc' \in [Calls -> {"idle"} \cup RunPcs \cup EndPcs]
    BY <1>13, ZenonT(60) DEF TypeOK, CountBars, AfterSymbol, Goto, RunPcs, TryPcs, EndPcs
  <2>2. mem' \in [Calls -> MemType]
    <3> DEFINE new == mem[c].fetched \ Stored(NextSymbol(c))
    <3>1. mem[c].filled < BatchSize
      BY <1>13 DEF CountBars, LoopIsInside
    <3>2. Advance(mem[c], NextSymbol(c)) \in MemType
      BY <3>1, MemTyped, MemAssign
    <3>3. new \in SUBSET (Symbols \cup Days)
      BY MemTyped DEF MemType
    <3>4. Counted(mem[c], new) \in 0..(NumSymbols * MaxDay)
      BY <1>13, CountStays DEF CountBars
    <3>5. [mem[c] EXCEPT !.fetched = new, !.count = Counted(mem[c], new)] \in MemType
      BY <3>3, <3>4, MemTyped, MemAssign
    <3>6. \/ mem' = [mem EXCEPT ![c] = Advance(mem[c], NextSymbol(c))]
          \/ mem' = [mem EXCEPT ![c] = [mem[c] EXCEPT !.fetched = new, !.count = Counted(mem[c], new)]]
      BY <1>13 DEF CountBars, AfterSymbol
    <3> HIDE DEF new
    <3> QED
      BY <3>2, <3>5, <3>6, MemTyped, MemUpdate
  <2>3. open' \in [Calls -> BOOLEAN]
    BY <1>13 DEF TypeOK, CountBars
  <2>4. UNCHANGED <<args, todo, pending, result, lock, jobs, audit, stocks, bars, listed, today>>
    BY <1>13 DEF CountBars, tables, world
  <2> QED
    BY <2>1, <2>2, <2>3, <2>4 DEF TypeOK, MemType
<1>14. ASSUME NEW c \in Calls, UpsertBars(c) PROVE TypeOK'
  <2>1. pc' \in [Calls -> {"idle"} \cup RunPcs \cup EndPcs]
    BY <1>14 DEF TypeOK, UpsertBars, AfterSymbol, Goto, RunPcs, TryPcs, EndPcs
  <2>2. mem' \in [Calls -> MemType]
    <3>1. mem[c].filled < BatchSize
      BY <1>14 DEF UpsertBars, LoopIsInside
    <3>8. Advance(mem[c], NextSymbol(c)) \in MemType
      BY MemTyped, MemAssign, <3>1
    <3>9. mem' = [mem EXCEPT ![c] = Advance(mem[c], NextSymbol(c))]
      BY <1>14 DEF UpsertBars, AfterSymbol
    <3> QED
      BY <3>8, <3>9, MemTyped, MemUpdate
  <2>3. pending' \in [Calls -> SUBSET (Symbols \X Days)]
    <3>1. NextSymbol(c) \in Symbols
      BY <1>14, MemTyped, LeastIn DEF UpsertBars, NextSymbol, LoopIsInside, MemType
    <3>2. mem[c].fetched \subseteq Days
      BY <1>14 DEF UpsertBars, LoopIsInside
    <3> QED
      BY <1>14, <3>1, <3>2 DEF TypeOK, UpsertBars
  <2>4. UNCHANGED <<args, todo, open, result, lock, jobs, audit, stocks, bars, listed, today>>
    BY <1>14 DEF UpsertBars, tables, world
  <2> QED
    BY <2>1, <2>2, <2>3, <2>4 DEF TypeOK, MemType
<1>15. ASSUME NEW c \in Calls, CommitBatch(c) PROVE TypeOK'
  <2>1. pc' \in [Calls -> {"idle"} \cup RunPcs \cup EndPcs]
    BY <1>15 DEF TypeOK, CommitBatch, Goto, RunPcs, TryPcs, EndPcs
  <2>2. mem' \in [Calls -> MemType]
    <3>8. [mem[c] EXCEPT !.filled = 0] \in MemType
      BY MemTyped, MemAssign
    <3>9. mem' = [mem EXCEPT ![c] = [mem[c] EXCEPT !.filled = 0]]
      BY <1>15 DEF CommitBatch
    <3> QED
      BY <3>8, <3>9, MemTyped, MemUpdate
  <2>3. open' \in [Calls -> BOOLEAN]
    BY <1>15 DEF TypeOK, CommitBatch
  <2>4. pending' \in [Calls -> SUBSET (Symbols \X Days)]
    BY <1>15 DEF TypeOK, CommitBatch
  <2>5. bars' \in [Symbols -> [Days -> Calls \cup {Nobody}]]
    BY <1>15 DEF TypeOK, CommitBatch
  <2>6. UNCHANGED <<args, todo, result, lock, jobs, audit, stocks, listed, today>>
    BY <1>15 DEF CommitBatch, tables, world
  <2> QED
    BY <2>1, <2>2, <2>3, <2>4, <2>5, <2>6 DEF TypeOK, MemType
<1>16. ASSUME NEW c \in Calls, FinishRun(c) PROVE TypeOK'
  <2>1. pc' \in [Calls -> {"idle"} \cup RunPcs \cup EndPcs]
    BY <1>16 DEF TypeOK, FinishRun, Goto, RunPcs, TryPcs, EndPcs
  <2>2. open' \in [Calls -> BOOLEAN]
    BY <1>16 DEF TypeOK, FinishRun
  <2>3. UNCHANGED <<args, todo, mem, pending, result, lock, jobs, audit, stocks, bars, listed, today>>
    BY <1>16 DEF FinishRun, tables, world
  <2> QED
    BY <2>1, <2>2, <2>3 DEF TypeOK
<1>17. ASSUME NEW c \in Calls, CloseRun(c) PROVE TypeOK'
  <2>1. pc' \in [Calls -> {"idle"} \cup RunPcs \cup EndPcs]
    BY <1>17 DEF TypeOK, CloseRun, Goto, RunPcs, TryPcs, EndPcs
  <2>2. mem' \in [Calls -> MemType]
    <3>1. NoMem \in MemType
      BY SizesAssumption DEF NoMem, MemType
    <3>2. mem' = mem \/ mem' = [mem EXCEPT ![c] = NoMem]
      BY <1>17 DEF CloseRun
    <3> QED
      BY <3>1, <3>2, MemTyped, MemUpdate
  <2>3. open' \in [Calls -> BOOLEAN]
    BY <1>17 DEF TypeOK, CloseRun
  <2>4. lock' \in [Processes -> [Jobs -> Calls \cup {Nobody}]]
    BY <1>17, CallsAssumption DEF TypeOK, CloseRun, Release, Process, Job
  <2>5. todo' \in [Calls -> Orders \cup {<<>>}]
    BY <1>17, OrdersTail DEF TypeOK, CloseRun, Orders
  <2>6. audit' \in [Calls -> [Jobs -> RowType]]
    <3>1. [status |-> "succeeded", inserted |-> mem[c].count] \in RowType
      BY MemTyped DEF MemType, RowType
    <3> QED
      BY <1>17, <3>1 DEF TypeOK, CloseRun, RowType
  <2>7. result' \in [Calls -> {"none", "ok", "conflict", "error"}]
    BY <1>17 DEF TypeOK, CloseRun
  <2>8. UNCHANGED <<args, pending, jobs, stocks, bars, listed, today>>
    BY <1>17 DEF CloseRun, tables, world
  <2> QED
    BY <2>1, <2>2, <2>3, <2>4, <2>5, <2>6, <2>7, <2>8 DEF TypeOK, MemType, RowType
<1>18. ASSUME NEW c \in Calls, Raise(c) PROVE TypeOK'
  <2>1. pc' \in [Calls -> {"idle"} \cup RunPcs \cup EndPcs]
    BY <1>18 DEF TypeOK, Raise, Goto, RunPcs, TryPcs, EndPcs
  <2>2. open' \in [Calls -> BOOLEAN]
    BY <1>18 DEF TypeOK, Raise
  <2>3. pending' \in [Calls -> SUBSET (Symbols \X Days)]
    BY <1>18 DEF TypeOK, Raise
  <2>4. lock' \in [Processes -> [Jobs -> Calls \cup {Nobody}]]
    BY <1>18, CallsAssumption DEF TypeOK, Raise, Release, Process, Job
  <2>5. audit' \in [Calls -> [Jobs -> RowType]]
    <3>1. Job(c) \in Jobs /\ audit[c][Job(c)] \in RowType
      BY <1>18, JobTyped DEF TypeOK, RowType, Raise, TryPcs
    <3>2. [audit[c][Job(c)] EXCEPT !.status = "failed"] \in RowType
      BY <3>1 DEF RowType
    <3>3. audit \in [Calls -> [Jobs -> RowType]]
      BY DEF TypeOK, RowType
    <3> QED
      BY <1>18, <3>1, <3>2, <3>3 DEF Raise
  <2>6. result' \in [Calls -> {"none", "ok", "conflict", "error"}]
    BY <1>18 DEF TypeOK, Raise
  <2>7. UNCHANGED <<args, todo, mem, jobs, stocks, bars, listed, today>>
    BY <1>18 DEF Raise, tables, world
  <2> QED
    BY <2>1, <2>2, <2>3, <2>4, <2>5, <2>6, <2>7 DEF TypeOK, RowType
<1>19. ASSUME NEW p \in Processes, Crash(p) PROVE TypeOK'
  <2>1. pc' \in [Calls -> {"idle"} \cup RunPcs \cup EndPcs]
    BY <1>19 DEF TypeOK, Crash, Goto, RunPcs, TryPcs, EndPcs
  <2>2. open' \in [Calls -> BOOLEAN]
    BY <1>19 DEF TypeOK, Crash
  <2>3. pending' \in [Calls -> SUBSET (Symbols \X Days)]
    BY <1>19 DEF TypeOK, Crash
  <2>4. lock' \in [Processes -> [Jobs -> Calls \cup {Nobody}]]
    BY <1>19, CallsAssumption DEF TypeOK, Crash, Release, Process, Job
  <2>5. UNCHANGED <<args, todo, mem, result, jobs, audit, stocks, bars, listed, today>>
    BY <1>19 DEF Crash, tables, world
  <2> QED
    BY <2>1, <2>2, <2>3, <2>4, <2>5 DEF TypeOK
<1>20. ASSUME NEW s \in Symbols, ListStock(s) PROVE TypeOK'
  <2>1. listed' \in SUBSET Symbols
    BY <1>20 DEF TypeOK, ListStock
  <2>2. UNCHANGED <<args, todo, pc, mem, open, pending, result, lock, jobs, audit, stocks, bars, today>>
    BY <1>20 DEF ListStock, tables, world
  <2> QED
    BY <2>1, <2>2 DEF TypeOK
<1>21. ASSUME NextDay PROVE TypeOK'
  <2>1. today' \in Days
    BY <1>21, SizesAssumption DEF TypeOK, NextDay, Days
  <2>2. UNCHANGED <<args, todo, pc, mem, open, pending, result, lock, jobs, audit, stocks, bars, listed>>
    BY <1>21 DEF NextDay, tables, world
  <2> QED
    BY <2>1, <2>2 DEF TypeOK
<1>22. CASE UNCHANGED vars
  BY <1>22 DEF vars, TypeOK
<1> QED
  BY <1>1, <1>2, <1>3, <1>4, <1>5, <1>6, <1>7, <1>8, <1>9, <1>10, <1>11,
     <1>12, <1>13, <1>14, <1>15, <1>16, <1>17, <1>18, <1>19, <1>20, <1>21,
     <1>22
     DEF Next, CallStep, Ended

\* A call keeps to the job at the head of its order.
LEMMA JobStep == StateInv /\ [Next]_vars => JobIsAtHand'
<1> SUFFICES ASSUME StateInv, [Next]_vars PROVE JobIsAtHand'
  OBVIOUS
<1> USE DEF StateInv, TypeOK, JobIsAtHand, BarPcs, RunPcs, TryPcs, EndPcs, Job, Orders, StockMaster, DailyBars, Goto, tables, world
<1>1. ASSUME NEW c \in Calls, Conflict(c) PROVE JobIsAtHand'
  BY <1>1 DEF Conflict, AfterSymbol
<1>2. ASSUME NEW c \in Calls, EnterLock(c) PROVE JobIsAtHand'
  BY <1>2 DEF EnterLock, AfterSymbol
<1>3. ASSUME NEW c \in Calls, FindJob(c) PROVE JobIsAtHand'
  BY <1>3 DEF FindJob, AfterSymbol
<1>4. ASSUME NEW c \in Calls, StartRun(c) PROVE JobIsAtHand'
  BY <1>4 DEF StartRun, AfterSymbol
<1>5. ASSUME NEW c \in Calls, StartCollides(c) PROVE JobIsAtHand'
  BY <1>5 DEF StartCollides, AfterSymbol
<1>6. ASSUME NEW c \in Calls, FetchMaster(c) PROVE JobIsAtHand'
  BY <1>6 DEF FetchMaster, AfterSymbol
<1>7. ASSUME NEW c \in Calls, UpsertMaster(c) PROVE JobIsAtHand'
  BY <1>7 DEF UpsertMaster, AfterSymbol
<1>8. ASSUME NEW c \in Calls, CommitMaster(c) PROVE JobIsAtHand'
  BY <1>8 DEF CommitMaster, AfterSymbol
<1>9. ASSUME NEW c \in Calls, ReadActive(c) PROVE JobIsAtHand'
  BY <1>9 DEF ReadActive, AfterSymbol
<1>10. ASSUME NEW c \in Calls, ReadLatest(c) PROVE JobIsAtHand'
  BY <1>10 DEF ReadLatest, AfterSymbol
<1>11. ASSUME NEW c \in Calls, SkipSymbol(c) PROVE JobIsAtHand'
  BY <1>11 DEF SkipSymbol, AfterSymbol
<1>12. ASSUME NEW c \in Calls, FetchBars(c) PROVE JobIsAtHand'
  BY <1>12 DEF FetchBars, AfterSymbol
<1>13. ASSUME NEW c \in Calls, CountBars(c) PROVE JobIsAtHand'
  BY <1>13 DEF CountBars, AfterSymbol
<1>14. ASSUME NEW c \in Calls, UpsertBars(c) PROVE JobIsAtHand'
  BY <1>14 DEF UpsertBars, AfterSymbol
<1>15. ASSUME NEW c \in Calls, CommitBatch(c) PROVE JobIsAtHand'
  BY <1>15 DEF CommitBatch, AfterSymbol
<1>16. ASSUME NEW c \in Calls, FinishRun(c) PROVE JobIsAtHand'
  BY <1>16 DEF FinishRun, AfterSymbol
<1>17. ASSUME NEW c \in Calls, CloseRun(c) PROVE JobIsAtHand'
  BY <1>17 DEF CloseRun, AfterSymbol
<1>18. ASSUME NEW c \in Calls, Raise(c) PROVE JobIsAtHand'
  BY <1>18 DEF Raise, AfterSymbol
<1>19. ASSUME NEW p \in Processes, Crash(p) PROVE JobIsAtHand'
  BY <1>19 DEF Crash, AfterSymbol
<1>20. ASSUME NEW s \in Symbols, ListStock(s) PROVE JobIsAtHand'
  BY <1>20 DEF ListStock, AfterSymbol
<1>21. ASSUME NextDay PROVE JobIsAtHand'
  BY <1>21 DEF NextDay, AfterSymbol
<1>22. CASE UNCHANGED vars
  BY <1>22 DEF vars, AfterSymbol
<1> QED
  BY <1>1, <1>2, <1>3, <1>4, <1>5, <1>6, <1>7, <1>8, <1>9, <1>10, <1>11,
     <1>12, <1>13, <1>14, <1>15, <1>16, <1>17, <1>18, <1>19, <1>20, <1>21,
     <1>22
     DEF Next, CallStep, Ended

\* A run that ends gives up its own lock and no other.
LEMMA ReleaseKeepsLocks ==
  ASSUME StateInv, NEW c \in Calls, pc[c] \in RunPcs,
         NEW to \in {"done", "idle"}, pc' = [pc EXCEPT ![c] = to],
         Release(c), UNCHANGED args, \A q \in Calls \ {c} : todo'[q] = todo[q]
  PROVE  LockInv'
<1> USE CallsAssumption, JobTyped
<1> USE DEF StateInv, TypeOK, LockInv, RunPcs, TryPcs, Job, Process, Release
<1>1. Process(c) \in Processes /\ Job(c) \in Jobs /\ lock[Process(c)][Job(c)] = c
  OBVIOUS
<1>2. ASSUME NEW q \in Calls, pc'[q] \in RunPcs PROVE lock'[Process(q)'][Job(q)'] = q
  <2>1. q # c /\ pc[q] \in RunPcs
    BY <1>2
  <2>2. lock[Process(q)][Job(q)] = q /\ Process(q)' = Process(q) /\ Job(q)' = Job(q)
    BY <2>1
  <2> QED
    BY <2>1, <2>2, <1>1
<1>3. ASSUME NEW p \in Processes, NEW j \in Jobs, lock'[p][j] # Nobody
      PROVE  (Process(lock[p][j]) = p /\ pc[lock[p][j]] \in RunPcs /\ Job(lock[p][j]) = j)'
  <2>1. lock'[p][j] = lock[p][j] /\ lock[p][j] \in Calls \ {c}
    BY <1>1, <1>3, SMTT(60)
  <2> QED
    BY <2>1
<1> HIDE DEF StateInv, TypeOK, RunPcs, TryPcs, Job, Process, Release
<1> QED
  BY <1>2, <1>3

\* Locks are taken and released with the runs.
LEMMA LockStep == StateInv /\ [Next]_vars => LockInv'
<1> SUFFICES ASSUME StateInv, [Next]_vars PROVE LockInv'
  OBVIOUS
<1> USE CallsAssumption, JobTyped
<1> USE DEF StateInv, TypeOK, LockInv, RunPcs, TryPcs, Job, Process, Goto, Release, tables, world
<1>1. ASSUME NEW c \in Calls, Conflict(c) PROVE LockInv'
  BY <1>1 DEF Conflict, AfterSymbol
<1>2. ASSUME NEW c \in Calls, EnterLock(c) PROVE LockInv'
  BY <1>2, SMTT(60) DEF EnterLock, AfterSymbol
<1>3. ASSUME NEW c \in Calls, FindJob(c) PROVE LockInv'
  BY <1>3 DEF FindJob, AfterSymbol
<1>4. ASSUME NEW c \in Calls, StartRun(c) PROVE LockInv'
  BY <1>4 DEF StartRun, AfterSymbol
<1>5. ASSUME NEW c \in Calls, StartCollides(c) PROVE LockInv'
  <2>1. /\ pc' = [pc EXCEPT ![c] = "done"] /\ pc[c] \in RunPcs
        /\ UNCHANGED <<args, todo>> /\ Release(c)
    BY <1>5 DEF StartCollides
  <2> HIDE DEF StateInv, LockInv, RunPcs, Release
  <2> QED
    BY <2>1, ReleaseKeepsLocks
<1>6. ASSUME NEW c \in Calls, FetchMaster(c) PROVE LockInv'
  BY <1>6 DEF FetchMaster, AfterSymbol
<1>7. ASSUME NEW c \in Calls, UpsertMaster(c) PROVE LockInv'
  BY <1>7 DEF UpsertMaster, AfterSymbol
<1>8. ASSUME NEW c \in Calls, CommitMaster(c) PROVE LockInv'
  BY <1>8 DEF CommitMaster, AfterSymbol
<1>9. ASSUME NEW c \in Calls, ReadActive(c) PROVE LockInv'
  BY <1>9 DEF ReadActive, AfterSymbol
<1>10. ASSUME NEW c \in Calls, ReadLatest(c) PROVE LockInv'
  BY <1>10 DEF ReadLatest, AfterSymbol
<1>11. ASSUME NEW c \in Calls, SkipSymbol(c) PROVE LockInv'
  BY <1>11 DEF SkipSymbol, AfterSymbol
<1>12. ASSUME NEW c \in Calls, FetchBars(c) PROVE LockInv'
  BY <1>12 DEF FetchBars, AfterSymbol
<1>13. ASSUME NEW c \in Calls, CountBars(c) PROVE LockInv'
  <2>1. PICK to \in {"commit", "symbol", "upsert"} : pc' = [pc EXCEPT ![c] = to]
    BY <1>13 DEF CountBars, AfterSymbol
  <2>2. UNCHANGED <<args, todo, lock>> /\ pc[c] = "existing"
    BY <1>13 DEF CountBars
  <2> QED
    BY <2>1, <2>2
<1>14. ASSUME NEW c \in Calls, UpsertBars(c) PROVE LockInv'
  BY <1>14 DEF UpsertBars, AfterSymbol
<1>15. ASSUME NEW c \in Calls, CommitBatch(c) PROVE LockInv'
  BY <1>15 DEF CommitBatch, AfterSymbol
<1>16. ASSUME NEW c \in Calls, FinishRun(c) PROVE LockInv'
  BY <1>16 DEF FinishRun, AfterSymbol
<1>17. ASSUME NEW c \in Calls, CloseRun(c) PROVE LockInv'
  <2>1. PICK to \in {"done", "idle"} : pc' = [pc EXCEPT ![c] = to]
    BY <1>17 DEF CloseRun
  <2>2. /\ UNCHANGED args /\ Release(c) /\ pc[c] \in RunPcs
        /\ \A q \in Calls \ {c} : todo'[q] = todo[q]
    BY <1>17 DEF CloseRun
  <2> HIDE DEF StateInv, LockInv, RunPcs, Release
  <2> QED
    BY <2>1, <2>2, ReleaseKeepsLocks
<1>18. ASSUME NEW c \in Calls, Raise(c) PROVE LockInv'
  <2>1. /\ pc' = [pc EXCEPT ![c] = "done"] /\ pc[c] \in RunPcs
        /\ UNCHANGED <<args, todo>> /\ Release(c)
    BY <1>18 DEF Raise
  <2> HIDE DEF StateInv, LockInv, RunPcs, Release
  <2> QED
    BY <2>1, ReleaseKeepsLocks
<1>19. ASSUME NEW p \in Processes, Crash(p) PROVE LockInv'
  BY <1>19 DEF Crash, AfterSymbol
<1>20. ASSUME NEW s \in Symbols, ListStock(s) PROVE LockInv'
  BY <1>20 DEF ListStock, AfterSymbol
<1>21. ASSUME NextDay PROVE LockInv'
  BY <1>21 DEF NextDay, AfterSymbol
<1>22. CASE UNCHANGED vars
  BY <1>22 DEF vars, AfterSymbol
<1> QED
  BY <1>1, <1>2, <1>3, <1>4, <1>5, <1>6, <1>7, <1>8, <1>9, <1>10, <1>11,
     <1>12, <1>13, <1>14, <1>15, <1>16, <1>17, <1>18, <1>19, <1>20, <1>21,
     <1>22
     DEF Next, CallStep, Ended

\* The loop never runs past its symbols or its batch.
LEMMA LoopStep == StateInv /\ [Next]_vars => LoopIsInside'
<1> SUFFICES ASSUME StateInv, [Next]_vars PROVE LoopIsInside'
  OBVIOUS
<1> USE SizesAssumption
<1> USE DEF StateInv, TypeOK, LoopIsInside, JobIsAtHand, BarPcs, Job, Orders, StockMaster, DailyBars, Goto, tables, world
<1>1. ASSUME NEW c \in Calls, Conflict(c) PROVE LoopIsInside'
  BY <1>1 DEF Conflict, AfterSymbol, Advance, BatchEnds
<1>2. ASSUME NEW c \in Calls, EnterLock(c) PROVE LoopIsInside'
  BY <1>2 DEF EnterLock, AfterSymbol, Advance, BatchEnds
<1>3. ASSUME NEW c \in Calls, FindJob(c) PROVE LoopIsInside'
  BY <1>3 DEF FindJob, AfterSymbol, Advance, BatchEnds
<1>4. ASSUME NEW c \in Calls, StartRun(c) PROVE LoopIsInside'
  BY <1>4 DEF StartRun, AfterSymbol, Advance, BatchEnds
<1>5. ASSUME NEW c \in Calls, StartCollides(c) PROVE LoopIsInside'
  BY <1>5 DEF StartCollides, AfterSymbol, Advance, BatchEnds
<1>6. ASSUME NEW c \in Calls, FetchMaster(c) PROVE LoopIsInside'
  BY <1>6 DEF FetchMaster, AfterSymbol, Advance, BatchEnds
<1>7. ASSUME NEW c \in Calls, UpsertMaster(c) PROVE LoopIsInside'
  BY <1>7 DEF UpsertMaster, AfterSymbol, Advance, BatchEnds
<1>8. ASSUME NEW c \in Calls, CommitMaster(c) PROVE LoopIsInside'
  BY <1>8 DEF CommitMaster, AfterSymbol, Advance, BatchEnds
<1>9. ASSUME NEW c \in Calls, ReadActive(c) PROVE LoopIsInside'
  BY <1>9 DEF ReadActive, AfterSymbol, Advance, BatchEnds
<1>10. ASSUME NEW c \in Calls, ReadLatest(c) PROVE LoopIsInside'
  <2>1. PICK f, e : mem' = [mem EXCEPT ![c].latest = f, ![c].end = e]
    BY <1>10 DEF ReadLatest
  <2>2. \A q \in Calls : /\ mem'[q].left = mem[q].left /\ mem'[q].symbols = mem[q].symbols
                         /\ mem'[q].filled = mem[q].filled /\ mem'[q].count = mem[q].count
                         /\ mem'[q].fetched = mem[q].fetched
    BY <2>1
  <2>3. /\ pc' = [pc EXCEPT ![c] = IF mem[c].left = {} THEN "synced" ELSE "symbol"]
        /\ pc[c] = "latest" /\ UNCHANGED todo
    BY <1>10 DEF ReadLatest
  <2> QED
    BY <2>2, <2>3
<1>11. ASSUME NEW c \in Calls, SkipSymbol(c) PROVE LoopIsInside'
  BY <1>11 DEF SkipSymbol, AfterSymbol, Advance, BatchEnds
<1>12. ASSUME NEW c \in Calls, FetchBars(c) PROVE LoopIsInside'
  <2>1. PICK F \in SUBSET Days : mem' = [mem EXCEPT ![c].fetched = F]
    BY <1>12 DEF FetchBars, daily_bars
  <2>2. \A q \in Calls : /\ mem'[q].left = mem[q].left /\ mem'[q].symbols = mem[q].symbols
                         /\ mem'[q].filled = mem[q].filled /\ mem'[q].count = mem[q].count
                         /\ mem'[q].fetched = IF q = c THEN F ELSE mem[q].fetched
    BY <2>1
  <2>3. pc' = [pc EXCEPT ![c] = "existing"] /\ pc[c] = "symbol" /\ UNCHANGED todo
    BY <1>12 DEF FetchBars
  <2> QED
    BY <2>2, <2>3, SMTT(60)
<1>13. ASSUME NEW c \in Calls, CountBars(c) PROVE LoopIsInside'
  <2>1. pc[c] = "existing" /\ UNCHANGED todo
    BY <1>13 DEF CountBars
  <2>2. CASE mem[c].fetched = {}
    <3>1. AfterSymbol(c, Advance(mem[c], NextSymbol(c)))
      BY <1>13, <2>2 DEF CountBars
    <3> QED
      BY <2>1, <3>1 DEF AfterSymbol, Advance, BatchEnds
  <2>3. CASE mem[c].fetched # {}
    <3> DEFINE n == mem[c].fetched \ Stored(NextSymbol(c))
    <3> DEFINE k == Counted(mem[c], n)
    <3>1. mem' = [mem EXCEPT ![c].fetched = n, ![c].count = k] /\ n \subseteq mem[c].fetched
      BY <1>13, <2>3 DEF CountBars
    <3>2. pc' = [pc EXCEPT ![c] = "upsert"]
      BY <1>13, <2>3 DEF CountBars
    <3> HIDE DEF n, k
    <3>3. \A q \in Calls : /\ mem'[q].left = mem[q].left /\ mem'[q].symbols = mem[q].symbols
                           /\ mem'[q].filled = mem[q].filled
                           /\ q # c => mem'[q].count = mem[q].count
                           /\ mem'[q].fetched \subseteq mem[q].fetched
      BY <3>1
    <3> QED
      BY <2>1, <3>2, <3>3
  <2> QED
    BY <2>2, <2>3
<1>14. ASSUME NEW c \in Calls, UpsertBars(c) PROVE LoopIsInside'
  BY <1>14 DEF UpsertBars, AfterSymbol, Advance, BatchEnds
<1>15. ASSUME NEW c \in Calls, CommitBatch(c) PROVE LoopIsInside'
  BY <1>15 DEF CommitBatch, AfterSymbol, Advance, BatchEnds
<1>16. ASSUME NEW c \in Calls, FinishRun(c) PROVE LoopIsInside'
  BY <1>16 DEF FinishRun, AfterSymbol, Advance, BatchEnds
<1>17. ASSUME NEW c \in Calls, CloseRun(c) PROVE LoopIsInside'
  <2>1. pc[c] = "closing" /\ todo' = [todo EXCEPT ![c] = Tail(@)]
    BY <1>17 DEF CloseRun
  <2>2. CASE pc' = [pc EXCEPT ![c] = "done"] /\ mem' = mem
    BY <2>1, <2>2
  <2>3. CASE pc' = [pc EXCEPT ![c] = "idle"] /\ mem' = [mem EXCEPT ![c] = NoMem]
    <3>1. /\ NoMem.left = {} /\ NoMem.filled = 0
          /\ NoMem.count = 0 /\ NoMem.fetched = {}
      BY DEF NoMem
    <3> QED
      BY <2>1, <2>3, <3>1
  <2> QED
    BY <1>17, <2>2, <2>3 DEF CloseRun
<1>18. ASSUME NEW c \in Calls, Raise(c) PROVE LoopIsInside'
  BY <1>18 DEF Raise, AfterSymbol, Advance, BatchEnds
<1>19. ASSUME NEW p \in Processes, Crash(p) PROVE LoopIsInside'
  BY <1>19 DEF Crash, AfterSymbol, Advance, BatchEnds
<1>20. ASSUME NEW s \in Symbols, ListStock(s) PROVE LoopIsInside'
  BY <1>20 DEF ListStock, AfterSymbol, Advance, BatchEnds
<1>21. ASSUME NextDay PROVE LoopIsInside'
  BY <1>21 DEF NextDay, AfterSymbol, Advance, BatchEnds
<1>22. CASE UNCHANGED vars
  BY <1>22 DEF vars, AfterSymbol, Advance, BatchEnds
<1> QED
  BY <1>1, <1>2, <1>3, <1>4, <1>5, <1>6, <1>7, <1>8, <1>9, <1>10, <1>11,
     <1>12, <1>13, <1>14, <1>15, <1>16, <1>17, <1>18, <1>19, <1>20, <1>21,
     <1>22
     DEF Next, CallStep, Ended

\* The loop moves on to its next symbol: one more symbol is behind it.
LEMMA CountAdvance ==
  ASSUME StateInv, NEW c \in Calls, pc[c] \in {"symbol", "existing", "upsert"},
         AfterSymbol(c, Advance(mem[c], NextSymbol(c))), UNCHANGED todo
  PROVE  CountIsBounded'
<1> DEFINE k == Cardinality(mem[c].symbols \ mem[c].left)
<1>1. mem \in [Calls -> MemType] /\ mem[c] \in MemType
  BY MemTyped DEF StateInv
<1>2. mem[c].left \subseteq mem[c].symbols /\ mem[c].left # {}
  BY DEF StateInv, LoopIsInside
<1>3. NextSymbol(c) \in mem[c].left
  BY <1>1, <1>2, LeastIn DEF NextSymbol, MemType
<1>4. /\ mem'[c].symbols = mem[c].symbols /\ mem'[c].count = mem[c].count
      /\ mem'[c].left = mem[c].left \ {NextSymbol(c)}
      /\ \A q \in Calls \ {c} : mem'[q] = mem[q]
  BY <1>1 DEF AfterSymbol, Advance, MemType
<1>5. k \in Nat /\ Cardinality(mem'[c].symbols \ mem'[c].left) = k + 1
  <2>1. mem[c].symbols \in SUBSET Symbols /\ mem[c].left \in SUBSET mem[c].symbols
    BY <1>1, <1>2 DEF MemType
  <2>2. /\ Cardinality(mem[c].symbols \ mem[c].left) \in Nat
        /\ Cardinality(mem[c].symbols \ (mem[c].left \ {NextSymbol(c)}))
             = Cardinality(mem[c].symbols \ mem[c].left) + 1
    BY <2>1, <1>3, OneMoreBehind
  <2> QED
    BY <2>2, <1>4
<1>6. PICK to \in {"commit", "symbol"} : pc' = [pc EXCEPT ![c] = to]
  BY DEF AfterSymbol, Goto
<1>7. mem[c].count <= (k + 1) * MaxDay
  <2>1. mem[c].count \in Nat
    BY <1>1 DEF MemType
  <2>2. mem[c].count <= (k + (IF pc[c] = "upsert" THEN 1 ELSE 0)) * MaxDay
    BY DEF StateInv, CountIsBounded, Looping, LoopPcs
  <2>3. k * MaxDay <= (k + 1) * MaxDay /\ k * MaxDay \in Nat
    BY <1>5, SizesAssumption, TimesGrows
  <2> QED
    BY <2>1, <2>2, <2>3, <1>5, SizesAssumption
<1> HIDE DEF k
<1>8. (k + 1 + 0) * MaxDay = (k + 1) * MaxDay
  BY <1>5
<1>9. pc'[c] # "upsert" /\ \A q \in Calls \ {c} : pc'[q] = pc[q]
  BY <1>6 DEF StateInv, TypeOK
<1>10. ASSUME NEW q \in Calls, Looping(q)'
       PROVE  mem'[q].count <= (Cardinality(mem'[q].symbols \ mem'[q].left)
                                  + (IF pc'[q] = "upsert" THEN 1 ELSE 0)) * MaxDay
  <2>1. CASE q = c
    BY <2>1, <1>4, <1>5, <1>7, <1>8, <1>9
  <2>2. CASE q # c
    BY <2>2, <1>4, <1>9, <1>10 DEF StateInv, CountIsBounded, Looping, Job
  <2> QED
    BY <2>1, <2>2
<1> QED
  BY <1>10 DEF CountIsBounded

\* The count grows by at most a bar per symbol and day.
LEMMA CountStep == StateInv /\ [Next]_vars => CountIsBounded'
<1> SUFFICES ASSUME StateInv, [Next]_vars PROVE CountIsBounded'
  OBVIOUS
<1> USE SizesAssumption
<1> USE DEF StateInv, TypeOK, CountIsBounded, Looping, LoopPcs, JobIsAtHand, BarPcs, Job, StockMaster, DailyBars, Goto, tables, world
<1>1. ASSUME NEW c \in Calls, Conflict(c) PROVE CountIsBounded'
  BY <1>1 DEF Conflict, AfterSymbol, Advance, BatchEnds
<1>2. ASSUME NEW c \in Calls, EnterLock(c) PROVE CountIsBounded'
  BY <1>2 DEF EnterLock, AfterSymbol, Advance, BatchEnds
<1>3. ASSUME NEW c \in Calls, FindJob(c) PROVE CountIsBounded'
  BY <1>3 DEF FindJob, AfterSymbol, Advance, BatchEnds
<1>4. ASSUME NEW c \in Calls, StartRun(c) PROVE CountIsBounded'
  BY <1>4 DEF StartRun, AfterSymbol, Advance, BatchEnds
<1>5. ASSUME NEW c \in Calls, StartCollides(c) PROVE CountIsBounded'
  BY <1>5 DEF StartCollides, AfterSymbol, Advance, BatchEnds
<1>6. ASSUME NEW c \in Calls, FetchMaster(c) PROVE CountIsBounded'
  BY <1>6 DEF FetchMaster, AfterSymbol, Advance, BatchEnds
<1>7. ASSUME NEW c \in Calls, UpsertMaster(c) PROVE CountIsBounded'
  BY <1>7 DEF UpsertMaster, AfterSymbol, Advance, BatchEnds
<1>8. ASSUME NEW c \in Calls, CommitMaster(c) PROVE CountIsBounded'
  BY <1>8 DEF CommitMaster, AfterSymbol, Advance, BatchEnds
<1>9. ASSUME NEW c \in Calls, ReadActive(c) PROVE CountIsBounded'
  BY <1>9 DEF ReadActive, AfterSymbol, Advance, BatchEnds
<1>10. ASSUME NEW c \in Calls, ReadLatest(c) PROVE CountIsBounded'
  <2>1. PICK f, e : mem' = [mem EXCEPT ![c].latest = f, ![c].end = e]
    BY <1>10 DEF ReadLatest
  <2>2. \A q \in Calls : /\ mem'[q].left = mem[q].left /\ mem'[q].symbols = mem[q].symbols
                         /\ mem'[q].count = mem[q].count
    BY <2>1
  <2>3. /\ pc' = [pc EXCEPT ![c] = IF mem[c].left = {} THEN "synced" ELSE "symbol"]
        /\ pc[c] = "latest" /\ UNCHANGED todo
    BY <1>10 DEF ReadLatest
  <2>4. mem[c].count = 0 /\ mem[c].symbols \ mem[c].left = {}
    BY <2>3 DEF LoopIsInside
  <2>5. 0 <= (Cardinality(mem[c].symbols \ mem[c].left) + 0) * MaxDay
    <3>1. Cardinality(mem[c].symbols \ mem[c].left) = 0
      BY <2>4, FS_EmptySet
    <3> QED
      BY <3>1
  <2>6. ASSUME NEW q \in Calls, Looping(q)'
        PROVE  (mem[q].count <= (Cardinality(mem[q].symbols \ mem[q].left)
                                   + (IF pc[q] = "upsert" THEN 1 ELSE 0)) * MaxDay)'
    <3>1. CASE q = c
      BY <3>1, <2>2, <2>3, <2>4, <2>5
    <3>2. CASE q # c
      BY <3>2, <2>2, <2>3, <2>6
    <3> QED
      BY <3>1, <3>2
  <2> QED
    BY <2>6
<1>11. ASSUME NEW c \in Calls, SkipSymbol(c) PROVE CountIsBounded'
  <2>1. AfterSymbol(c, Advance(mem[c], NextSymbol(c))) /\ pc[c] = "symbol" /\ UNCHANGED todo
    BY <1>11 DEF SkipSymbol
  <2> QED
    BY <2>1, CountAdvance
<1>12. ASSUME NEW c \in Calls, FetchBars(c) PROVE CountIsBounded'
  <2>1. PICK F : mem' = [mem EXCEPT ![c].fetched = F]
    BY <1>12 DEF FetchBars
  <2>2. \A q \in Calls : /\ mem'[q].left = mem[q].left /\ mem'[q].symbols = mem[q].symbols
                         /\ mem'[q].count = mem[q].count
    BY <2>1
  <2>3. pc' = [pc EXCEPT ![c] = "existing"] /\ pc[c] = "symbol" /\ UNCHANGED todo
    BY <1>12 DEF FetchBars
  <2> QED
    BY <2>2, <2>3
<1>13. ASSUME NEW c \in Calls, CountBars(c) PROVE CountIsBounded'
  <2> DEFINE new == mem[c].fetched \ Stored(NextSymbol(c))
  <2>1. pc[c] = "existing" /\ UNCHANGED todo
    BY <1>13 DEF CountBars
  <2>2. CASE mem[c].fetched = {}
    <3>1. AfterSymbol(c, Advance(mem[c], NextSymbol(c)))
      BY <1>13, <2>2 DEF CountBars
    <3> QED
      BY <2>1, <3>1, CountAdvance
  <2>3. CASE mem[c].fetched # {}
    <3>1. /\ mem' = [mem EXCEPT ![c].fetched = new, ![c].count = Counted(mem[c], new)]
          /\ pc' = [pc EXCEPT ![c] = "upsert"]
      BY <1>13, <2>3 DEF CountBars
    <3>2. Counted(mem[c], new) <= (Cardinality(mem[c].symbols \ mem[c].left) + 1) * MaxDay
      BY <2>1, CountStays DEF StateInv
    <3> HIDE DEF new
    <3>3. \A q \in Calls : /\ mem'[q].left = mem[q].left /\ mem'[q].symbols = mem[q].symbols
                           /\ mem'[q].count = IF q = c THEN Counted(mem[c], new) ELSE mem[q].count
      BY <3>1
    <3>4. ASSUME NEW q \in Calls, Looping(q)'
          PROVE  (mem[q].count <= (Cardinality(mem[q].symbols \ mem[q].left)
                                     + (IF pc[q] = "upsert" THEN 1 ELSE 0)) * MaxDay)'
      <4>1. CASE q = c
        BY <4>1, <3>1, <3>2, <3>3
      <4>2. CASE q # c
        BY <4>2, <2>1, <3>1, <3>3, <3>4
      <4> QED
        BY <4>1, <4>2
    <3> QED
      BY <3>4
  <2> QED
    BY <2>2, <2>3
<1>14. ASSUME NEW c \in Calls, UpsertBars(c) PROVE CountIsBounded'
  <2>1. AfterSymbol(c, Advance(mem[c], NextSymbol(c))) /\ pc[c] = "upsert" /\ UNCHANGED todo
    BY <1>14 DEF UpsertBars
  <2> QED
    BY <2>1, CountAdvance
<1>15. ASSUME NEW c \in Calls, CommitBatch(c) PROVE CountIsBounded'
  <2>1. mem' = [mem EXCEPT ![c].filled = 0]
    BY <1>15 DEF CommitBatch
  <2>2. \A q \in Calls : /\ mem'[q].left = mem[q].left /\ mem'[q].symbols = mem[q].symbols
                         /\ mem'[q].count = mem[q].count
    BY <2>1
  <2>3. /\ pc' = [pc EXCEPT ![c] = IF mem[c].left = {} THEN "synced" ELSE "symbol"]
        /\ pc[c] = "commit" /\ UNCHANGED todo
    BY <1>15 DEF CommitBatch
  <2> QED
    BY <2>2, <2>3
<1>16. ASSUME NEW c \in Calls, FinishRun(c) PROVE CountIsBounded'
  BY <1>16 DEF FinishRun, AfterSymbol, Advance, BatchEnds
<1>17. ASSUME NEW c \in Calls, CloseRun(c) PROVE CountIsBounded'
  BY <1>17, ZenonT(60) DEF CloseRun, AfterSymbol, Advance, BatchEnds
<1>18. ASSUME NEW c \in Calls, Raise(c) PROVE CountIsBounded'
  BY <1>18 DEF Raise, AfterSymbol, Advance, BatchEnds
<1>19. ASSUME NEW p \in Processes, Crash(p) PROVE CountIsBounded'
  BY <1>19 DEF Crash, AfterSymbol, Advance, BatchEnds
<1>20. ASSUME NEW s \in Symbols, ListStock(s) PROVE CountIsBounded'
  BY <1>20 DEF ListStock, AfterSymbol, Advance, BatchEnds
<1>21. ASSUME NextDay PROVE CountIsBounded'
  BY <1>21 DEF NextDay, AfterSymbol, Advance, BatchEnds
<1>22. CASE UNCHANGED vars
  BY <1>22 DEF vars, AfterSymbol, Advance, BatchEnds
<1> QED
  BY <1>1, <1>2, <1>3, <1>4, <1>5, <1>6, <1>7, <1>8, <1>9, <1>10, <1>11,
     <1>12, <1>13, <1>14, <1>15, <1>16, <1>17, <1>18, <1>19, <1>20, <1>21,
     <1>22
     DEF Next, CallStep, Ended

\* Locks and runs belong together when each knows of the other.
LEMMA LocksAreRuns == StateInv => LockHasItsRun
<1> SUFFICES ASSUME StateInv, NEW p \in Processes, NEW j \in Jobs
             PROVE  {c \in Calls : Process(c) = p /\ pc[c] \in RunPcs /\ Job(c) = j}
                      = {lock[p][j]} \ {Nobody}
  BY DEF LockHasItsRun
<1>1. lock[p][j] \in Calls \cup {Nobody}
  BY DEF StateInv, TypeOK
<1> QED
  BY <1>1, CallsAssumption DEF StateInv, LockInv

\* The invariant holds initially.
LEMMA StateInit == Init => StateInv
<1> SUFFICES ASSUME Init PROVE StateInv
  OBVIOUS
<1>1. TypeOK
  <2>1. NoMem \in MemType
    BY SizesAssumption DEF NoMem, MemType
  <2>2. mem \in [Calls -> MemType]
    BY <2>1 DEF Init
  <2>3. audit \in [Calls -> [Jobs -> RowType]]
    BY DEF Init, RowType
  <2>4. todo \in [Calls -> Orders \cup {<<>>}]
    BY DEF Init
  <2>5. today \in Days
    BY SizesAssumption DEF Init, Days
  <2>6. open \in [Calls -> BOOLEAN]
    BY DEF Init
  <2>7. /\ pc \in [Calls -> {"idle"} \cup RunPcs \cup EndPcs]
        /\ pending \in [Calls -> SUBSET (Symbols \X Days)]
        /\ result \in [Calls -> {"none", "ok", "conflict", "error"}]
        /\ lock \in [Processes -> [Jobs -> Calls \cup {Nobody}]]
        /\ bars \in [Symbols -> [Days -> Calls \cup {Nobody}]]
    BY DEF Init
  <2>8. /\ args \in [Calls -> [process: Processes, jobs: Orders]]
        /\ jobs \in SUBSET Jobs /\ stocks \in SUBSET Symbols /\ listed \in SUBSET Symbols
    BY DEF Init
  <2> QED
    BY <2>2, <2>3, <2>4, <2>5, <2>6, <2>7, <2>8 DEF TypeOK, MemType, RowType
<1>2. JobIsAtHand
  <2>1. \A c \in Calls : todo[c] \in Orders
    BY DEF Init
  <2>2. <<>> \notin Orders
    BY DEF Orders
  <2> QED
    BY <2>1, <2>2 DEF Init, JobIsAtHand, BarPcs
<1>3. LoopIsInside
  BY DEF Init, LoopIsInside, NoMem
<1>4. CountIsBounded
  BY DEF Init, CountIsBounded, Looping, LoopPcs
<1>5. LockInv
  BY DEF Init, LockInv, RunPcs, TryPcs
<1> QED
  BY <1>1, <1>2, <1>3, <1>4, <1>5 DEF StateInv

\* The invariant is kept.
LEMMA StateInvariant == Spec => []StateInv
<1>1. StateInv /\ [Next]_vars => StateInv'
  BY TypeStep, JobStep, LoopStep, CountStep, LockStep DEF StateInv
<1> QED
  BY <1>1, StateInit, PTL DEF Spec

\* _Runner.run: every variable keeps its type, the counts and batches their
\* bounds, and no failure, collision or crash leaves a lock without its run or
\* lets two calls into one runner.
THEOREM LocksFollowRuns == Spec => []StateIsCoherent
<1>1. StateInv => StateIsCoherent
  BY LocksAreRuns DEF StateIsCoherent, StateInv
<1> QED
  BY <1>1, StateInvariant, PTL

----------------------------------------------------------------------------
\* A step of one call leaves the variables of every other call alone.
LEMMA Frame ==
  ASSUME StateInv, NEW c \in Calls, CallStep(c) \/ Raise(c), NEW q \in Calls, q # c
  PROVE  /\ mem'[q] = mem[q] /\ pc'[q] = pc[q] /\ pending'[q] = pending[q]
         /\ todo'[q] = todo[q] /\ audit'[q] = audit[q]
<1> USE DEF StateInv, TypeOK
<1>1. CASE Conflict(c) \/ EnterLock(c) \/ FindJob(c) \/ StartRun(c) \/ StartCollides(c)
  BY <1>1 DEF Conflict, EnterLock, FindJob, StartRun,
           StartCollides, AfterSymbol, Goto, tables, world
<1>2. CASE FetchMaster(c) \/ UpsertMaster(c) \/ CommitMaster(c) \/ ReadActive(c)
  BY <1>2 DEF FetchMaster, UpsertMaster, CommitMaster, ReadActive,
           AfterSymbol, Goto, tables, world
<1>3. CASE ReadLatest(c)
  BY <1>3 DEF ReadLatest, AfterSymbol, Goto, tables, world
<1>4. CASE SkipSymbol(c)
  BY <1>4 DEF SkipSymbol, AfterSymbol, Goto, tables, world
<1>5. CASE FetchBars(c)
  BY <1>5 DEF FetchBars, AfterSymbol, Goto, tables, world
<1>6. CASE CountBars(c)
  BY <1>6 DEF CountBars, AfterSymbol, Goto, tables, world
<1>7. CASE UpsertBars(c)
  BY <1>7 DEF UpsertBars, AfterSymbol, Goto, tables, world
<1>8. CASE CommitBatch(c) \/ FinishRun(c)
  BY <1>8 DEF CommitBatch, FinishRun, AfterSymbol, Goto, tables,
           world
<1>9. CASE CloseRun(c)
  BY <1>9 DEF CloseRun, AfterSymbol, Goto, tables, world
<1>10. CASE Raise(c)
  BY <1>10 DEF Raise, AfterSymbol, Goto, tables, world
<1> QED
  BY <1>1, <1>2, <1>3, <1>4, <1>5, <1>6, <1>7, <1>8, <1>9, <1>10 DEF CallStep

\* Only a commit touches the table of bars, and it only adds to it.
LEMMA BarsGrow ==
  ASSUME StateInv, [Next]_vars
  PROVE  /\ \A s \in Symbols : Stored(s) \subseteq Stored(s)'
         /\ bars' = bars \/ \E c \in Calls : CommitBatch(c)
<1>1. ASSUME NEW c \in Calls, CommitBatch(c) PROVE \A s \in Symbols : Stored(s) \subseteq Stored(s)'
  BY <1>1, CallsAssumption DEF CommitBatch, Stored, StateInv, TypeOK
<1>2. CASE bars' = bars
  BY <1>2 DEF Stored
<1>3. bars' = bars \/ \E c \in Calls : CommitBatch(c)
  BY DEF Next, CallStep, vars, Ended, Crash, ListStock, NextDay, Raise, Conflict, EnterLock, FindJob,
         StartRun, StartCollides, FetchMaster, UpsertMaster, CommitMaster, ReadActive, ReadLatest,
         SkipSymbol, FetchBars, CountBars, UpsertBars, FinishRun, CloseRun, tables
<1> QED
  BY <1>1, <1>2, <1>3

\* Time only passes.
LEMMA TimePasses ==
  ASSUME StateInv, [Next]_vars
  PROVE  /\ today' = today \/ NextDay
         /\ today <= today' /\ today \in Int /\ today' \in Int
<1>1. today' = today \/ NextDay
  BY DEF Next, CallStep, vars, Ended, Crash, ListStock, Raise, Conflict, EnterLock, FindJob,
         StartRun, StartCollides, FetchMaster, UpsertMaster, CommitMaster, ReadActive, ReadLatest,
         SkipSymbol, FetchBars, CountBars, UpsertBars, CommitBatch, FinishRun, CloseRun, world
<1> QED
  BY <1>1, SizesAssumption DEF NextDay, StateInv, TypeOK, Days

\* A commit stores exactly what the call has written.
LEMMA CommitStores ==
  ASSUME StateInv, NEW c \in Calls, CommitBatch(c), NEW s \in Symbols
  PROVE  Stored(s)' = Stored(s) \cup Written(c, s)
<1>1. \A d \in Days : bars'[s][d] = IF <<s, d>> \in pending[c] /\ bars[s][d] = Nobody THEN c ELSE bars[s][d]
  BY DEF CommitBatch
<1>2. \A d \in Days : bars'[s][d] # Nobody <=> (bars[s][d] # Nobody \/ <<s, d>> \in pending[c])
  BY <1>1, CallsAssumption
<1> QED
  BY <1>2 DEF Stored, Written

\* What a call owes depends on what it read about the symbols.
LEMMA OwedSame ==
  ASSUME NEW c, NEW s, mem'[c].latest = mem[c].latest, mem'[c].end = mem[c].end
  PROVE  Owed(c, s)' = Owed(c, s) /\ Start(c, s)' = Start(c, s)
  BY DEF Owed, daily_bars, Start

\* A call that does not move keeps what it has done, whatever the others store.
LEMMA WorkFrame ==
  ASSUME WorkIsDone, StateInv, [Next]_vars, NEW q \in Calls,
         mem'[q] = mem[q], pc'[q] = pc[q], pending'[q] = pending[q], todo'[q] = todo[q]
  PROVE  WorkOf(q)'
<1> SUFFICES ASSUME Looping(q)' PROVE WorkOf(q)'
  BY DEF WorkOf
<1>1. WorkOf(q) /\ Looping(q)
  BY DEF WorkIsDone, Looping, Job
<1>2. today <= today' /\ today \in Int /\ today' \in Int
  BY TimePasses
<1>3. \A s \in Symbols : Stored(s) \subseteq Stored(s)'
  BY BarsGrow
<1>4. mem[q] \in MemType
  BY MemTyped DEF StateInv
<1>5. mem[q].end \in Int /\ mem[q].symbols \subseteq Symbols
  BY <1>4, SizesAssumption DEF MemType
<1>6. \A s : Owed(q, s)' = Owed(q, s) /\ Written(q, s)' = Written(q, s)
  BY OwedSame DEF Written
<1>7. NextSymbol(q)' = NextSymbol(q)
  BY DEF NextSymbol
<1>8. pc[q] = "upsert" => NextSymbol(q) \in Symbols
  BY <1>4, LeastIn DEF NextSymbol, StateInv, LoopIsInside, MemType
<1>9. mem[q].end \in 1..today'
  BY <1>1, <1>2, <1>5 DEF WorkOf
<1>10. \A s \in mem[q].symbols : mem[q].latest[s] # 0 => mem[q].latest[s] \in Stored(s)'
  BY <1>1, <1>3, <1>5 DEF WorkOf
<1>11. \A s \in mem[q].symbols \ mem[q].left : Owed(q, s)' \subseteq Stored(s)' \cup Written(q, s)'
  BY <1>1, <1>3, <1>5, <1>6 DEF WorkOf
<1>13. ASSUME pc[q] = "upsert"
       PROVE  (Owed(q, NextSymbol(q)) \subseteq Stored(NextSymbol(q)) \cup mem[q].fetched)'
  <2>1. PICK s \in Symbols : s = NextSymbol(q)
    BY <1>8, <1>13
  <2>2. Owed(q, s) \subseteq Stored(s) \cup mem[q].fetched
    BY <1>1, <1>13, <2>1 DEF WorkOf
  <2>3. Owed(q, s)' \subseteq Stored(s)' \cup mem'[q].fetched
    BY <2>2, <1>3, <1>6
  <2> QED
    BY <2>1, <2>3, <1>7
<1>14. \A s \in Symbols, d \in Days : <<s, d>> \in pending[q] =>
         s \in mem[q].symbols \ mem[q].left /\ d \in Owed(q, s)'
  BY <1>1, <1>6 DEF WorkOf
<1> QED
  BY <1>1, <1>6, <1>7, <1>9, <1>10, <1>11, <1>13, <1>14 DEF WorkOf

\* The latest dates are read: nothing is behind the loop yet.
LEMMA WorkBegins ==
  ASSUME StateInv, WorkInv, NEW c \in Calls, ReadLatest(c)
  PROVE  WorkOf(c)'
<1> DEFINE f == [s \in Symbols |-> IF s \in mem[c].left /\ Stored(s) # {} THEN Last(Stored(s)) ELSE 0]
<1>1. mem \in [Calls -> MemType] /\ mem[c] \in MemType
  BY MemTyped DEF StateInv
<1>2. mem' = [mem EXCEPT ![c].latest = f, ![c].end = today]
  BY DEF ReadLatest
<1>3. \A s \in Symbols : f[s] # 0 => f[s] \in Stored(s)
  BY LastIn DEF Stored
<1> HIDE DEF f
<1>4. /\ mem'[c].latest = f /\ mem'[c].end = today
      /\ mem'[c].symbols = mem[c].symbols /\ mem'[c].left = mem[c].left
  BY <1>1, <1>2 DEF MemType
<1>5. mem[c].left = mem[c].symbols /\ mem[c].symbols \subseteq Symbols
  BY <1>1 DEF ReadLatest, StateInv, LoopIsInside, MemType
<1>6. pending'[c] = {} /\ pc'[c] \in {"synced", "symbol"}
  BY DEF ReadLatest, WorkInv, EndIsClean, LoopPcs, Goto, StateInv, TypeOK
<1>7. today' = today /\ today \in 1..today
  BY SizesAssumption DEF ReadLatest, world, StateInv, TypeOK, Days
<1>8. \A s : Stored(s)' = Stored(s)
  BY DEF ReadLatest, tables, Stored
<1> QED
  BY <1>3, <1>4, <1>5, <1>6, <1>7, <1>8 DEF WorkOf

\* The loop moves on from a symbol whose bars are all stored or written.
LEMMA WorkAdvances ==
  ASSUME StateInv, WorkInv, NEW c \in Calls, pc[c] \in {"symbol", "existing", "upsert"},
         AfterSymbol(c, Advance(mem[c], NextSymbol(c))),
         today' = today, bars' = bars, todo' = todo, pending[c] \subseteq pending'[c],
         \A s \in Symbols, d \in Days : <<s, d>> \in pending'[c] =>
           <<s, d>> \in pending[c] \/ (s = NextSymbol(c) /\ d \in Owed(c, s)),
         \A d \in Owed(c, NextSymbol(c)) :
           d \in Stored(NextSymbol(c)) \/ <<NextSymbol(c), d>> \in pending'[c]
  PROVE  WorkOf(c)'
<1>1. mem \in [Calls -> MemType] /\ mem[c] \in MemType
  BY MemTyped DEF StateInv
<1>2. /\ mem'[c].latest = mem[c].latest /\ mem'[c].end = mem[c].end
      /\ mem'[c].symbols = mem[c].symbols
      /\ mem'[c].left = mem[c].left \ {NextSymbol(c)}
  BY <1>1 DEF AfterSymbol, Advance, MemType
<1>3. NextSymbol(c) \in mem[c].left /\ mem[c].left \subseteq mem[c].symbols
  BY <1>1, LeastIn DEF NextSymbol, StateInv, LoopIsInside, MemType
<1>4. \A s : Owed(c, s)' = Owed(c, s) /\ Stored(s)' = Stored(s)
  BY <1>2, OwedSame DEF Stored
<1>5. WorkOf(c) /\ Looping(c)
  BY DEF WorkInv, WorkIsDone, Looping, LoopPcs
<1>6. pc'[c] \in {"commit", "symbol"}
  BY DEF AfterSymbol, Goto, StateInv, TypeOK
<1>7. \A s : Written(c, s) \subseteq Written(c, s)'
  BY DEF Written
<1>8. \A s \in mem'[c].symbols \ mem'[c].left : Owed(c, s)' \subseteq Stored(s)' \cup Written(c, s)'
  <2> SUFFICES ASSUME NEW s \in mem[c].symbols, s \notin mem[c].left \/ s = NextSymbol(c)
               PROVE  Owed(c, s) \subseteq Stored(s) \cup Written(c, s)'
    BY <1>2, <1>4
  <2>1. CASE s = NextSymbol(c)
    BY <2>1 DEF Written, Owed, daily_bars
  <2>2. CASE s \notin mem[c].left
    BY <2>2, <1>5, <1>7 DEF WorkOf
  <2> QED
    BY <2>1, <2>2
<1>9. \A s \in Symbols, d \in Days : <<s, d>> \in pending'[c] =>
        s \in mem'[c].symbols \ mem'[c].left /\ d \in Owed(c, s)'
  BY <1>2, <1>3, <1>4, <1>5 DEF WorkOf
<1> QED
  BY <1>2, <1>4, <1>5, <1>6, <1>8, <1>9 DEF WorkOf

\* A batch is committed: what was written is stored.
LEMMA WorkCommits ==
  ASSUME StateInv, WorkInv, NEW c \in Calls, CommitBatch(c)
  PROVE  WorkOf(c)'
<1>1. mem \in [Calls -> MemType] /\ mem[c] \in MemType
  BY MemTyped DEF StateInv
<1>2. /\ mem'[c].latest = mem[c].latest /\ mem'[c].end = mem[c].end
      /\ mem'[c].symbols = mem[c].symbols /\ mem'[c].left = mem[c].left
  BY <1>1 DEF CommitBatch, MemType
<1>3. \A s \in Symbols : Stored(s)' = Stored(s) \cup Written(c, s)
  BY CommitStores
<1>4. \A s : Owed(c, s)' = Owed(c, s)
  BY <1>2, OwedSame
<1>5. WorkOf(c) /\ Looping(c)
  BY DEF CommitBatch, WorkInv, WorkIsDone, Looping, LoopPcs
<1>6. pending'[c] = {} /\ pc'[c] \in {"synced", "symbol"} /\ today' = today
  BY DEF CommitBatch, Goto, StateInv, TypeOK, world
<1>7. mem[c].symbols \subseteq Symbols
  BY <1>1 DEF MemType
<1> QED
  BY <1>2, <1>3, <1>4, <1>5, <1>6, <1>7 DEF WorkOf

\* Every step keeps the work of every call.
LEMMA WorkStep == StateInv /\ WorkInv /\ [Next]_vars => WorkIsDone'
<1> SUFFICES ASSUME StateInv, WorkInv, [Next]_vars, NEW q \in Calls PROVE WorkOf(q)'
  BY DEF WorkIsDone
<1>1. ASSUME mem'[q] = mem[q], pc'[q] = pc[q], pending'[q] = pending[q], todo'[q] = todo[q]
      PROVE  WorkOf(q)'
  BY <1>1, WorkFrame DEF WorkInv
<1>2. ASSUME pc'[q] \in {"idle", "start", "insert", "sync", "master", "commit_master", "latest",
                        "done", "crashed"}
      PROVE  WorkOf(q)'
  BY <1>2 DEF WorkOf, Looping, LoopPcs
<1>3. ASSUME NEW c \in Calls, CallStep(c) \/ Raise(c), q # c PROVE WorkOf(q)'
  BY <1>1, <1>3, Frame
<1>4. ASSUME Conflict(q) \/ EnterLock(q) \/ FindJob(q) \/ StartRun(q) \/ StartCollides(q) \/ FetchMaster(q)
             \/ UpsertMaster(q) \/ ReadActive(q) \/ CloseRun(q) \/ Raise(q)
      PROVE  WorkOf(q)'
  <2>1. pc'[q] \in {"idle", "start", "insert", "sync", "master", "commit_master", "latest",
                   "done", "crashed"}
    BY <1>4 DEF Conflict, EnterLock, FindJob, StartRun, StartCollides, FetchMaster, UpsertMaster,
                ReadActive, CloseRun, Raise, Goto, StateInv, TypeOK
  <2> QED
    BY <2>1, <1>2
<1>5. ASSUME CommitMaster(q) PROVE WorkOf(q)'
  <2>1. pc'[q] = "synced" /\ Job(q)' = StockMaster
    BY <1>5 DEF CommitMaster, Goto, StateInv, TypeOK, JobIsAtHand, Job
  <2> QED
    BY <2>1 DEF WorkOf, Looping, LoopPcs, StockMaster, DailyBars
<1>6. ASSUME ReadLatest(q) PROVE WorkOf(q)'
  BY <1>6, WorkBegins
<1>7. ASSUME SkipSymbol(q) PROVE WorkOf(q)'
  <2>1. mem[q] \in MemType /\ NextSymbol(q) \in Symbols
    BY <1>7, MemTyped, LeastIn DEF SkipSymbol, NextSymbol, StateInv, LoopIsInside, MemType
  <2>2. mem[q].latest[NextSymbol(q)] \in Int /\ mem[q].end \in Int
    BY <2>1, SizesAssumption DEF MemType
  <2>3. Start(q, NextSymbol(q)) \in Int
    BY <2>2, SizesAssumption DEF Start
  <2>4. Owed(q, NextSymbol(q)) = {}
    BY <1>7, <2>2, <2>3, SizesAssumption DEF SkipSymbol, UpToDate, Owed, daily_bars, Days
  <2> QED
    BY <1>7, <2>4, WorkAdvances DEF SkipSymbol, tables, world
<1>8. ASSUME FetchBars(q) PROVE WorkOf(q)'
  <2>1. mem \in [Calls -> MemType] /\ mem[q] \in MemType
    BY MemTyped DEF StateInv
  <2>2. mem' = [mem EXCEPT ![q].fetched = Owed(q, NextSymbol(q))]
    BY <1>8 DEF FetchBars, Owed
  <2>3. /\ mem'[q].latest = mem[q].latest /\ mem'[q].end = mem[q].end
        /\ mem'[q].symbols = mem[q].symbols /\ mem'[q].left = mem[q].left
        /\ mem'[q].fetched = Owed(q, NextSymbol(q))
    BY <2>1, <2>2 DEF MemType
  <2>4. /\ pc[q] = "symbol" /\ pc'[q] = "existing" /\ pending'[q] = pending[q]
        /\ today' = today /\ \A s : Stored(s)' = Stored(s)
    BY <1>8 DEF FetchBars, Goto, StateInv, TypeOK, tables, world, Stored
  <2>5. WorkOf(q) /\ Looping(q)
    BY <2>4 DEF WorkInv, WorkIsDone, Looping, LoopPcs
  <2>6. NextSymbol(q)' = NextSymbol(q) /\ \A s : Owed(q, s)' = Owed(q, s) /\ Written(q, s)' = Written(q, s)
    BY <2>3, <2>4, OwedSame DEF NextSymbol, Written
  <2> QED
    BY <2>3, <2>4, <2>5, <2>6 DEF WorkOf
<1>9. ASSUME CountBars(q) PROVE WorkOf(q)'
  <2> DEFINE s0 == NextSymbol(q)
  <2>1. mem \in [Calls -> MemType] /\ mem[q] \in MemType
    BY MemTyped DEF StateInv
  <2>2. /\ pc[q] = "existing" /\ pending'[q] = pending[q] /\ todo' = todo
        /\ today' = today /\ bars' = bars
    BY <1>9 DEF CountBars, tables, world
  <2>3. WorkOf(q) /\ Looping(q) /\ mem[q].fetched = Owed(q, s0)
    BY <2>2 DEF WorkInv, WorkIsDone, WorkOf, Looping, LoopPcs
  <2>4. CASE mem[q].fetched = {}
    <3>1. AfterSymbol(q, Advance(mem[q], NextSymbol(q)))
      BY <1>9, <2>4 DEF CountBars
    <3> QED
      BY <3>1, <2>2, <2>3, <2>4, WorkAdvances
  <2>5. CASE mem[q].fetched # {}
    <3> DEFINE new == mem[q].fetched \ Stored(s0)
    <3> DEFINE k == Counted(mem[q], new)
    <3>1. /\ mem' = [mem EXCEPT ![q].fetched = new, ![q].count = k]
          /\ pc' = [pc EXCEPT ![q] = "upsert"]
      BY <1>9, <2>5 DEF CountBars, Goto
    <3>2. new \subseteq Owed(q, s0) /\ Owed(q, s0) \subseteq Stored(s0) \cup new
      BY <2>3
    <3> HIDE DEF new, k
    <3>3. /\ mem'[q].latest = mem[q].latest /\ mem'[q].end = mem[q].end
          /\ mem'[q].symbols = mem[q].symbols /\ mem'[q].left = mem[q].left
          /\ mem'[q].fetched = new
      BY <2>1, <3>1 DEF MemType
    <3>4. /\ NextSymbol(q)' = NextSymbol(q)
          /\ \A s : Owed(q, s)' = Owed(q, s) /\ Written(q, s)' = Written(q, s) /\ Stored(s)' = Stored(s)
      BY <3>3, <2>2, OwedSame DEF NextSymbol, Written, Stored
    <3>5. pc'[q] = "upsert"
      BY <3>1 DEF StateInv, TypeOK
    <3> QED
      BY <2>2, <2>3, <3>2, <3>3, <3>4, <3>5 DEF WorkOf
  <2> QED
    BY <2>4, <2>5
<1>10. ASSUME UpsertBars(q) PROVE WorkOf(q)'
  <2>1. /\ pc[q] = "upsert" /\ AfterSymbol(q, Advance(mem[q], NextSymbol(q)))
        /\ today' = today /\ bars' = bars /\ todo' = todo
    BY <1>10 DEF UpsertBars, tables, world
  <2>2. pending'[q] = pending[q] \cup ({NextSymbol(q)} \X mem[q].fetched)
    BY <1>10 DEF UpsertBars, StateInv, TypeOK
  <2>3. /\ mem[q].fetched \subseteq Owed(q, NextSymbol(q))
        /\ Owed(q, NextSymbol(q)) \subseteq Stored(NextSymbol(q)) \cup mem[q].fetched
    BY <2>1 DEF WorkInv, WorkIsDone, WorkOf, Looping, LoopPcs
  <2>4. \A s \in Symbols, d \in Days : <<s, d>> \in pending'[q] =>
          <<s, d>> \in pending[q] \/ (s = NextSymbol(q) /\ d \in Owed(q, s))
    BY <2>2, <2>3
  <2>5. \A d \in Owed(q, NextSymbol(q)) :
          d \in Stored(NextSymbol(q)) \/ <<NextSymbol(q), d>> \in pending'[q]
    BY <2>2, <2>3
  <2> QED
    BY <2>1, <2>2, <2>4, <2>5, WorkAdvances
<1>11. ASSUME CommitBatch(q) PROVE WorkOf(q)'
  BY <1>11, WorkCommits
<1>12. ASSUME FinishRun(q) PROVE WorkOf(q)'
  <2>1. /\ mem' = mem /\ pc[q] = "synced" /\ pc'[q] = "closing" /\ pending' = pending
        /\ todo' = todo /\ today' = today /\ bars' = bars
    BY <1>12 DEF FinishRun, Goto, StateInv, TypeOK, tables, world
  <2>2. WorkOf(q) /\ (Looping(q)' => Looping(q))
    BY <2>1 DEF WorkInv, WorkIsDone, Looping, LoopPcs, Job
  <2>3. \A s : Owed(q, s)' = Owed(q, s) /\ Written(q, s)' = Written(q, s) /\ Stored(s)' = Stored(s)
    BY <2>1, OwedSame DEF Written, Stored
  <2> QED
    BY <2>1, <2>2, <2>3 DEF WorkOf
<1>13. ASSUME NEW p \in Processes, Crash(p) PROVE WorkOf(q)'
  <2>1. CASE pc'[q] = "crashed"
    BY <2>1, <1>2
  <2>2. CASE pc'[q] # "crashed"
    <3>1. mem'[q] = mem[q] /\ pc'[q] = pc[q] /\ pending'[q] = pending[q] /\ todo'[q] = todo[q]
      BY <1>13, <2>2 DEF Crash
    <3> QED
      BY <3>1, <1>1
  <2> QED
    BY <2>1, <2>2
<1>14. ASSUME NEW s \in Symbols, ListStock(s) PROVE WorkOf(q)'
  BY <1>14, <1>1 DEF ListStock
<1>15. ASSUME NextDay PROVE WorkOf(q)'
  BY <1>15, <1>1 DEF NextDay
<1>16. ASSUME UNCHANGED vars PROVE WorkOf(q)'
  BY <1>16, <1>1 DEF vars
<1> QED
  BY <1>3, <1>4, <1>5, <1>6, <1>7, <1>8, <1>9, <1>10, <1>11, <1>12, <1>13, <1>14, <1>15, <1>16
     DEF Next, CallStep, Ended

\* Nothing stays written outside the loop; a success is the end of the call.
LEMMA EndStep == StateInv /\ WorkInv /\ [Next]_vars => EndIsClean'
<1> SUFFICES ASSUME StateInv, WorkInv, [Next]_vars PROVE EndIsClean'
  OBVIOUS
<1> USE DEF StateInv, WorkInv, TypeOK, EndIsClean, LoopPcs, RunPcs, TryPcs, Goto, tables, world
<1>1. ASSUME NEW c \in Calls, Conflict(c) PROVE EndIsClean'
  BY <1>1 DEF Conflict, AfterSymbol
<1>2. ASSUME NEW c \in Calls, EnterLock(c) PROVE EndIsClean'
  BY <1>2 DEF EnterLock, AfterSymbol
<1>3. ASSUME NEW c \in Calls, FindJob(c) PROVE EndIsClean'
  BY <1>3 DEF FindJob, AfterSymbol
<1>4. ASSUME NEW c \in Calls, StartRun(c) PROVE EndIsClean'
  BY <1>4 DEF StartRun, AfterSymbol
<1>5. ASSUME NEW c \in Calls, StartCollides(c) PROVE EndIsClean'
  BY <1>5 DEF StartCollides, AfterSymbol
<1>6. ASSUME NEW c \in Calls, FetchMaster(c) PROVE EndIsClean'
  BY <1>6 DEF FetchMaster, AfterSymbol
<1>7. ASSUME NEW c \in Calls, UpsertMaster(c) PROVE EndIsClean'
  BY <1>7 DEF UpsertMaster, AfterSymbol
<1>8. ASSUME NEW c \in Calls, CommitMaster(c) PROVE EndIsClean'
  BY <1>8 DEF CommitMaster, AfterSymbol
<1>9. ASSUME NEW c \in Calls, ReadActive(c) PROVE EndIsClean'
  BY <1>9 DEF ReadActive, AfterSymbol
<1>10. ASSUME NEW c \in Calls, ReadLatest(c) PROVE EndIsClean'
  BY <1>10 DEF ReadLatest, AfterSymbol
<1>11. ASSUME NEW c \in Calls, SkipSymbol(c) PROVE EndIsClean'
  BY <1>11 DEF SkipSymbol, AfterSymbol
<1>12. ASSUME NEW c \in Calls, FetchBars(c) PROVE EndIsClean'
  BY <1>12 DEF FetchBars, AfterSymbol
<1>13. ASSUME NEW c \in Calls, CountBars(c) PROVE EndIsClean'
  <2>1. PICK to \in {"commit", "symbol", "upsert"} : pc' = [pc EXCEPT ![c] = to]
    BY <1>13 DEF CountBars, AfterSymbol
  <2>2. UNCHANGED <<pending, audit>> /\ pc[c] = "existing"
    BY <1>13 DEF CountBars
  <2> QED
    BY <2>1, <2>2
<1>14. ASSUME NEW c \in Calls, UpsertBars(c) PROVE EndIsClean'
  BY <1>14 DEF UpsertBars, AfterSymbol
<1>15. ASSUME NEW c \in Calls, CommitBatch(c) PROVE EndIsClean'
  BY <1>15 DEF CommitBatch, AfterSymbol
<1>16. ASSUME NEW c \in Calls, FinishRun(c) PROVE EndIsClean'
  BY <1>16 DEF FinishRun, AfterSymbol
<1>17. ASSUME NEW c \in Calls, CloseRun(c) PROVE EndIsClean'
  <2>1. Job(c) = DailyBars => Tail(todo[c]) = <<>>
    BY <1>17, OrdersTail DEF CloseRun
  <2>2. CASE Job(c) = DailyBars
    BY <1>17, <2>1, <2>2 DEF CloseRun
  <2>3. CASE Job(c) # DailyBars
    <3>1. Job(c) \in Jobs /\ audit'[c][DailyBars] = audit[c][DailyBars]
      <4>1. Job(c) \in Jobs
        BY <1>17, JobTyped DEF CloseRun
      <4>2. DailyBars \in Jobs
        BY DEF Jobs
      <4> QED
        BY <1>17, <4>1, <4>2, <2>3 DEF CloseRun
    <3>2. audit[c][DailyBars].status # "succeeded"
      BY <1>17 DEF CloseRun
    <3>3. PICK to \in {"done", "idle"} : pc' = [pc EXCEPT ![c] = to]
      BY <1>17 DEF CloseRun
    <3>4. pending' = pending /\ pc[c] = "closing" /\ \A q \in Calls \ {c} : audit'[q] = audit[q]
      BY <1>17 DEF CloseRun
    <3> QED
      BY <3>1, <3>2, <3>3, <3>4
  <2> QED
    BY <2>2, <2>3
<1>18. ASSUME NEW c \in Calls, Raise(c) PROVE EndIsClean'
  BY <1>18 DEF Raise, AfterSymbol
<1>19. ASSUME NEW p \in Processes, Crash(p) PROVE EndIsClean'
  BY <1>19 DEF Crash, AfterSymbol
<1>20. ASSUME NEW s \in Symbols, ListStock(s) PROVE EndIsClean'
  BY <1>20 DEF ListStock, AfterSymbol
<1>21. ASSUME NextDay PROVE EndIsClean'
  BY <1>21 DEF NextDay, AfterSymbol
<1>22. CASE UNCHANGED vars
  BY <1>22 DEF vars, AfterSymbol
<1> QED
  BY <1>1, <1>2, <1>3, <1>4, <1>5, <1>6, <1>7, <1>8, <1>9, <1>10, <1>11,
     <1>12, <1>13, <1>14, <1>15, <1>16, <1>17, <1>18, <1>19, <1>20, <1>21,
     <1>22
     DEF Next, CallStep, Ended

\* What a recorded success claims stays true, and a new one is true.
LEMMA SuccessStep == StateInv /\ WorkInv /\ [Next]_vars => SuccessIsComplete'
<1> SUFFICES ASSUME StateInv, WorkInv, [Next]_vars, NEW q \in Calls,
                    audit'[q][DailyBars].status = "succeeded"
             PROVE  (\A s \in mem[q].symbols : Owed(q, s) \subseteq Stored(s))'
  BY DEF SuccessIsComplete, Owed
<1>1. \A s \in Symbols : Stored(s) \subseteq Stored(s)'
  BY BarsGrow
<1>2. mem[q] \in MemType
  BY MemTyped DEF StateInv
<1>3. mem[q].symbols \subseteq Symbols
  BY <1>2 DEF MemType
<1>4. ASSUME mem'[q] = mem[q], \A s \in mem[q].symbols : Owed(q, s) \subseteq Stored(s)
      PROVE  (\A s \in mem[q].symbols : Owed(q, s) \subseteq Stored(s))'
  <2>1. \A s : Owed(q, s)' = Owed(q, s)
    BY <1>4, OwedSame
  <2> QED
    BY <1>1, <1>3, <1>4, <2>1
<1>5. ASSUME audit'[q] = audit[q], mem'[q] = mem[q]
      PROVE  (\A s \in mem[q].symbols : Owed(q, s) \subseteq Stored(s))'
  BY <1>4, <1>5 DEF WorkInv, SuccessIsComplete, Owed
<1>6. ASSUME NEW c \in Calls, CallStep(c) \/ Raise(c), q # c
      PROVE  (\A s \in mem[q].symbols : Owed(q, s) \subseteq Stored(s))'
  BY <1>5, <1>6, Frame
<1>7. ASSUME CallStep(q) \/ Raise(q), ~CloseRun(q) PROVE FALSE
  <2>1. audit[q][DailyBars].status # "succeeded"
    <3>1. pc[q] # "done"
      BY <1>7 DEF CallStep, Raise, Conflict, EnterLock, FindJob, StartRun, StartCollides, FetchMaster,
              UpsertMaster, CommitMaster, ReadActive, ReadLatest, SkipSymbol, FetchBars, CountBars,
              UpsertBars, CommitBatch, FinishRun, TryPcs
    <3> QED
      BY <3>1 DEF WorkInv, EndIsClean
  <2>2. \/ audit' = audit
        \/ audit' = [audit EXCEPT ![q][Job(q)].status = "running"]
        \/ audit' = [audit EXCEPT ![q][Job(q)].status = "failed"]
    BY <1>7 DEF CallStep, Raise, Conflict, EnterLock, FindJob, StartRun, StartCollides, FetchMaster,
              UpsertMaster, CommitMaster, ReadActive, ReadLatest, SkipSymbol, FetchBars, CountBars,
              UpsertBars, CommitBatch, FinishRun, tables
  <2> QED
    BY <2>1, <2>2 DEF StateInv, TypeOK, Jobs
<1>8. ASSUME CloseRun(q) PROVE (\A s \in mem[q].symbols : Owed(q, s) \subseteq Stored(s))'
  <2>1. pc[q] = "closing" /\ audit[q][DailyBars].status # "succeeded"
    BY <1>8 DEF CloseRun, WorkInv, EndIsClean
  <2>2. Job(q) = DailyBars
    BY <1>8, <2>1 DEF CloseRun, StateInv, TypeOK, Jobs
  <2>3. Tail(todo[q]) = <<>>
    BY <2>1, <2>2, OrdersTail DEF StateInv
  <2>4. mem' = mem
    BY <1>8, <2>3 DEF CloseRun
  <2>5. WorkOf(q) /\ Looping(q) /\ mem[q].left = {} /\ pending[q] = {}
    BY <2>1, <2>2 DEF WorkInv, WorkIsDone, EndIsClean, Looping, LoopPcs, StateInv, LoopIsInside
  <2>6. \A s \in mem[q].symbols : Owed(q, s) \subseteq Stored(s)
    BY <2>5 DEF WorkOf, Written
  <2> QED
    BY <1>4, <2>4, <2>6
<1>9. ASSUME NEW p \in Processes, Crash(p) PROVE (\A s \in mem[q].symbols : Owed(q, s) \subseteq Stored(s))'
  BY <1>5, <1>9 DEF Crash, tables
<1>10. ASSUME NEW x \in Symbols, ListStock(x) PROVE (\A s \in mem[q].symbols : Owed(q, s) \subseteq Stored(s))'
  BY <1>5, <1>10 DEF ListStock, tables
<1>11. ASSUME NextDay PROVE (\A s \in mem[q].symbols : Owed(q, s) \subseteq Stored(s))'
  BY <1>5, <1>11 DEF NextDay, tables
<1>12. ASSUME UNCHANGED vars PROVE (\A s \in mem[q].symbols : Owed(q, s) \subseteq Stored(s))'
  BY <1>5, <1>12 DEF vars
<1> QED
  BY <1>6, <1>7, <1>8, <1>9, <1>10, <1>11, <1>12 DEF Next, Ended

\* What the calls have done and owe, in every reachable state.
LEMMA WorkInvariant == Spec => []WorkInv
<1>1. Init => WorkInv
  <2> SUFFICES ASSUME Init PROVE WorkInv
    OBVIOUS
  <2>1. WorkIsDone
    BY DEF Init, WorkIsDone, WorkOf, Looping, LoopPcs
  <2>2. EndIsClean /\ SuccessIsComplete
    BY DEF Init, EndIsClean, SuccessIsComplete, Jobs, DailyBars
  <2> QED
    BY <2>1, <2>2 DEF WorkInv
<1>2. StateInv /\ WorkInv /\ [Next]_vars => WorkInv'
  BY WorkStep, EndStep, SuccessStep DEF WorkInv
<1> QED
  BY <1>1, <1>2, StateInvariant, PTL DEF Spec

----------------------------------------------------------------------------
\* The stored days S of the trading days A have no hole, and none in the window
\* that ends now.
Unbroken(A, S, now) ==
  /\ \A d \in A, e \in S, f \in S : e < d /\ d < f => d \in S
  /\ \A d \in A, e \in S : d < e /\ now - Window <= d => d \in S

\* The stretch of days joins S: it starts right after a stored day, or it is a
\* window that S reaches.
Joins(A, S, from, to, now) ==
  /\ A \subseteq Int /\ S \subseteq Int
  /\ from \in Int /\ to \in Int /\ now \in Int
  /\ to <= now /\ now <= to + Window + 1
  /\ \/ from - 1 \in S
     \/ from = to - Window /\ \A d \in A, e \in S : e < d /\ d < from => d \in S

Stretch(A, from, to) == {d \in A : from <= d /\ d <= to}

\* A stretch that joins a history without holes leaves it without holes.
LEMMA Attach ==
  ASSUME NEW A, NEW S, NEW from, NEW to, NEW now, Joins(A, S, from, to, now), Unbroken(A, S, now)
  PROVE  Unbroken(A, S \cup Stretch(A, from, to), now)
<1> DEFINE O == Stretch(A, from, to)
<1> USE DEF Joins, Unbroken, Stretch
<1> USE SizesAssumption
<1>1. ASSUME NEW d \in A, NEW e \in S \cup O, NEW f \in S \cup O, e < d, d < f
      PROVE  d \in S \cup O
  <2>1. CASE from <= d /\ d <= to
    BY <2>1
  <2>2. CASE d < from
    <3>1. e \in S
      BY <1>1, <2>2
    <3>2. CASE from - 1 \in S
      BY <1>1, <2>2, <3>1, <3>2
    <3>3. CASE from = to - Window /\ \A x \in A, y \in S : y < x /\ x < from => x \in S
      BY <1>1, <2>2, <3>1, <3>3
    <3> QED
      BY <3>2, <3>3
  <2>3. CASE d > to
    <3>1. f \in S
      BY <1>1, <2>3
    <3>2. CASE now - Window <= d
      BY <1>1, <3>1, <3>2
    <3>3. CASE d < now - Window
      BY <2>3, <3>3
    <3> QED
      BY <3>2, <3>3
  <2> QED
    BY <2>1, <2>2, <2>3
<1>2. ASSUME NEW d \in A, NEW e \in S \cup O, d < e, now - Window <= d
      PROVE  d \in S \cup O
  <2>1. CASE e \in S
    BY <1>2, <2>1
  <2>2. CASE e \in O /\ from <= d
    BY <1>2, <2>2
  <2>3. CASE e \in O /\ d < from
    <3>1. CASE from - 1 \in S
      BY <1>2, <2>3, <3>1
    <3>2. CASE from = to - Window
      BY <1>2, <2>3, <3>2
    <3> QED
      BY <3>1, <3>2
  <2> QED
    BY <2>1, <2>2, <2>3
<1> QED
  BY <1>1, <1>2 DEF Unbroken

\* The days on which a symbol has a bar.
Trading(s) == {d \in Days : <<s, d>> \notin Suspended}

\* The first two parts of the invariant, symbol by symbol.
LEMMA GapParts ==
  NoGap /\ WindowIsFilled <=> \A s \in Symbols : Unbroken(Trading(s), Stored(s), today)
<1>1. \A s \in Symbols : Stored(s) \subseteq Days
  BY DEF Stored
<1> QED
  BY <1>1 DEF NoGap, WindowIsFilled, Trading, Unbroken

\* A call in its loop keeps what it read when it entered it.
LEMMA LoopData ==
  ASSUME StateInv, [Next]_vars, NEW q \in Calls, Looping(q)'
  PROVE  \/ ReadLatest(q)
         \/ /\ Looping(q)
            /\ mem'[q].latest = mem[q].latest /\ mem'[q].end = mem[q].end
            /\ mem'[q].symbols = mem[q].symbols
<1>1. mem \in [Calls -> MemType] /\ mem[q] \in MemType
  BY MemTyped DEF StateInv
<1>2. pc \in [Calls -> {"idle"} \cup RunPcs \cup EndPcs]
  BY DEF StateInv, TypeOK
<1>3. ASSUME mem'[q] = mem[q], pc'[q] = pc[q], todo'[q] = todo[q] PROVE Looping(q)
  BY <1>3 DEF Looping, Job
<1>4. ASSUME NEW c \in Calls, CallStep(c) \/ Raise(c), c # q PROVE Looping(q) /\ mem'[q] = mem[q]
  BY <1>3, <1>4, Frame
<1>5. ASSUME Conflict(q) \/ EnterLock(q) \/ FindJob(q) \/ StartRun(q) \/ StartCollides(q) \/ FetchMaster(q)
             \/ UpsertMaster(q) \/ ReadActive(q) \/ CloseRun(q) \/ Raise(q)
      PROVE  FALSE
  <2>1. pc'[q] \in {"idle", "start", "insert", "sync", "master", "commit_master", "latest", "done"}
    BY <1>2, <1>5 DEF Conflict, EnterLock, FindJob, StartRun, StartCollides, FetchMaster, UpsertMaster,
                ReadActive, CloseRun, Raise, Goto
  <2> QED
    BY <2>1 DEF Looping, LoopPcs
<1>6. ASSUME CommitMaster(q) PROVE FALSE
  <2>1. pc'[q] = "synced" /\ Job(q)' = StockMaster
    BY <1>2, <1>6 DEF CommitMaster, Goto, StateInv, JobIsAtHand, Job
  <2> QED
    BY <2>1 DEF Looping, LoopPcs, StockMaster, DailyBars
<1>7. ASSUME SkipSymbol(q) \/ CountBars(q) \/ UpsertBars(q) \/ FetchBars(q) \/ CommitBatch(q)
      PROVE  /\ Looping(q)
             /\ mem'[q].latest = mem[q].latest /\ mem'[q].end = mem[q].end
             /\ mem'[q].symbols = mem[q].symbols
  <2>1. Looping(q)
    BY <1>7 DEF SkipSymbol, CountBars, UpsertBars, FetchBars, CommitBatch, Looping, LoopPcs
  <2>2. CASE AfterSymbol(q, Advance(mem[q], NextSymbol(q)))
    BY <1>1, <2>1, <2>2 DEF AfterSymbol, Advance, MemType
  <2>5. CASE CountBars(q) /\ mem[q].fetched # {}
    <3> DEFINE n == mem[q].fetched \ Stored(NextSymbol(q))
    <3> DEFINE k == Counted(mem[q], n)
    <3>1. mem' = [mem EXCEPT ![q].fetched = n, ![q].count = k]
      BY <2>5 DEF CountBars
    <3> HIDE DEF n, k
    <3> QED
      BY <1>1, <2>1, <3>1 DEF MemType
  <2>3. CASE FetchBars(q)
    BY <1>1, <2>1, <2>3 DEF FetchBars, MemType
  <2>4. CASE CommitBatch(q)
    BY <1>1, <2>1, <2>4 DEF CommitBatch, MemType
  <2> QED
    BY <1>7, <2>2, <2>3, <2>4, <2>5 DEF SkipSymbol, CountBars, UpsertBars
<1>8. ASSUME FinishRun(q) PROVE Looping(q) /\ mem'[q] = mem[q]
  BY <1>2, <1>8 DEF FinishRun, Looping, LoopPcs, Job, Goto
<1>9. ASSUME NEW p \in Processes, Crash(p) PROVE Looping(q) /\ mem'[q] = mem[q]
  <2>1. pc'[q] # "crashed"
    BY DEF Looping, LoopPcs
  <2>2. mem'[q] = mem[q] /\ pc'[q] = pc[q] /\ todo'[q] = todo[q]
    BY <1>9, <2>1 DEF Crash
  <2> QED
    BY <2>2, <1>3
<1>10. ASSUME (\E s \in Symbols : ListStock(s)) \/ NextDay \/ UNCHANGED vars
       PROVE  Looping(q) /\ mem'[q] = mem[q]
  BY <1>3, <1>10 DEF ListStock, NextDay, vars
<1> QED
  BY <1>4, <1>5, <1>6, <1>7, <1>8, <1>9, <1>10 DEF Next, CallStep, Ended

\* A step that stores nothing opens no hole.
LEMMA GapFrame ==
  ASSUME StateInv, GapInv, [Next]_vars, bars' = bars
  PROVE  GapInv'
<1>1. \A s : Stored(s)' = Stored(s)
  BY DEF Stored
<1>2. NoGap'
  BY <1>1 DEF GapInv, NoGap
<1>3. WindowIsFilled'
  <2>1. today <= today' /\ today \in Int /\ today' \in Int
    BY TimePasses
  <2>2. \A d \in Int : today' - Window <= d => today - Window <= d
    <3>1. \A m, n, w, d \in Int : n <= m /\ m - w <= d => n - w <= d
      OBVIOUS
    <3>2. Window \in Int
      BY SizesAssumption
    <3> QED
      BY <2>1, <3>1, <3>2
  <2>3. Days \subseteq Int
    BY DEF Days
  <2> QED
    BY <1>1, <2>2, <2>3 DEF GapInv, WindowIsFilled
<1>4. ASSUME NEW q \in Calls, Looping(q)',
             NEW s \in mem'[q].symbols, NEW d \in Days, NEW e \in Days,
             mem'[q].latest[s] = 0, e \in Stored(s), e < d, d < mem'[q].end - Window,
             <<s, d>> \notin Suspended
      PROVE  d \in Stored(s)
  <2>1. CASE ReadLatest(q)
    <3> DEFINE g == [x \in Symbols |-> IF x \in mem[q].left /\ Stored(x) # {} THEN Last(Stored(x)) ELSE 0]
    <3>1. mem \in [Calls -> MemType] /\ mem[q] \in MemType
      BY MemTyped DEF StateInv
    <3>2. mem' = [mem EXCEPT ![q].latest = g, ![q].end = today]
      BY <2>1 DEF ReadLatest
    <3>3. \A x \in Symbols : x \in mem[q].left /\ Stored(x) # {} => g[x] \in Days
      BY LastIn DEF Stored
    <3> HIDE DEF g
    <3>4. mem'[q].latest = g /\ mem'[q].symbols = mem[q].symbols
      BY <3>1, <3>2 DEF MemType
    <3>5. s \in Symbols /\ s \in mem[q].left
      BY <2>1, <3>1, <3>4, <1>4 DEF ReadLatest, StateInv, LoopIsInside, MemType
    <3> QED
      BY <3>3, <3>4, <3>5, <1>4, SizesAssumption DEF Days
  <2>2. CASE ~ReadLatest(q)
    BY <2>2, <1>4, LoopData DEF GapInv, NewIsAttached
  <2> QED
    BY <2>1, <2>2
<1>5. NewIsAttached'
  BY <1>1, <1>4 DEF NewIsAttached
<1> QED
  BY <1>2, <1>3, <1>5 DEF GapInv

\* What a commit stores of a symbol continues its history without a hole.
LEMMA GapCommit ==
  ASSUME StateInv, WorkInv, GapInv, CallsAreBrief, NEW c \in Calls, CommitBatch(c), NEW s \in Symbols,
         Written(c, s) # {}
  PROVE  /\ Stored(s)' = Stored(s) \cup Stretch(Trading(s), Start(c, s), mem[c].end)
         /\ Joins(Trading(s), Stored(s), Start(c, s), mem[c].end, today)
<1>0. Trading(s) \subseteq Int /\ Stored(s) \subseteq Int
  BY DEF Stored, Trading, Days
<1>1. mem[c] \in MemType
  BY MemTyped DEF StateInv
<1>2. WorkOf(c) /\ Looping(c) /\ pc[c] = "commit"
  BY DEF CommitBatch, WorkInv, WorkIsDone, Looping, LoopPcs
<1>3. PICK d \in Days : <<s, d>> \in pending[c]
  BY DEF Written
<1>4. s \in mem[c].symbols \ mem[c].left
  BY <1>2, <1>3 DEF WorkOf
<1>5. Written(c, s) \subseteq Owed(c, s) /\ Owed(c, s) \subseteq Stored(s) \cup Written(c, s)
  BY <1>2, <1>4 DEF WorkOf, Written
<1>6. Stored(s)' = Stored(s) \cup Owed(c, s)
  BY <1>5, CommitStores
<1>7. Owed(c, s) = Stretch(Trading(s), Start(c, s), mem[c].end)
  BY DEF Owed, daily_bars, Trading, Stretch
<1>8. mem[c].latest[s] \in 0..MaxDay /\ mem[c].end \in Int /\ today \in Int
  BY <1>1, SizesAssumption DEF MemType, StateInv, TypeOK, Days
<1>9. Start(c, s) \in Int
  BY <1>8, SizesAssumption DEF Start
<1>10. mem[c].end <= today /\ today <= mem[c].end + Window + 1
  BY <1>2 DEF WorkOf, CallsAreBrief, LoopPcs
<1>11. CASE mem[c].latest[s] # 0
  <2>1. mem[c].latest[s] \in Stored(s) /\ Start(c, s) - 1 = mem[c].latest[s]
    BY <1>2, <1>4, <1>8, <1>11, SizesAssumption DEF WorkOf, Start
  <2> QED
    BY <2>1, <1>0, <1>6, <1>7, <1>8, <1>9, <1>10 DEF Joins
<1>12. CASE mem[c].latest[s] = 0
  <2>1. Start(c, s) = mem[c].end - Window
    BY <1>12 DEF Start
  <2>2. \A x \in Trading(s), e \in Stored(s) : e < x /\ x < Start(c, s) => x \in Stored(s)
    BY <1>2, <1>4, <1>12, <2>1 DEF GapInv, NewIsAttached, Trading, Stored
  <2> QED
    BY <2>1, <2>2, <1>0, <1>6, <1>7, <1>8, <1>9, <1>10 DEF Joins
<1> QED
  BY <1>11, <1>12

\* A commit opens no hole.
LEMMA GapStores ==
  ASSUME StateInv, WorkInv, GapInv, CallsAreBrief, [Next]_vars, NEW c \in Calls, CommitBatch(c)
  PROVE  GapInv'
<1>1. \A s \in Symbols : Stored(s) \subseteq Days /\ Trading(s) \subseteq Days /\ Days \subseteq Int
  BY DEF Stored, Trading, Days
<1>2. today' = today
  BY DEF CommitBatch, world
<1>3. \A s \in Symbols : Written(c, s) = {} => Stored(s)' = Stored(s)
  BY CommitStores
<1>4. \A s \in Symbols : Unbroken(Trading(s), Stored(s)', today)
  <2> TAKE s \in Symbols
  <2>1. Unbroken(Trading(s), Stored(s), today)
    BY GapParts DEF GapInv
  <2>2. CASE Written(c, s) = {}
    BY <1>3, <2>1, <2>2
  <2>3. CASE Written(c, s) # {}
    <3>1. /\ Stored(s)' = Stored(s) \cup Stretch(Trading(s), Start(c, s), mem[c].end)
          /\ Joins(Trading(s), Stored(s), Start(c, s), mem[c].end, today)
      BY <2>3, GapCommit
    <3> QED
      BY <2>1, <3>1, Attach
  <2> QED
    BY <2>2, <2>3
<1>5. NoGap' /\ WindowIsFilled'
  <2>1. \A s \in Symbols : Trading(s)' = Trading(s)
    BY DEF Trading
  <2>2. \A s \in Symbols : Stored(s)' \subseteq Days
    BY DEF Stored
  <2> QED
    BY <1>2, <1>4, <2>1, <2>2 DEF NoGap, WindowIsFilled, Trading, Unbroken
<1>6. ASSUME NEW q \in Calls, Looping(q)',
             NEW s \in mem'[q].symbols, NEW d \in Days, NEW e \in Days,
             mem'[q].latest[s] = 0, e \in Stored(s)', e < d, d < mem'[q].end - Window,
             <<s, d>> \notin Suspended
      PROVE  d \in Stored(s)'
  <2>1. /\ Looping(q)
        /\ mem'[q].latest = mem[q].latest /\ mem'[q].end = mem[q].end
        /\ mem'[q].symbols = mem[q].symbols
    <3>1. ~ReadLatest(q)
      BY CallsAssumption DEF CommitBatch, ReadLatest, StateInv, TypeOK, Goto
    <3> QED
      BY <1>6, <3>1, LoopData
  <2>2. s \in Symbols /\ mem[q].end \in Int
    BY <2>1, <1>6, MemTyped, SizesAssumption DEF StateInv, MemType
  <2>3. Stored(s) \subseteq Stored(s)'
    BY <2>2, BarsGrow
  <2>4. CASE e \in Stored(s)
    BY <2>1, <2>3, <2>4, <1>6 DEF GapInv, NewIsAttached
  <2>5. CASE e \notin Stored(s)
    <3>1. Written(c, s) # {}
      BY <1>3, <1>6, <2>2, <2>5
    <3>2. /\ Stored(s)' = Stored(s) \cup Stretch(Trading(s), Start(c, s), mem[c].end)
          /\ Start(c, s) \in Int /\ mem[c].end \in Int /\ today \in Int
          /\ today <= mem[c].end + Window + 1
      BY <2>2, <3>1, GapCommit DEF Joins
    <3>3. mem[q].end <= today
      BY <2>1 DEF WorkInv, WorkIsDone, WorkOf
    <3>4. Start(c, s) <= e /\ e \in Int /\ d \in Int
      BY <3>2, <2>5, <1>6 DEF Days, Stretch
    <3>5. Start(c, s) <= d /\ d <= mem[c].end
      BY <3>2, <3>3, <3>4, <2>1, <2>2, <1>6, SizesAssumption
    <3> QED
      BY <3>2, <3>5, <1>6 DEF Trading, Stretch
  <2> QED
    BY <2>4, <2>5
<1>7. NewIsAttached'
  BY <1>6 DEF NewIsAttached
<1> QED
  BY <1>5, <1>7 DEF GapInv

\* DailyBarSyncService._sync and _start_date: as long as no call outlives the
\* history window, resuming after the latest stored bar leaves no hole,
\* whatever failed, crashed, ran twice or committed in between.
THEOREM HistoryHasNoHoles == Spec /\ []CallsAreBrief => []NoGap
<1>1. Init => GapInv
  BY DEF Init, GapInv, NoGap, WindowIsFilled, NewIsAttached, Stored, Looping, LoopPcs
<1>2. StateInv /\ WorkInv /\ CallsAreBrief /\ GapInv /\ [Next]_vars => GapInv'
  BY BarsGrow, GapFrame, GapStores
<1>3. GapInv => NoGap
  BY DEF GapInv
<1> QED
  BY <1>1, <1>2, <1>3, StateInvariant, WorkInvariant, PTL DEF Spec

\* In particular when the whole life of the system is shorter than that.
THEOREM ShortHistoryHasNoHoles ==
  ASSUME MaxDay <= Window + 2
  PROVE  Spec => []NoGap
<1>1. StateInv /\ WorkInv => CallsAreBrief
  <2> SUFFICES ASSUME StateInv, WorkInv, NEW c \in Calls, pc[c] \in LoopPcs
               PROVE  today <= mem[c].end + Window + 1
    BY DEF CallsAreBrief
  <2>1. mem[c].end \in 1..today
    BY DEF WorkInv, WorkIsDone, WorkOf, Looping
  <2>2. today \in 1..MaxDay
    BY DEF StateInv, TypeOK, Days
  <2> QED
    BY <2>1, <2>2, SizesAssumption
<1> QED
  BY <1>1, HistoryHasNoHoles, StateInvariant, WorkInvariant, PTL

----------------------------------------------------------------------------
\* The rows of the table, and any part of them, can be counted.
LEMMA FiniteRows ==
  ASSUME NEW T \in SUBSET (Symbols \X Days)
  PROVE  IsFiniteSet(T) /\ Cardinality(T) \in Nat
<1>1. IsFiniteSet(Symbols \X Days)
  BY FiniteSymbols, FiniteDays, FS_Product
<1> QED
  BY <1>1, FS_Subset, FS_CardinalityType

\* Rows that are new add up.
LEMMA RowsAddUp ==
  ASSUME NEW S \in SUBSET (Symbols \X Days), NEW T \in SUBSET (Symbols \X Days), S \cap T = {}
  PROVE  Cardinality(S \cup T) = Cardinality(S) + Cardinality(T)
<1>1. /\ IsFiniteSet(S) /\ Cardinality(S) \in Nat
      /\ IsFiniteSet(T) /\ Cardinality(T) \in Nat
  BY FiniteRows
<1>2. Cardinality(S \cup T) = Cardinality(S) + Cardinality(T) - Cardinality(S \cap T)
  BY <1>1, FS_Union
<1>3. Cardinality(S \cap T) = 0
  BY FS_EmptySet
<1> QED
  BY <1>1, <1>2, <1>3

\* The rows of one symbol are as many as its days.
LEMMA RowsOfSymbol ==
  ASSUME NEW s \in Symbols, NEW F \in SUBSET Days
  PROVE  {s} \X F \in SUBSET (Symbols \X Days) /\ Cardinality({s} \X F) = Cardinality(F)
<1>1. IsFiniteSet(F) /\ Cardinality(F) \in Nat
  BY FiniteDays
<1>2. IsFiniteSet({s}) /\ Cardinality({s}) = 1
  BY FS_Singleton
<1>3. Cardinality({s} \X F) = Cardinality({s}) * Cardinality(F)
  BY <1>1, <1>2, FS_Product
<1> QED
  BY <1>1, <1>2, <1>3

\* A call that loops is inside the runner of daily_bars.
LEMMA LoopingRuns ==
  ASSUME NEW c \in Calls, StateInv, Looping(c)
  PROVE  pc[c] \in RunPcs /\ Job(c) = DailyBars
  BY DEF StateInv, JobIsAtHand, Looping, LoopPcs, BarPcs, RunPcs, TryPcs

\* In one process only one call is inside it.
LEMMA OnlyOneLoops ==
  ASSUME StateInv, OneProcess, NEW b \in Calls, NEW c \in Calls, Looping(b), Looping(c)
  PROVE  b = c
<1>1. /\ pc[b] \in RunPcs /\ Job(b) = DailyBars
      /\ pc[c] \in RunPcs /\ Job(c) = DailyBars
  BY LoopingRuns
<1> QED
  BY <1>1 DEF StateInv, LockInv, OneProcess

\* Only its own commits change the rows that a call has stored.
LEMMA MineFrame ==
  ASSUME StateInv, [Next]_vars, NEW q \in Calls, ~CommitBatch(q)
  PROVE  Mine(q)' = Mine(q)
<1>1. CASE bars' = bars
  BY <1>1 DEF Mine
<1>2. ASSUME NEW c \in Calls, CommitBatch(c) PROVE Mine(q)' = Mine(q)
  <2>1. c # q
    BY <1>2
  <2>2. \A s \in Symbols, d \in Days : bars'[s][d] = q <=> bars[s][d] = q
    <3> TAKE s \in Symbols, d \in Days
    <3>1. bars'[s][d] = IF <<s, d>> \in pending[c] /\ bars[s][d] = Nobody THEN c ELSE bars[s][d]
      BY <1>2 DEF CommitBatch
    <3> QED
      BY <2>1, <3>1, CallsAssumption
  <2> QED
    BY <2>2 DEF Mine
<1> QED
  BY <1>1, <1>2, BarsGrow

\* A call that does not move and is not alone with the table.
LEMMA CountFrame ==
  ASSUME StateInv, [Next]_vars, OneProcess, NEW q \in Calls, CountOf(q),
         mem'[q] = mem[q], pc'[q] = pc[q], pending'[q] = pending[q], todo'[q] = todo[q], ~CommitBatch(q)
  PROVE  CountOf(q)'
<1>1. Mine(q)' = Mine(q) /\ (Looping(q)' <=> Looping(q)) /\ NextSymbol(q)' = NextSymbol(q)
  BY MineFrame DEF Looping, Job, NextSymbol
<1>2. CASE bars' = bars
  BY <1>1, <1>2 DEF CountOf
<1>3. ASSUME NEW c \in Calls, CommitBatch(c) PROVE CountOf(q)'
  <2>1. c # q /\ Looping(c)
    BY <1>3 DEF CommitBatch, Looping, LoopPcs
  <2>2. ~Looping(q)
    BY <2>1, OnlyOneLoops
  <2> QED
    BY <1>1, <2>2 DEF CountOf
<1> QED
  BY <1>2, <1>3, BarsGrow

\* The call commits: what was written becomes its own.
LEMMA CountCommits ==
  ASSUME StateInv, NEW c \in Calls, CountOf(c), CommitBatch(c)
  PROVE  CountOf(c)'
<1>1. mem \in [Calls -> MemType] /\ mem[c] \in MemType
  BY MemTyped DEF StateInv
<1>2. mem'[c].count = mem[c].count
  BY <1>1 DEF CommitBatch, MemType
<1>3. pending'[c] = {} /\ pc'[c] \in {"synced", "symbol"} /\ pc[c] = "commit" /\ Job(c)' = Job(c)
  BY DEF CommitBatch, Goto, StateInv, TypeOK, Job
<1>4. Looping(c)
  BY <1>3 DEF Looping, LoopPcs
<1>5. pending[c] \in SUBSET (Symbols \X Days) /\ Mine(c) \in SUBSET (Symbols \X Days)
  BY DEF StateInv, TypeOK, Mine
<1>6. \A s \in Symbols, d \in Days : bars'[s][d] = c <=> bars[s][d] = c \/ <<s, d>> \in pending[c]
  <2> TAKE s \in Symbols, d \in Days
  <2>1. bars'[s][d] = IF <<s, d>> \in pending[c] /\ bars[s][d] = Nobody THEN c ELSE bars[s][d]
    BY DEF CommitBatch
  <2>2. <<s, d>> \in pending[c] => bars[s][d] = Nobody
    BY <1>4 DEF CountOf
  <2> QED
    BY <2>1, <2>2
<1>7. Mine(c)' = Mine(c) \cup pending[c]
  <2>1. \A x \in Symbols \X Days : x \in Mine(c)' <=> x \in Mine(c) \/ x \in pending[c]
    BY <1>6 DEF Mine
  <2>2. Mine(c)' \subseteq Symbols \X Days
    BY DEF Mine
  <2> QED
    BY <2>1, <2>2, <1>5
<1>8. Mine(c) \cap pending[c] = {}
  <2>1. \A s \in Symbols, d \in Days : <<s, d>> \in pending[c] => bars[s][d] # c
    BY <1>4, CallsAssumption DEF CountOf
  <2> QED
    BY <2>1, <1>5 DEF Mine
<1>9. Cardinality(Mine(c)') = Cardinality(Mine(c)) + Cardinality(pending[c])
  BY <1>5, <1>7, <1>8, RowsAddUp
<1>10. mem[c].count = Cardinality(Mine(c)) + Cardinality(pending[c]) + 0
  BY <1>3, <1>4 DEF CountOf
<1>11. Cardinality({}) = 0 /\ Cardinality(Mine(c)) \in Nat /\ Cardinality(pending[c]) \in Nat
  BY FS_EmptySet, FiniteRows, <1>5
<1>12. mem'[c].count = Cardinality(Mine(c)') + Cardinality(pending'[c]) + 0
  BY <1>2, <1>3, <1>9, <1>10, <1>11
<1>13. Looping(c)'
  <2>1. Job(c) = DailyBars
    BY <1>4, LoopingRuns
  <2> QED
    BY <1>3, <2>1 DEF Looping, LoopPcs
<1> QED
  BY <1>3, <1>12, <1>13 DEF CountOf

\* Every step keeps the count of the call that takes it.
LEMMA CountOwn ==
  ASSUME StateInv, WorkInv, OneProcess, NEW q \in Calls, CountOf(q), CallStep(q) \/ Raise(q), [Next]_vars
  PROVE  CountOf(q)'
<1>1. mem \in [Calls -> MemType] /\ mem[q] \in MemType
  BY MemTyped DEF StateInv
<1>2. pc \in [Calls -> {"idle"} \cup RunPcs \cup EndPcs] /\ pending \in [Calls -> SUBSET (Symbols \X Days)]
  BY DEF StateInv, TypeOK
<1>3. ~CommitBatch(q) => Mine(q)' = Mine(q)
  BY MineFrame
<1>4. Cardinality({}) = 0
  BY FS_EmptySet
<1>5. pending[q] \in SUBSET (Symbols \X Days) /\ Mine(q) \in SUBSET (Symbols \X Days)
  BY <1>2 DEF Mine
<1>6. Cardinality(pending[q]) \in Nat /\ Cardinality(Mine(q)) \in Nat
  BY <1>5, FiniteRows
<1>7. ASSUME Conflict(q) \/ StartCollides(q) \/ Raise(q) \/ (CloseRun(q) /\ Job(q) = DailyBars)
      PROVE  CountOf(q)'
  <2>1. pc'[q] = "done"
    BY <1>2, <1>7, OrdersTail DEF Conflict, StartCollides, Raise, CloseRun, Goto, StateInv
  <2> QED
    BY <2>1 DEF CountOf, EndPcs, Looping, LoopPcs
<1>8. ASSUME EnterLock(q) \/ FindJob(q) \/ StartRun(q) \/ FetchMaster(q) \/ UpsertMaster(q) \/ ReadActive(q)
      PROVE  CountOf(q)'
  <2>1. /\ pc[q] \in {"idle", "start", "insert", "sync", "master"}
        /\ pc'[q] \in {"start", "insert", "sync", "master", "commit_master", "latest"}
        /\ ~CommitBatch(q)
    BY <1>2, <1>8 DEF EnterLock, FindJob, StartRun, FetchMaster, UpsertMaster, ReadActive, CommitBatch, Goto
  <2>2. ~Looping(q) /\ ~Looping(q)' /\ pc[q] \notin EndPcs
    BY <2>1 DEF Looping, LoopPcs, EndPcs
  <2> QED
    BY <2>1, <2>2, <1>3 DEF CountOf
<1>9. ASSUME CommitMaster(q) \/ (CloseRun(q) /\ Job(q) # DailyBars) PROVE CountOf(q)'
  <2>1. /\ pc[q] \in {"commit_master", "closing"} /\ ~CommitBatch(q)
        /\ \/ pc'[q] \in {"idle", "done"}
           \/ pc'[q] = "synced" /\ Job(q)' = StockMaster
    BY <1>2, <1>9 DEF CommitMaster, CloseRun, CommitBatch, Goto, StateInv, JobIsAtHand, Job
  <2>2. ~Looping(q)
    BY <1>9, <2>1 DEF Looping, LoopPcs, CommitMaster, CloseRun
  <2>3. ~Looping(q)'
    BY <2>1 DEF Looping, LoopPcs, StockMaster, DailyBars
  <2> QED
    BY <2>1, <2>2, <2>3, <1>3 DEF CountOf, EndPcs
<1>10. ASSUME ReadLatest(q) PROVE CountOf(q)'
  <2> DEFINE f == [s \in Symbols |-> IF s \in mem[q].left /\ Stored(s) # {} THEN Last(Stored(s)) ELSE 0]
  <2>1. pc[q] = "latest" /\ pc'[q] \in {"synced", "symbol"} /\ pending' = pending /\ Job(q)' = Job(q)
    BY <1>2, <1>10 DEF ReadLatest, Goto, Job
  <2>2. mem' = [mem EXCEPT ![q].latest = f, ![q].end = today]
    BY <1>10 DEF ReadLatest
  <2> HIDE DEF f
  <2>3. mem'[q].count = 0
    BY <1>1, <2>1, <2>2 DEF MemType, StateInv, LoopIsInside
  <2>4. pending[q] = {} /\ Mine(q) = {}
    BY <2>1 DEF WorkInv, EndIsClean, LoopPcs, CountOf, Looping, EndPcs
  <2>5. Mine(q)' = {} /\ Job(q) = DailyBars
    BY <1>3, <2>1, <2>4 DEF CommitBatch, StateInv, JobIsAtHand, BarPcs
  <2>6. mem'[q].count = Cardinality(Mine(q)') + Cardinality(pending'[q]) + 0
    BY <1>4, <2>1, <2>3, <2>4, <2>5
  <2> QED
    BY <2>1, <2>4, <2>5, <2>6 DEF CountOf, Looping, LoopPcs
<1>11. ASSUME Looping(q), Looping(q)', mem'[q].count = mem[q].count, pending'[q] = pending[q], bars' = bars,
              pc[q] # "upsert", pc'[q] # "upsert"
       PROVE  CountOf(q)'
  <2>1. Mine(q)' = Mine(q)
    BY <1>11 DEF Mine
  <2> QED
    BY <1>11, <2>1 DEF CountOf
<1>12. ASSUME SkipSymbol(q) PROVE CountOf(q)'
  <2>1. mem'[q].count = mem[q].count
    BY <1>1, <1>12 DEF SkipSymbol, AfterSymbol, Advance, MemType
  <2>2. pc[q] = "symbol" /\ pc'[q] \in {"commit", "symbol"} /\ pending' = pending /\ bars' = bars
    BY <1>2, <1>12 DEF SkipSymbol, AfterSymbol, Goto, tables
  <2> QED
    BY <1>11, <2>1, <2>2 DEF Looping, LoopPcs
<1>13. ASSUME FetchBars(q) PROVE CountOf(q)'
  <2>1. mem'[q].count = mem[q].count
    BY <1>1, <1>13 DEF FetchBars, MemType
  <2>2. pc[q] = "symbol" /\ pc'[q] = "existing" /\ pending' = pending /\ bars' = bars
    BY <1>2, <1>13 DEF FetchBars, Goto, tables
  <2> QED
    BY <1>11, <2>1, <2>2 DEF Looping, LoopPcs
<1>14. ASSUME CountBars(q) PROVE CountOf(q)'
  <2>1. pc[q] = "existing" /\ pending' = pending /\ bars' = bars
    BY <1>14 DEF CountBars, tables
  <2>2. Looping(q)
    BY <2>1 DEF Looping, LoopPcs
  <2>3. CASE mem[q].fetched = {}
    <3>1. AfterSymbol(q, Advance(mem[q], NextSymbol(q)))
      BY <1>14, <2>3 DEF CountBars
    <3>2. mem'[q].count = mem[q].count /\ pc'[q] \in {"commit", "symbol"}
      BY <1>1, <1>2, <3>1 DEF AfterSymbol, Advance, MemType, Goto
    <3> QED
      BY <1>11, <2>1, <2>2, <3>2 DEF Looping, LoopPcs
  <2>4. CASE mem[q].fetched # {}
    <3> DEFINE new == mem[q].fetched \ Stored(NextSymbol(q))
    <3>1. /\ mem' = [mem EXCEPT ![q].fetched = new, ![q].count = Counted(mem[q], new)]
          /\ pc' = [pc EXCEPT ![q] = "upsert"]
      BY <1>14, <2>4 DEF CountBars, Goto
    <3>2. new \in SUBSET Days
      BY <2>1 DEF StateInv, LoopIsInside
    <3>3. \A d \in new : bars[NextSymbol(q)][d] = Nobody
      BY <3>2 DEF Stored
    <3> HIDE DEF new
    <3>4. /\ mem'[q].left = mem[q].left /\ mem'[q].fetched = new
          /\ mem'[q].count = mem[q].count + Cardinality(new)
      BY <1>1, <3>1 DEF MemType, Counted
    <3>5. NextSymbol(q)' = NextSymbol(q) /\ pc'[q] = "upsert" /\ Mine(q)' = Mine(q)
      BY <1>2, <2>1, <3>1, <3>4 DEF NextSymbol, Mine
    <3>6. Cardinality(new) \in Nat
      BY <3>2, FiniteDays
    <3>7. mem[q].count = Cardinality(Mine(q)) + Cardinality(pending[q]) + 0
      BY <2>1, <2>2 DEF CountOf
    <3>8. mem'[q].count = Cardinality(Mine(q)') + Cardinality(pending'[q]) + Cardinality(mem'[q].fetched)
      BY <1>6, <2>1, <3>4, <3>5, <3>6, <3>7
    <3>9. \A s \in Symbols, d \in Days : <<s, d>> \in pending'[q] => bars'[s][d] = Nobody
      BY <2>1, <2>2 DEF CountOf
    <3>10. (\A d \in mem[q].fetched : bars[NextSymbol(q)][d] = Nobody)'
      BY <2>1, <3>3, <3>4, <3>5
    <3>11. Looping(q)'
      BY <3>5 DEF Looping, LoopPcs
    <3> QED
      BY <3>5, <3>8, <3>9, <3>10, <3>11 DEF CountOf
  <2> QED
    BY <2>3, <2>4
<1>15. ASSUME UpsertBars(q) PROVE CountOf(q)'
  <2> DEFINE rows == {NextSymbol(q)} \X mem[q].fetched
  <2>1. pc[q] = "upsert" /\ bars' = bars /\ AfterSymbol(q, Advance(mem[q], NextSymbol(q)))
    BY <1>15 DEF UpsertBars, tables
  <2>2. Looping(q)
    BY <2>1 DEF Looping, LoopPcs
  <2>3. pending'[q] = pending[q] \cup rows
    BY <1>2, <1>15 DEF UpsertBars
  <2>4. NextSymbol(q) \in mem[q].left /\ NextSymbol(q) \in Symbols /\ mem[q].fetched \in SUBSET Days
    BY <1>1, <2>1, LeastIn DEF NextSymbol, StateInv, LoopIsInside, MemType
  <2>5. rows \in SUBSET (Symbols \X Days) /\ Cardinality(rows) = Cardinality(mem[q].fetched)
    BY <2>4, RowsOfSymbol
  <2>6. pending[q] \cap rows = {}
    <3>1. \A s \in Symbols, d \in Days : <<s, d>> \in pending[q] => s \notin mem[q].left
      BY <2>2 DEF WorkInv, WorkIsDone, WorkOf
    <3> QED
      BY <3>1, <2>4, <2>5, <1>5
  <2>7. Cardinality(pending'[q]) = Cardinality(pending[q]) + Cardinality(mem[q].fetched)
    BY <2>3, <2>5, <2>6, <1>5, RowsAddUp
  <2>8. mem'[q].count = mem[q].count /\ pc'[q] \in {"commit", "symbol"} /\ Mine(q)' = Mine(q)
    BY <1>1, <1>2, <2>1 DEF AfterSymbol, Advance, MemType, Goto, Mine
  <2>9. Cardinality(mem[q].fetched) \in Nat
    BY <2>4, FiniteDays
  <2>10. mem[q].count = Cardinality(Mine(q)) + Cardinality(pending[q]) + Cardinality(mem[q].fetched)
    BY <2>1, <2>2 DEF CountOf
  <2>11. mem'[q].count = Cardinality(Mine(q)') + Cardinality(pending'[q]) + 0
    BY <1>6, <2>7, <2>8, <2>9, <2>10
  <2>12. \A s \in Symbols, d \in Days : <<s, d>> \in pending'[q] => bars'[s][d] = Nobody
    <3>1. \A s \in Symbols, d \in Days : <<s, d>> \in rows => bars[s][d] = Nobody
      BY <2>1, <2>2 DEF CountOf
    <3>2. \A s \in Symbols, d \in Days : <<s, d>> \in pending[q] => bars[s][d] = Nobody
      BY <2>2 DEF CountOf
    <3> QED
      BY <2>1, <2>3, <3>1, <3>2
  <2>13. Looping(q)' /\ pc'[q] # "upsert"
    BY <2>8 DEF Looping, LoopPcs
  <2> QED
    BY <2>11, <2>12, <2>13 DEF CountOf
<1>16. ASSUME FinishRun(q) PROVE CountOf(q)'
  <2>1. /\ mem' = mem /\ pending' = pending /\ bars' = bars /\ Job(q)' = Job(q)
        /\ pc[q] = "synced" /\ pc'[q] = "closing"
    BY <1>2, <1>16 DEF FinishRun, Goto, tables, Job
  <2>2. (Looping(q)' <=> Looping(q)) /\ Mine(q)' = Mine(q)
    BY <2>1 DEF Looping, LoopPcs, Mine
  <2> QED
    BY <2>1, <2>2 DEF CountOf, EndPcs
<1> QED
  BY <1>7, <1>8, <1>9, <1>10, <1>12, <1>13, <1>14, <1>15, <1>16, CountCommits DEF CallStep

\* The count of every call is kept.
LEMMA CountKept ==
  ASSUME StateInv, WorkInv, OneProcess, [Next]_vars, \A c \in Calls : CountOf(c), NEW q \in Calls
  PROVE  CountOf(q)'
<1>1. ASSUME mem'[q] = mem[q], pc'[q] = pc[q], pending'[q] = pending[q], todo'[q] = todo[q], ~CommitBatch(q)
      PROVE  CountOf(q)'
  BY <1>1, CountFrame
<1>2. CASE CallStep(q) \/ Raise(q)
  BY <1>2, CountOwn
<1>3. ASSUME ~(CallStep(q) \/ Raise(q)), NEW c \in Calls, CallStep(c) \/ Raise(c) PROVE CountOf(q)'
  BY <1>1, <1>3, Frame DEF CallStep
<1>4. ASSUME ~(CallStep(q) \/ Raise(q)), NEW p \in Processes, Crash(p) PROVE CountOf(q)'
  <2>1. CASE pc'[q] = "crashed"
    BY <2>1 DEF CountOf, EndPcs, Looping, LoopPcs
  <2>2. CASE pc'[q] # "crashed"
    <3>1. mem'[q] = mem[q] /\ pc'[q] = pc[q] /\ pending'[q] = pending[q] /\ todo'[q] = todo[q]
      BY <1>4, <2>2 DEF Crash
    <3> QED
      BY <3>1, <1>1, <1>4 DEF CallStep
  <2> QED
    BY <2>1, <2>2
<1>5. ASSUME ~(CallStep(q) \/ Raise(q)), (\E s \in Symbols : ListStock(s)) \/ NextDay \/ UNCHANGED vars
      PROVE  CountOf(q)'
  BY <1>1, <1>5 DEF ListStock, NextDay, vars, CallStep
<1> QED
  BY <1>2, <1>3, <1>4, <1>5 DEF Next, Ended

\* A recorded count stays right, and a new one is right.
LEMMA InsertedKept ==
  ASSUME StateInv, WorkInv, OneProcess, [Next]_vars, \A c \in Calls : CountOf(c), InsertedIsCounted,
         NEW q \in Calls, audit'[q][DailyBars].status = "succeeded"
  PROVE  audit'[q][DailyBars].inserted = Cardinality(Mine(q)')
<1>1. ASSUME audit'[q] = audit[q] PROVE audit'[q][DailyBars].inserted = Cardinality(Mine(q)')
  <2>1. pc[q] = "done"
    BY <1>1 DEF WorkInv, EndIsClean
  <2>2. Mine(q)' = Mine(q)
    BY <2>1, MineFrame DEF CommitBatch
  <2> QED
    BY <1>1, <2>2 DEF InsertedIsCounted, OneProcess, Mine
<1>2. ASSUME NEW c \in Calls, CallStep(c) \/ Raise(c), c # q
      PROVE  audit'[q][DailyBars].inserted = Cardinality(Mine(q)')
  BY <1>1, <1>2, Frame
<1>3. ASSUME CloseRun(q) PROVE audit'[q][DailyBars].inserted = Cardinality(Mine(q)')
  <2>1. pc[q] = "closing" /\ ~CommitBatch(q) /\ audit[q][DailyBars].status # "succeeded"
    BY <1>3 DEF CloseRun, CommitBatch, WorkInv, EndIsClean
  <2>2. Job(q) = DailyBars
    BY <1>3, <2>1 DEF CloseRun, StateInv, TypeOK, Jobs
  <2>3. audit'[q][DailyBars].inserted = mem[q].count
    BY <1>3, <2>2 DEF CloseRun, StateInv, TypeOK, Jobs
  <2>4. Looping(q) /\ pending[q] = {}
    BY <2>1, <2>2 DEF Looping, WorkInv, EndIsClean, LoopPcs
  <2>5. mem[q].count = Cardinality(Mine(q)) + Cardinality({}) + 0
    BY <2>1, <2>4 DEF CountOf
  <2>6. Cardinality({}) = 0 /\ Cardinality(Mine(q)) \in Nat
    BY FS_EmptySet, FiniteRows DEF Mine
  <2>7. Mine(q)' = Mine(q)
    BY <2>1, MineFrame
  <2> QED
    BY <2>3, <2>5, <2>6, <2>7
<1>4. ASSUME CallStep(q) \/ Raise(q), ~CloseRun(q)
      PROVE  audit'[q][DailyBars].inserted = Cardinality(Mine(q)')
  <2>1. audit[q][DailyBars].status # "succeeded"
    <3>1. pc[q] # "done"
      BY <1>4 DEF CallStep, Raise, Conflict, EnterLock, FindJob, StartRun, StartCollides, FetchMaster,
              UpsertMaster, CommitMaster, ReadActive, ReadLatest, SkipSymbol, FetchBars, CountBars,
              UpsertBars, CommitBatch, FinishRun, TryPcs
    <3> QED
      BY <3>1 DEF WorkInv, EndIsClean
  <2>2. \/ audit' = audit
        \/ audit' = [audit EXCEPT ![q][Job(q)].status = "running"]
        \/ audit' = [audit EXCEPT ![q][Job(q)].status = "failed"]
    BY <1>4 DEF CallStep, Raise, Conflict, EnterLock, FindJob, StartRun, StartCollides, FetchMaster,
              UpsertMaster, CommitMaster, ReadActive, ReadLatest, SkipSymbol, FetchBars, CountBars,
              UpsertBars, CommitBatch, FinishRun, tables
  <2> QED
    BY <2>1, <2>2 DEF StateInv, TypeOK, Jobs
<1>5. ASSUME (\E p \in Processes : Crash(p)) \/ (\E s \in Symbols : ListStock(s)) \/ NextDay \/ UNCHANGED vars
      PROVE  audit'[q] = audit[q]
  BY <1>5 DEF Crash, ListStock, NextDay, vars, tables
<1> QED
  BY <1>1, <1>2, <1>3, <1>4, <1>5 DEF Next, Ended

\* A call is served by one process from start to end.
LEMMA ArgsStay == [Next]_vars => args' = args
  BY DEF Next, CallStep, vars, Ended, Crash, ListStock, NextDay, Raise, Conflict, EnterLock, FindJob,
         StartRun, StartCollides, FetchMaster, UpsertMaster, CommitMaster, ReadActive, ReadLatest,
         SkipSymbol, FetchBars, CountBars, UpsertBars, CommitBatch, FinishRun, CloseRun

\* SyncJobRepository.finish: a daily_bars run whose row says succeeded has
\* brought every symbol up to its end date, over all its batches, and, where
\* one process serves the calls, inserted_rows is the number of bars it stored.
THEOREM RecordedSuccessIsTrue == Spec => []SuccessIsAsRecorded
<1>1. Init => CountInv
  <2> SUFFICES ASSUME Init PROVE CountInv
    OBVIOUS
  <2>1. \A c \in Calls : Mine(c) = {}
    BY CallsAssumption DEF Init, Mine
  <2>2. \A c \in Calls : ~Looping(c)
    BY DEF Init, Looping, LoopPcs
  <2>3. InsertedIsCounted
    BY DEF Init, InsertedIsCounted, Jobs, DailyBars
  <2> QED
    BY <2>1, <2>2, <2>3 DEF CountInv, CountOf
<1>2. StateInv /\ WorkInv /\ CountInv /\ [Next]_vars => CountInv'
  <2> SUFFICES ASSUME StateInv, WorkInv, CountInv, [Next]_vars, OneProcess'
               PROVE  (\A c \in Calls : CountOf(c)') /\ InsertedIsCounted'
    BY DEF CountInv
  <2>1. OneProcess
    BY ArgsStay DEF OneProcess, Process
  <2>2. (\A c \in Calls : CountOf(c)) /\ InsertedIsCounted
    BY <2>1 DEF CountInv
  <2>3. \A c \in Calls : CountOf(c)'
    BY <2>1, <2>2, CountKept
  <2>4. InsertedIsCounted'
    BY <2>1, <2>2, InsertedKept DEF InsertedIsCounted, Mine
  <2> QED
    BY <2>3, <2>4
<1>3. WorkInv /\ CountInv => SuccessIsAsRecorded
  BY DEF WorkInv, CountInv, SuccessIsAsRecorded, OneProcess, InsertedIsCounted
<1> QED
  BY <1>1, <1>2, <1>3, StateInvariant, WorkInvariant, PTL DEF Spec
============================================================================
