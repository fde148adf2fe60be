----------------------------- MODULE MarketSync -----------------------------
(***************************************************************************)
(* Market-data synchronisation: SyncCoordinator, StockSyncService and      *)
(* DailyBarSyncService (market/sync.py) over the stock, daily-bar and job  *)
(* repositories, as the pipeline and the admin routes call them in one or  *)
(* several processes on one PostgreSQL database.                           *)
(*                                                                         *)
(* A call is one sync.all(), stocks.run() or bars.run().  Each job of a    *)
(* call writes one row of sync_job_runs, named by the call and the job.    *)
(* A step is what happens between two awaits.                              *)
(***************************************************************************)
EXTENDS Integers, FiniteSets, Sequences

CONSTANTS
  Calls,       \* calls of the coordinator or of one of its runners
  Processes,   \* application replicas, each with its own asyncio locks
  NumSymbols,  \* symbols are numbered in the order of ORDER BY symbol
  MaxDay,      \* bound on the days that pass
  Suspended,   \* pairs <<symbol, day>> on which a listed symbol has no bar
  Window,      \* days of history a new symbol starts with
  BatchSize,   \* SYNC_BATCH_SIZE
  Nobody       \* not a call: a free lock, an absent row

Symbols == 1..NumSymbols
Days    == 1..MaxDay

ASSUME CallsAssumption  == Nobody \notin Calls
ASSUME SizesAssumption  == NumSymbols \in Nat /\ MaxDay \in Nat \ {0}
                           /\ Window \in Nat /\ BatchSize \in Nat \ {0}
ASSUME MarketAssumption == Suspended \subseteq Symbols \X Days

VARIABLES
  args,     \* args[c]: the process that serves the call and its jobs
  todo,     \* the jobs it has not finished
  pc,       \* where it stands in _Runner.run
  mem,      \* its local variables
  open,     \* is a transaction of its session open?
  pending,  \* bars written and not committed
  result,   \* how the call ended
  lock,     \* _run_lock of each runner of each process
  jobs,     \* table sync_jobs: the names it has
  audit,    \* table sync_job_runs: status and inserted_rows
  stocks,   \* table stocks: the active symbols
  bars,     \* table daily_bars: the call that inserted a bar, or Nobody
  listed,   \* the provider's stock master
  today     \* date.today()

vars == <<args, todo, pc, mem, open, pending, result, lock, jobs, audit,
          stocks, bars, listed, today>>
tables == <<jobs, audit, stocks, bars>>
world  == <<listed, today>>

StockMaster == "stock_master"
DailyBars   == "daily_bars"
Jobs        == {StockMaster, DailyBars}

\* POST /sync/stocks, /sync/daily-bars, and /sync/all or the pipeline.
Orders == {<<StockMaster>>, <<DailyBars>>, <<StockMaster, DailyBars>>}

TryPcs == {"sync", "master", "commit_master", "latest", "symbol", "existing",
           "upsert", "commit", "synced", "closing"}
RunPcs == {"start", "insert"} \cup TryPcs
EndPcs == {"done", "crashed"}

NoMem == [saw |-> FALSE, end |-> 0, symbols |-> {}, left |-> {},
          latest |-> [s \in Symbols |-> 0], filled |-> 0, fetched |-> {},
          count |-> 0]

TypeOK ==
  /\ args \in [Calls -> [process: Processes, jobs: Orders]]
  /\ todo \in [Calls -> Orders \cup {<<>>}]
  /\ pc \in [Calls -> {"idle"} \cup RunPcs \cup EndPcs]
  /\ mem \in [Calls -> [saw: BOOLEAN, end: 0..MaxDay, symbols: SUBSET Symbols,
                        left: SUBSET Symbols, latest: [Symbols -> 0..MaxDay],
                        filled: 0..BatchSize, fetched: SUBSET (Symbols \cup Days),
                        count: 0..(NumSymbols * MaxDay)]]
  /\ open \in [Calls -> BOOLEAN]
  /\ pending \in [Calls -> SUBSET (Symbols \X Days)]
  /\ result \in [Calls -> {"none", "ok", "conflict", "error"}]
  /\ lock \in [Processes -> [Jobs -> Calls \cup {Nobody}]]
  /\ jobs \in SUBSET Jobs
  /\ audit \in [Calls -> [Jobs -> [status: {"absent", "running", "succeeded", "failed"},
                                   inserted: Nat]]]
  /\ stocks \in SUBSET Symbols
  /\ bars \in [Symbols -> [Days -> Calls \cup {Nobody}]]
  /\ listed \in SUBSET Symbols
  /\ today \in Days

Init ==
  /\ args \in [Calls -> [process: Processes, jobs: Orders]]
  /\ todo = [c \in Calls |-> args[c].jobs]
  /\ pc = [c \in Calls |-> "idle"]
  /\ mem = [c \in Calls |-> NoMem]
  /\ open = [c \in Calls |-> FALSE]
  /\ pending = [c \in Calls |-> {}]
  /\ result = [c \in Calls |-> "none"]
  /\ lock = [p \in Processes |-> [j \in Jobs |-> Nobody]]
  /\ jobs = {}
  /\ audit = [c \in Calls |-> [j \in Jobs |-> [status |-> "absent", inserted |-> 0]]]
  /\ stocks = {}
  /\ bars = [s \in Symbols |-> [d \in Days |-> Nobody]]
  /\ listed \in SUBSET Symbols
  /\ today = 1

----------------------------------------------------------------------------
Process(c) == args[c].process
Job(c)     == Head(todo[c])

Goto(c, to) == pc' = [pc EXCEPT ![c] = to]

\* The finally clause of run().
Release(c) == lock' = [lock EXCEPT ![Process(c)][Job(c)] = Nobody]

Stored(s) == {d \in Days : bars[s][d] # Nobody}
Last(S)   == CHOOSE d \in S : \A e \in S : e <= d
Least(S)  == CHOOSE s \in S : \A t \in S : s <= t

\* Mutant: SELECT without ORDER BY; two calls may get different orders.
NextUnordered(c) ==
  IF c = (CHOOSE x \in Calls : TRUE) THEN Least(mem[c].left) ELSE Last(mem[c].left)

\* The symbol that is next in the ORDER BY of active().
NextSymbol(c) == Least(mem[c].left)

----------------------------------------------------------------------------
\* _Runner.run: locked() and acquire() have no await between them.

Conflict(c) ==
  /\ pc[c] = "idle"
  /\ lock[Process(c)][Job(c)] # Nobody
  /\ Goto(c, "done")
  /\ result' = [result EXCEPT ![c] = "conflict"]
  /\ UNCHANGED <<args, todo, mem, open, pending, lock, tables, world>>

EnterLock(c) ==
  /\ pc[c] = "idle"
  /\ lock[Process(c)][Job(c)] = Nobody
  /\ lock' = [lock EXCEPT ![Process(c)][Job(c)] = c]
  /\ Goto(c, "start")
  /\ UNCHANGED <<args, todo, mem, open, pending, result, tables, world>>

\* SyncJobRepository.start: looks the job up ...
FindJob(c) ==
  /\ pc[c] = "start"
  /\ mem' = [mem EXCEPT ![c].saw = Job(c) \in jobs]
  /\ Goto(c, "insert")
  /\ UNCHANGED <<args, todo, open, pending, result, lock, tables, world>>

\* ... inserts it if it was not there, and the running row; committed.
StartRun(c) ==
  /\ pc[c] = "insert"
  /\ mem[c].saw \/ Job(c) \notin jobs
  /\ jobs' = jobs \cup {Job(c)}
  /\ audit' = [audit EXCEPT ![c][Job(c)].status = "running"]
  /\ Goto(c, "sync")
  /\ UNCHANGED <<args, todo, mem, open, pending, result, lock, stocks, bars, world>>

\* Another replica inserted the job row first: the INSERT violates the primary
\* key, outside the try block.
StartCollides(c) ==
  /\ pc[c] = "insert"
  /\ ~mem[c].saw /\ Job(c) \in jobs
  /\ Goto(c, "done")
  /\ result' = [result EXCEPT ![c] = "error"]
  /\ Release(c)
  /\ UNCHANGED <<args, todo, mem, open, pending, tables, world>>

----------------------------------------------------------------------------
\* StockSyncService._sync.

FetchMaster(c) ==
  /\ pc[c] = "sync" /\ Job(c) = StockMaster
  /\ mem' = [mem EXCEPT ![c].fetched = listed]
  /\ Goto(c, "master")
  /\ UNCHANGED <<args, todo, open, pending, result, lock, tables, world>>

\* An empty list is not written, and neither are unchanged rows; a row another
\* transaction has written is waited for.
UpsertMaster(c) ==
  LET new == mem[c].fetched \ stocks IN
  /\ pc[c] = "master"
  /\ \A q \in Calls \ {c} : pc[q] = "commit_master" => mem[q].fetched \cap new = {}
  /\ open' = [open EXCEPT ![c] = mem[c].fetched # {}]
  /\ mem' = [mem EXCEPT ![c].fetched = new, ![c].count = Cardinality(new)]
  /\ Goto(c, "commit_master")
  /\ UNCHANGED <<args, todo, pending, result, lock, tables, world>>

CommitMaster(c) ==
  /\ pc[c] = "commit_master"
  /\ stocks' = stocks \cup mem[c].fetched
  /\ mem' = [mem EXCEPT ![c].fetched = {}]
  /\ open' = [open EXCEPT ![c] = FALSE]
  /\ Goto(c, "synced")
  /\ UNCHANGED <<args, todo, pending, result, lock, jobs, audit, bars, world>>

----------------------------------------------------------------------------
\* DailyBarSyncService._sync.

ReadActive(c) ==
  /\ pc[c] = "sync" /\ Job(c) = DailyBars
  /\ mem' = [mem EXCEPT ![c].symbols = stocks, ![c].left = stocks]
  /\ open' = [open EXCEPT ![c] = TRUE]
  /\ Goto(c, "latest")
  /\ UNCHANGED <<args, todo, pending, result, lock, tables, world>>

ReadLatest(c) ==
  /\ pc[c] = "latest"
  /\ mem' = [mem EXCEPT
       ![c].latest = [s \in Symbols |->
                        IF s \in mem[c].left /\ Stored(s) # {} THEN Last(Stored(s))
                        ELSE 0],
       ![c].end = today]
  /\ Goto(c, IF mem[c].left = {} THEN "synced" ELSE "symbol")
  /\ open' = [open EXCEPT ![c] = mem[c].left # {}]
  /\ UNCHANGED <<args, todo, pending, result, lock, tables, world>>

\* Mutant: the suffix begins a day too late.
StartAfterNext(c, s) ==
  IF mem[c].latest[s] # 0 THEN mem[c].latest[s] + 2 ELSE mem[c].end - Window

\* The missing suffix of a known symbol, the history window of a new one.
Start(c, s) ==
  IF mem[c].latest[s] # 0 THEN mem[c].latest[s] + 1 ELSE mem[c].end - Window

\* Mutant: a symbol whose only missing day is the end date is skipped.
UpToDateEarly(c, s) == Start(c, s) >= mem[c].end

UpToDate(c, s) == Start(c, s) > mem[c].end

\* provider.daily_bars: all the bars there are between the two dates.
daily_bars(s, from, to) == {d \in Days : from <= d /\ d <= to /\ <<s, d>> \notin Suspended}

\* The inner loop moves on to the next symbol.
Advance(m, s) == [m EXCEPT !.left = @ \ {s}, !.filled = @ + 1, !.fetched = {}]

\* The batch is full, or the symbols have run out.
BatchEnds(m) == m.filled = BatchSize \/ m.left = {}

AfterSymbol(c, m) ==
  /\ mem' = [mem EXCEPT ![c] = m]
  /\ Goto(c, IF BatchEnds(m) THEN "commit" ELSE "symbol")

SkipSymbol(c) ==
  LET s == NextSymbol(c) IN
  /\ pc[c] = "symbol"
  /\ UpToDate(c, s)
  /\ AfterSymbol(c, Advance(mem[c], s))
  /\ UNCHANGED <<args, todo, open, pending, result, lock, tables, world>>

FetchBars(c) ==
  LET s == NextSymbol(c) IN
  /\ pc[c] = "symbol"
  /\ ~UpToDate(c, s)
  /\ mem' = [mem EXCEPT ![c].fetched = daily_bars(s, Start(c, s), mem[c].end)]
  /\ Goto(c, "existing")
  /\ UNCHANGED <<args, todo, open, pending, result, lock, tables, world>>

\* inserted_rows so far.
Counted(m, new) == m.count + Cardinality(new)

\* DailyBarRepository.upsert: an empty list returns at once; otherwise the
\* stored rows are read, counted and left out.
CountBars(c) ==
  LET s == NextSymbol(c)
      new == mem[c].fetched \ Stored(s)
  IN
  /\ pc[c] = "existing"
  /\ IF mem[c].fetched = {}
       THEN AfterSymbol(c, Advance(mem[c], s)) /\ UNCHANGED open
       ELSE /\ mem' = [mem EXCEPT ![c].fetched = new,
                                  ![c].count = Counted(mem[c], new)]
            /\ open' = [open EXCEPT ![c] = TRUE]
            /\ Goto(c, "upsert")
  /\ UNCHANGED <<args, todo, pending, result, lock, tables, world>>

\* INSERT ... ON CONFLICT DO UPDATE waits for another writer of the same rows.
UpsertBars(c) ==
  LET s == NextSymbol(c)
      rows == {s} \X mem[c].fetched
  IN
  /\ pc[c] = "upsert"
  /\ \A q \in Calls \ {c} : pending[q] \cap rows = {}
  /\ pending' = [pending EXCEPT ![c] = @ \cup rows]
  /\ AfterSymbol(c, Advance(mem[c], s))
  /\ UNCHANGED <<args, todo, open, result, lock, tables, world>>

CommitBatch(c) ==
  /\ pc[c] = "commit"
  /\ bars' = [s \in Symbols |-> [d \in Days |->
                IF <<s, d>> \in pending[c] /\ bars[s][d] = Nobody THEN c
                ELSE bars[s][d]]]
  /\ pending' = [pending EXCEPT ![c] = {}]
  /\ mem' = [mem EXCEPT ![c].filled = 0]
  /\ open' = [open EXCEPT ![c] = FALSE]
  /\ Goto(c, IF mem[c].left = {} THEN "synced" ELSE "symbol")
  /\ UNCHANGED <<args, todo, result, lock, jobs, audit, stocks, world>>

----------------------------------------------------------------------------
\* The end of _run_locked and of run().

FinishRun(c) ==
  /\ pc[c] = "synced"
  /\ open' = [open EXCEPT ![c] = TRUE]
  /\ Goto(c, "closing")
  /\ UNCHANGED <<args, todo, mem, pending, result, lock, tables, world>>

\* The success is committed and the lock freed; all() goes on to its next job.
CloseRun(c) ==
  /\ pc[c] = "closing"
  /\ audit' = [audit EXCEPT ![c][Job(c)] = [status |-> "succeeded",
                                            inserted |-> mem[c].count]]
  /\ open' = [open EXCEPT ![c] = FALSE]
  /\ Release(c)
  /\ todo' = [todo EXCEPT ![c] = Tail(@)]
  /\ IF Tail(todo[c]) = <<>>
       THEN /\ Goto(c, "done")
            /\ result' = [result EXCEPT ![c] = "ok"]
            /\ UNCHANGED mem
       ELSE /\ Goto(c, "idle")
            /\ mem' = [mem EXCEPT ![c] = NoMem]
            /\ UNCHANGED result
  /\ UNCHANGED <<args, pending, jobs, stocks, bars, world>>

\* Mutant: the lock is released on success only.
RaiseKeepingLock(c) ==
  /\ pc[c] \in TryPcs
  /\ pending' = [pending EXCEPT ![c] = {}]
  /\ open' = [open EXCEPT ![c] = FALSE]
  /\ audit' = IF open[c] THEN audit
              ELSE [audit EXCEPT ![c][Job(c)].status = "failed"]
  /\ Goto(c, "done")
  /\ result' = [result EXCEPT ![c] = "error"]
  /\ UNCHANGED <<args, todo, mem, lock, jobs, stocks, bars, world>>

\* The except branch.  A rollback of an open transaction expires the objects
\* of the session, so that run.id, the argument of the next session.get(),
\* raises MissingGreenlet and the row is never finished; without an open
\* transaction rollback() expires nothing and the failure is recorded.
Raise(c) ==
  /\ pc[c] \in TryPcs
  /\ pending' = [pending EXCEPT ![c] = {}]
  /\ open' = [open EXCEPT ![c] = FALSE]
  /\ audit' = IF open[c] THEN audit
              ELSE [audit EXCEPT ![c][Job(c)].status = "failed"]
  /\ Release(c)
  /\ Goto(c, "done")
  /\ result' = [result EXCEPT ![c] = "error"]
  /\ UNCHANGED <<args, todo, mem, jobs, stocks, bars, world>>

----------------------------------------------------------------------------
\* The environment.

\* A replica dies with its locks, its calls and their open transactions.
Crash(p) ==
  LET dead == {c \in Calls : Process(c) = p /\ pc[c] \in RunPcs} IN
  /\ dead # {}
  /\ pc' = [c \in Calls |-> IF c \in dead THEN "crashed" ELSE pc[c]]
  /\ pending' = [c \in Calls |-> IF c \in dead THEN {} ELSE pending[c]]
  /\ open' = [c \in Calls |-> IF c \in dead THEN FALSE ELSE open[c]]
  /\ lock' = [lock EXCEPT ![p] = [j \in Jobs |-> Nobody]]
  /\ UNCHANGED <<args, todo, mem, result, tables, world>>

\* The market has closed on another day.
NextDay ==
  /\ today < MaxDay
  /\ today' = today + 1
  /\ UNCHANGED <<args, todo, pc, mem, open, pending, result, lock, tables, listed>>

ListStock(s) ==
  /\ s \notin listed
  /\ listed' = listed \cup {s}
  /\ UNCHANGED <<args, todo, pc, mem, open, pending, result, lock, tables, today>>

Ended ==
  /\ \A c \in Calls : pc[c] \in EndPcs
  /\ UNCHANGED vars

CallStep(c) ==
  \/ Conflict(c) \/ EnterLock(c)
  \/ FindJob(c) \/ StartRun(c) \/ StartCollides(c)
  \/ FetchMaster(c) \/ UpsertMaster(c) \/ CommitMaster(c)
  \/ ReadActive(c) \/ ReadLatest(c) \/ SkipSymbol(c) \/ FetchBars(c)
  \/ CountBars(c) \/ UpsertBars(c) \/ CommitBatch(c)
  \/ FinishRun(c) \/ CloseRun(c)

Next ==
  \/ \E c \in Calls : CallStep(c) \/ Raise(c)
  \/ \E p \in Processes : Crash(p)
  \/ \E s \in Symbols : ListStock(s)
  \/ NextDay
  \/ Ended

Spec == Init /\ [][Next]_vars

\* The event loop resumes every coroutine whose await is answered; an
\* exception or a crash is never owed.
FairSpec == Spec /\ \A c \in Calls : WF_vars(CallStep(c))

----------------------------------------------------------------------------
\* Resuming after the latest stored bar never leaves a hole: whatever failed,
\* crashed or ran twice, a symbol's stored bars are all the bars there are
\* between its first and its last.
NoGap ==
  \A s \in Symbols : \A d \in Days :
    /\ \E e \in Stored(s) : e < d
    /\ \E e \in Stored(s) : d < e
    /\ <<s, d>> \notin Suspended
    => d \in Stored(s)

\* A daily_bars run recorded as succeeded has brought every symbol it knew up
\* to its end date, from where the symbol stood or from the history window.
SuccessIsComplete ==
  \A c \in Calls :
    audit[c][DailyBars].status = "succeeded" =>
      \A s \in mem[c].symbols :
        \A d \in daily_bars(s, Start(c, s), mem[c].end) : d \in Stored(s)

\* When one process serves all the calls, inserted_rows of a succeeded run is
\* the number of bars that run put into the table, over all its batches.
InsertedIsCounted ==
  (\A b, c \in Calls : Process(b) = Process(c)) =>
  \A c \in Calls :
    audit[c][DailyBars].status = "succeeded" =>
      audit[c][DailyBars].inserted
        = Cardinality({x \in Symbols \X Days : bars[x[1]][x[2]] = c})

\* A daily_bars run recorded as succeeded did what its row claims: it is
\* complete up to its end date, and its count is right.
SuccessIsAsRecorded == SuccessIsComplete /\ InsertedIsCounted

\* A runner's lock is held by the one call that is inside that runner, so no
\* failure or crash leaves it locked and no two calls are inside together.
LockHasItsRun ==
  \A p \in Processes, j \in Jobs :
    {c \in Calls : Process(c) = p /\ pc[c] \in RunPcs /\ Job(c) = j}
      = {lock[p][j]} \ {Nobody}

\* The coherent states: every variable has its type, and locks and runs belong
\* together whatever failed or crashed.
StateIsCoherent == TypeOK /\ LockHasItsRun

\* Documentation (ARCHITECTURE.md): exceptions roll the transaction back,
\* record a failure and are re-raised.
FailureIsRecorded ==
  \A c \in Calls :
    result[c] = "error" /\ audit[c][Job(c)].status # "absent" =>
      audit[c][Job(c)].status = "failed"

\* Every call of a replica that stays up ends: with a result, a conflict or
\* an error.  Replicas that upsert the same symbols never wait in a circle.
EveryCallEnds == \A c \in Calls : <>(pc[c] \in EndPcs)
=============================================================================
