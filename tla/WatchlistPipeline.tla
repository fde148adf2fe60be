------------------------- MODULE WatchlistPipeline -------------------------
(***************************************************************************)
(* The daily watchlist pipeline: DailyWatchlistPipeline.run               *)
(* (pipeline/service.py) over PipelineExecutionRepository                  *)
(* (pipeline/repository.py) and WatchlistRepository.save                   *)
(* (watchlist/repository.py), as several requests run it concurrently      *)
(* against one PostgreSQL database in READ COMMITTED.                      *)
(*                                                                         *)
(* A request is one call of run(): the scheduler's or an administrator's.  *)
(* It creates at most one row of watchlist_pipeline_executions, so the row *)
(* is named by the request: execution[r].  Every step between two awaits   *)
(* that touch the database is one action.                                  *)
(***************************************************************************)
EXTENDS Naturals

CONSTANTS
  Requests,   \* calls of run()
  Dates,      \* trading dates that are asked for
  Weekends,   \* the dates d of Dates with d.weekday() >= 5
  MaxItems,   \* screening_config.maximum_candidates
  Overrun,    \* may a live run outlive WATCHLIST_PIPELINE_STALE_AFTER_SECONDS?
  Nobody      \* not a request: an empty query result, a free lock

ASSUME RequestsAssumption == Nobody \notin Requests
ASSUME DatesAssumption    == Weekends \subseteq Dates
ASSUME ItemsAssumption    == MaxItems \in Nat
ASSUME OverrunAssumption  == Overrun \in BOOLEAN

VARIABLES
  pc,         \* where run() stands, per request
  arg,        \* its arguments: target date and force_reanalysis
  stage,      \* its local variable stage
  seen,       \* what acquire() has read: the running and the succeeded row
  work,       \* its intermediate results: inputs, ranked
  loaded,     \* error_code of the row when finish() loaded it
  snapshot,   \* watchlist rows the DELETE of save() sees
  result,     \* what run() returned
  execution,  \* table watchlist_pipeline_executions
  watchlist,  \* table watchlist_entries: the committed rows of each date
  advisory,   \* holder of pg_advisory_xact_lock(1001, date)
  bars,       \* the dates with at least one stored daily bar
  inserted    \* number of executions inserted so far

requestVars == <<pc, arg, stage, seen, work, loaded, snapshot, result>>
vars == <<pc, arg, stage, seen, work, loaded, snapshot, result,
          execution, watchlist, advisory, bars, inserted>>

----------------------------------------------------------------------------
\* PipelineStage, without the two values a row can never hold.
DuplicateCheck == "duplicate_check"
MarketSync     == "market_sync"
Indicators     == "indicator_calculation"
Screening      == "screening"
Scanning       == "candidate_scanning"
Ranking        == "candidate_ranking"
Persistence    == "watchlist_persistence"
Completed      == "completed"

WorkStages == {MarketSync, Indicators, Screening, Scanning, Ranking}
Stages     == WorkStages \cup {DuplicateCheck, Persistence, Completed}

NextStage ==
  [s \in WorkStages |->
     CASE s = MarketSync -> Indicators
       [] s = Indicators -> Screening
       [] s = Screening  -> Scanning
       [] s = Scanning   -> Ranking
       [] s = Ranking    -> Persistence]

\* ExecutionStatus of a row; "absent" before the row is inserted.
Statuses == {"absent", "running", "succeeded", "failed"}

\* error_code: none, the recovery's, or the failing stage's f"{stage}_failed".
Errors == {"none", "stale_execution_recovered"} \cup Stages

Results == {"none", "weekend", "already_running", "already_completed",
            "prior_success_required", "succeeded", "failed"}

AcquirePcs == {"read_running", "read_succeeded", "decide"}
InTxnPcs   == {"flushed", "deleting", "written"}
OwnerPcs   == {"stage", "work", "persist", "loaded", "failing"} \cup InTxnPcs
EndPcs     == {"done", "crashed"}
Pcs        == {"idle", "await_lock"} \cup AcquirePcs \cup OwnerPcs \cup EndPcs

\* A stored watchlist item: the execution that wrote it and its rank.  The
\* unique constraints on (date, symbol) and (date, rank) make any two
\* non-empty lists for one date collide at rank 1.
Items == [by: Requests, rank: 1..MaxItems]
ItemsOf(r, n) == {[by |-> r, rank |-> i] : i \in 1..n}

NoExecution ==
  [status |-> "absent", stage |-> DuplicateCheck, error |-> "none",
   started |-> 0, stale |-> FALSE, screened |-> FALSE, persisted |-> 0]

ExecutionRows ==
  [status: Statuses, stage: Stages, error: Errors, started: Nat,
   stale: BOOLEAN, screened: BOOLEAN, persisted: 0..MaxItems]

TypeOK ==
  /\ pc \in [Requests -> Pcs]
  /\ arg \in [Requests -> [date: Dates, force: BOOLEAN]]
  /\ stage \in [Requests -> WorkStages \cup {Persistence}]
  /\ seen \in [Requests -> [running: Requests \cup {Nobody},
                            succeeded: Requests \cup {Nobody}]]
  /\ work \in [Requests -> [screened: BOOLEAN, ranked: 0..MaxItems]]
  /\ loaded \in [Requests -> Errors]
  /\ snapshot \in [Requests -> SUBSET Items]
  /\ result \in [Requests -> Results]
  /\ execution \in [Requests -> ExecutionRows]
  /\ watchlist \in [Dates -> SUBSET Items]
  /\ advisory \in [Dates -> Requests \cup {Nobody}]
  /\ bars \in SUBSET Dates
  /\ inserted \in Nat

Init ==
  /\ pc = [r \in Requests |-> "idle"]
  /\ arg \in [Requests -> [date: Dates, force: BOOLEAN]]
  /\ stage = [r \in Requests |-> MarketSync]
  /\ seen = [r \in Requests |-> [running |-> Nobody, succeeded |-> Nobody]]
  /\ work = [r \in Requests |-> [screened |-> FALSE, ranked |-> 0]]
  /\ loaded = [r \in Requests |-> "none"]
  /\ snapshot = [r \in Requests |-> {}]
  /\ result = [r \in Requests |-> "none"]
  /\ execution = [r \in Requests |-> NoExecution]
  /\ watchlist = [d \in Dates |-> {}]
  /\ advisory = [d \in Dates |-> Nobody]
  /\ bars = {}
  /\ inserted = 0

----------------------------------------------------------------------------
\* Queries.

Rows(d, s) == {q \in Requests : execution[q].status = s /\ arg[q].date = d}

\* ORDER BY started_at DESC: the first row, or None.
Newest(S) == {q \in S : \A p \in S : execution[p].started <= execution[q].started}
FirstRow(S) == IF S = {} THEN {Nobody} ELSE Newest(S)

latest_succeeded(d) == FirstRow(Rows(d, "succeeded"))

\* r's persistence transaction holds the lock of its own execution row.
RowLocked(q) == pc[q] \in InTxnPcs

Goto(r, to) == pc' = [pc EXCEPT ![r] = to]

Return(r, outcome) ==
  /\ Goto(r, "done")
  /\ result' = [result EXCEPT ![r] = outcome]

ReleaseAdvisory(d) == advisory' = [advisory EXCEPT ![d] = Nobody]

----------------------------------------------------------------------------
\* run() up to acquire(), and acquire() itself.

\* A weekend returns before the database is touched.
SkipWeekend(r) ==
  /\ pc[r] = "idle"
  /\ arg[r].date \in Weekends
  /\ Return(r, "weekend")
  /\ UNCHANGED <<arg, stage, seen, work, loaded, snapshot, execution,
                 watchlist, advisory, bars, inserted>>

Submit(r) ==
  /\ pc[r] = "idle"
  /\ arg[r].date \notin Weekends
  /\ Goto(r, "await_lock")
  /\ UNCHANGED <<arg, stage, seen, work, loaded, snapshot, result, execution,
                 watchlist, advisory, bars, inserted>>

\* Mutant: the date is read without pg_advisory_xact_lock.
LockDateUnlocked(r) ==
  /\ pc[r] = "await_lock"
  /\ Goto(r, "read_running")
  /\ UNCHANGED <<arg, stage, seen, work, loaded, snapshot, result, execution,
                 watchlist, advisory, bars, inserted>>

LockDate(r) ==
  /\ pc[r] = "await_lock"
  /\ advisory[arg[r].date] = Nobody
  /\ advisory' = [advisory EXCEPT ![arg[r].date] = r]
  /\ Goto(r, "read_running")
  /\ UNCHANGED <<arg, stage, seen, work, loaded, snapshot, result, execution,
                 watchlist, bars, inserted>>

ReadRunning(r) ==
  /\ pc[r] = "read_running"
  /\ \E q \in FirstRow(Rows(arg[r].date, "running")) :
       seen' = [seen EXCEPT ![r].running = q]
  /\ Goto(r, "read_succeeded")
  /\ UNCHANGED <<arg, stage, work, loaded, snapshot, result, execution,
                 watchlist, advisory, bars, inserted>>

ReadSucceeded(r) ==
  /\ pc[r] = "read_succeeded"
  /\ \E q \in latest_succeeded(arg[r].date) :
       seen' = [seen EXCEPT ![r].succeeded = q]
  /\ Goto(r, "decide")
  /\ UNCHANGED <<arg, stage, work, loaded, snapshot, result, execution,
                 watchlist, advisory, bars, inserted>>

\* Mutant: any running row counts.
SeesAnyRunning(r) == seen[r].running # Nobody

\* The running row's started_at is older than now - stale_after_seconds.
SeesStale(r) == seen[r].running # Nobody /\ execution[seen[r].running].stale
SeesLive(r)  == seen[r].running # Nobody /\ ~execution[seen[r].running].stale

\* Mutant: an ordinary run is not refused after a success.
RefusalOfForced(r) ==
  IF arg[r].force /\ seen[r].succeeded = Nobody THEN "prior_success_required"
  ELSE "none"

\* A forced run needs an earlier success, an ordinary one needs none.
Refusal(r) ==
  IF arg[r].force /\ seen[r].succeeded = Nobody THEN "prior_success_required"
  ELSE IF ~arg[r].force /\ seen[r].succeeded # Nobody THEN "already_completed"
  ELSE "none"

\* The UPDATE that marks the stale row; it waits for the row's lock and then
\* applies whatever the row has become.
Recovered(ex, q) ==
  [ex EXCEPT ![q].status = "failed", ![q].error = "stale_execution_recovered"]

\* acquire() without a running row, when nothing is to be run: rollback.
RefuseIdle(r) ==
  /\ pc[r] = "decide"
  /\ seen[r].running = Nobody
  /\ Refusal(r) # "none"
  /\ Return(r, Refusal(r))
  /\ ReleaseAdvisory(arg[r].date)
  /\ UNCHANGED <<arg, stage, seen, work, loaded, snapshot, execution,
                 watchlist, bars, inserted>>

RefuseRunning(r) ==
  /\ pc[r] = "decide"
  /\ SeesLive(r)
  /\ Return(r, "already_running")
  /\ ReleaseAdvisory(arg[r].date)
  /\ UNCHANGED <<arg, stage, seen, work, loaded, snapshot, execution,
                 watchlist, bars, inserted>>

\* The stale row is marked, and the request is refused all the same: commit.
RecoverOnly(r) ==
  /\ pc[r] = "decide"
  /\ SeesStale(r)
  /\ ~RowLocked(seen[r].running)
  /\ Refusal(r) # "none"
  /\ execution' = Recovered(execution, seen[r].running)
  /\ Return(r, Refusal(r))
  /\ ReleaseAdvisory(arg[r].date)
  /\ UNCHANGED <<arg, stage, seen, work, loaded, snapshot, watchlist, bars,
                 inserted>>

\* The request becomes the date's owner: the stale row, if any, is marked and
\* a running row inserted, in one commit that also frees the advisory lock.
Acquire(r) ==
  LET after == IF SeesStale(r) THEN Recovered(execution, seen[r].running)
               ELSE execution
  IN
  /\ pc[r] = "decide"
  /\ \/ seen[r].running = Nobody
     \/ SeesStale(r) /\ ~RowLocked(seen[r].running)
  /\ Refusal(r) = "none"
  /\ inserted' = inserted + 1
  /\ execution' = [after EXCEPT ![r] =
                     [NoExecution EXCEPT !.status = "running",
                                         !.started = inserted + 1]]
  /\ stage' = [stage EXCEPT ![r] = IF arg[r].force THEN Indicators
                                   ELSE MarketSync]
  /\ Goto(r, "stage")
  /\ ReleaseAdvisory(arg[r].date)
  /\ UNCHANGED <<arg, seen, work, loaded, snapshot, result, watchlist, bars>>

----------------------------------------------------------------------------
\* The stages.

\* set_stage(): writes the stage to the row whatever the row's status is.
SetStage(r) ==
  /\ pc[r] = "stage"
  /\ execution' = [execution EXCEPT ![r].stage = stage[r]]
  /\ Goto(r, IF stage[r] = Persistence THEN "persist" ELSE "work")
  /\ UNCHANGED <<arg, stage, seen, work, loaded, snapshot, result, watchlist,
                 advisory, bars, inserted>>

\* The work of a stage has ended without an exception; run() moves on.
Advance(r) ==
  /\ pc[r] = "work"
  /\ stage' = [stage EXCEPT ![r] = NextStage[stage[r]]]
  /\ Goto(r, "stage")
  /\ UNCHANGED <<arg, seen, loaded, snapshot, result, execution, watchlist,
                 advisory, inserted>>

\* sync.all(): commits whatever bars the provider has, batch by batch.
Sync(r) ==
  /\ stage[r] = MarketSync
  /\ Advance(r)
  /\ \E S \in SUBSET Dates : bars' = bars \cup S
  /\ UNCHANGED work

\* _inputs(): the symbols that have a bar on the target date.
Inputs(r) ==
  /\ stage[r] = Indicators
  /\ Advance(r)
  /\ work' = [work EXCEPT ![r].screened = arg[r].date \in bars]
  /\ UNCHANGED bars

\* The screening and scanning stages compute from the inputs alone.
Scan(r) ==
  /\ stage[r] \in {Screening, Scanning}
  /\ Advance(r)
  /\ UNCHANGED <<work, bars>>

\* Mutant: the cut keeps maximum_candidates + 1.
RankOneMore(r) ==
  /\ stage[r] = Ranking
  /\ Advance(r)
  /\ \E n \in 0..(MaxItems + 1) : work' = [work EXCEPT ![r].ranked = n]
  /\ UNCHANGED bars

\* rank(), the score threshold and the cut at maximum_candidates.
Rank(r) ==
  /\ stage[r] = Ranking
  /\ Advance(r)
  /\ \E n \in 0..MaxItems :
       /\ ~work[r].screened => n = 0
       /\ work' = [work EXCEPT ![r].ranked = n]
  /\ UNCHANGED bars

\* An exception in set_stage() or in a stage's work.  A sync that fails has
\* already committed its earlier batches.
Raise(r) ==
  /\ pc[r] \in {"stage", "work", "persist"}
  /\ Goto(r, "failing")
  /\ \E S \in SUBSET Dates :
       /\ S # {} => pc[r] = "work" /\ stage[r] = MarketSync
       /\ bars' = bars \cup S
  /\ UNCHANGED <<arg, stage, seen, work, loaded, snapshot, result, execution,
                 watchlist, advisory, inserted>>

----------------------------------------------------------------------------
\* The persistence transaction: finish(commit=False), save(), commit.

\* finish() loads the row.
LoadRow(r) ==
  /\ pc[r] = "persist"
  /\ loaded' = [loaded EXCEPT ![r] = execution[r].error]
  /\ Goto(r, "loaded")
  /\ UNCHANGED <<arg, stage, seen, work, snapshot, result, execution,
                 watchlist, advisory, bars, inserted>>

\* The flush takes the row's lock.  Nothing is visible to others yet.
FlushFinish(r) ==
  /\ pc[r] = "loaded"
  /\ Goto(r, "flushed")
  /\ UNCHANGED <<arg, stage, seen, work, loaded, snapshot, result, execution,
                 watchlist, advisory, bars, inserted>>

\* Mutant: save() inserts without deleting the previous rows.
DeleteNothing(r) ==
  /\ pc[r] = "flushed"
  /\ Goto(r, "deleting")
  /\ UNCHANGED <<arg, stage, seen, work, loaded, snapshot, result, execution,
                 watchlist, advisory, bars, inserted>>

\* save(): the DELETE statement takes its snapshot of the committed rows.
DeleteItems(r) ==
  /\ pc[r] = "flushed"
  /\ snapshot' = [snapshot EXCEPT ![r] = watchlist[arg[r].date]]
  /\ Goto(r, "deleting")
  /\ UNCHANGED <<arg, stage, seen, work, loaded, result, execution,
                 watchlist, advisory, bars, inserted>>

\* Another open transaction that has deleted or inserted rows r waits for.
SaveBlocked(r) ==
  \E q \in Requests \ {r} :
    /\ pc[q] = "written"
    /\ arg[q].date = arg[r].date
    /\ \/ snapshot[q] \cap snapshot[r] # {}
       \/ work[q].ranked > 0 /\ work[r].ranked > 0

\* Committed rows the DELETE did not see and the INSERT collides with.
SaveCollides(r) ==
  work[r].ranked > 0 /\ watchlist[arg[r].date] \ snapshot[r] # {}

InsertItems(r) ==
  /\ pc[r] = "deleting"
  /\ ~SaveBlocked(r)
  /\ ~SaveCollides(r)
  /\ Goto(r, "written")
  /\ UNCHANGED <<arg, stage, seen, work, loaded, snapshot, result, execution,
                 watchlist, advisory, bars, inserted>>

\* The unique violation: rollback, and the exception reaches run().
CollideSave(r) ==
  /\ pc[r] = "deleting"
  /\ ~SaveBlocked(r)
  /\ SaveCollides(r)
  /\ Goto(r, "failing")
  /\ snapshot' = [snapshot EXCEPT ![r] = {}]
  /\ UNCHANGED <<arg, stage, seen, work, loaded, result, execution,
                 watchlist, advisory, bars, inserted>>

\* The transaction fails for another reason: rollback likewise.
RollbackSave(r) ==
  /\ pc[r] \in {"loaded"} \cup InTxnPcs
  /\ Goto(r, "failing")
  /\ snapshot' = [snapshot EXCEPT ![r] = {}]
  /\ UNCHANGED <<arg, stage, seen, work, loaded, result, execution,
                 watchlist, advisory, bars, inserted>>

\* The row finish() wrote.  The UPDATE names only the columns that differ
\* from the loaded row, so an error_code set since then stays.
Finished(r) ==
  [execution[r] EXCEPT !.status = "succeeded", !.stage = Completed,
                       !.screened = work[r].screened,
                       !.persisted = work[r].ranked,
                       !.error = IF loaded[r] = "none" THEN @ ELSE "none"]

CommitSave(r) ==
  LET d == arg[r].date IN
  /\ pc[r] = "written"
  /\ execution' = [execution EXCEPT ![r] = Finished(r)]
  /\ watchlist' = [watchlist EXCEPT ![d] =
                     (@ \ snapshot[r]) \cup ItemsOf(r, work[r].ranked)]
  /\ snapshot' = [snapshot EXCEPT ![r] = {}]
  /\ Return(r, "succeeded")
  /\ UNCHANGED <<arg, stage, seen, work, loaded, advisory, bars, inserted>>

\* Mutant: a failed run starts over.
RetryFailure(r) ==
  /\ pc[r] = "failing"
  /\ Goto(r, "stage")
  /\ UNCHANGED <<arg, stage, seen, work, loaded, snapshot, result, execution,
                 watchlist, advisory, bars, inserted>>

\* The except branch: finish(FAILED) in a fresh session.
RecordFailure(r) ==
  /\ pc[r] = "failing"
  /\ execution' = [execution EXCEPT ![r] = [@ EXCEPT !.status = "failed",
                                                     !.stage = stage[r],
                                                     !.error = stage[r]]]
  /\ Return(r, "failed")
  /\ UNCHANGED <<arg, stage, seen, work, loaded, snapshot, watchlist,
                 advisory, bars, inserted>>

----------------------------------------------------------------------------
\* The environment.

\* The process dies or the task is cancelled (CancelledError passes the
\* except clause); so does a finish(FAILED) that fails itself.  PostgreSQL
\* rolls the open transaction back and frees its locks.
Crash(r) ==
  /\ pc[r] \notin {"idle"} \cup EndPcs
  /\ Goto(r, "crashed")
  /\ advisory' = [d \in Dates |-> IF advisory[d] = r THEN Nobody
                                  ELSE advisory[d]]
  /\ snapshot' = [snapshot EXCEPT ![r] = {}]
  /\ UNCHANGED <<arg, stage, seen, work, loaded, result, execution,
                 watchlist, bars, inserted>>

\* stale_after_seconds have passed since started_at.  Without Overrun the
\* timeout is long enough for every run that is still alive.
Expire(r) ==
  /\ execution[r].status = "running"
  /\ ~execution[r].stale
  /\ Overrun \/ pc[r] = "crashed"
  /\ execution' = [execution EXCEPT ![r].stale = TRUE]
  /\ UNCHANGED <<requestVars, watchlist, advisory, bars, inserted>>

Ended ==
  /\ \A r \in Requests : pc[r] \in EndPcs
  /\ UNCHANGED vars

RunStep(r) ==
  \/ SkipWeekend(r) \/ Submit(r) \/ LockDate(r)
  \/ ReadRunning(r) \/ ReadSucceeded(r)
  \/ RefuseIdle(r) \/ RefuseRunning(r) \/ RecoverOnly(r) \/ Acquire(r)
  \/ SetStage(r) \/ Sync(r) \/ Inputs(r) \/ Scan(r) \/ Rank(r)
  \/ LoadRow(r) \/ FlushFinish(r) \/ DeleteItems(r) \/ InsertItems(r)
  \/ CollideSave(r) \/ CommitSave(r) \/ RecordFailure(r)

Next ==
  \/ \E r \in Requests : RunStep(r) \/ Raise(r) \/ RollbackSave(r)
                         \/ Crash(r) \/ Expire(r)
  \/ Ended

Spec == Init /\ [][Next]_vars

\* The event loop resumes every coroutine whose await is answered; a fault
\* (Raise, RollbackSave, Crash, Expire) is never owed.
Fairness == \A r \in Requests : WF_vars(RunStep(r))

FairSpec == Spec /\ Fairness

----------------------------------------------------------------------------
(***************************************************************************)
(* Safety.                                                                 *)
(***************************************************************************)

\* The advisory lock makes acquire() atomic per date: the unique index on
\* running rows (migration 0008) never has to refuse an INSERT, even when a
\* stale owner is still at work.
OneRunningPerDate ==
  \A p, q \in Requests :
    /\ execution[p].status = "running"
    /\ execution[q].status = "running"
    /\ arg[p].date = arg[q].date
    => p = q

\* At most one request works on a date at any time.
OneOwner ==
  \A p, q \in Requests :
    pc[p] \in OwnerPcs /\ pc[q] \in OwnerPcs /\ arg[p].date = arg[q].date
    => p = q

\* What /screener/results and /watchlist serve for a date is the output of
\* the newest successful execution of that date and of no other: a failed, a
\* crashed or a refused run leaves it as it was.
PublishedIsNewestSuccess ==
  \A d \in Dates : \A s \in latest_succeeded(d) :
    watchlist[d] = IF s = Nobody THEN {} ELSE ItemsOf(s, execution[s].persisted)

\* Only a forced reanalysis replaces a success, and it replaces only a
\* success: an ordinary run that owns or owned the date began before every
\* success but its own, a forced one after some success.
ReplacementIsForced ==
  \A r \in Requests :
    execution[r].status # "absent" =>
      LET earlier == {q \in Rows(arg[r].date, "succeeded") :
                        execution[q].started < execution[r].started}
      IN arg[r].force <=> earlier # {}

\* A row that is succeeded or failed is history: neither its owner nor a
\* recovery rewrites its outcome.
TerminalIsFinal ==
  [][\A r \in Requests :
       execution[r].status \in {"succeeded", "failed"} =>
         execution'[r] = execution[r]]_vars

\* What run() returns is what the table says: a request that was told
\* "succeeded" or "failed" finds its own row with that status.
ReportMatchesRow ==
  \A r \in Requests :
    result[r] \in {"succeeded", "failed"} => execution[r].status = result[r]

\* Every outcome is justified: a success replaced an earlier one exactly when
\* it was forced, and run() returns what its own row says.
OutcomesAreJustified == ReplacementIsForced /\ ReportMatchesRow

\* The success rows and the watchlist rows together behave as one atomic
\* cell per date: the pipeline implements WatchlistPublishing.
Publishing ==
  INSTANCE WatchlistPublishing WITH
    history <- [d \in Dates |->
                 {[by |-> q, count |-> execution[q].persisted] :
                    q \in Rows(d, "succeeded")}],
    items <- watchlist
ImplementsPublishing == Publishing!Spec

\* Documentation (docs/daily-watchlist-scheduler.md): without a bar on the
\* requested date the run is skipped, so no success has screened nothing.
NoBarIsSkipped ==
  \A r \in Requests :
    execution[r].status = "succeeded" => execution[r].screened

(***************************************************************************)
(* The inductive invariants behind them.  AcquireInv needs no assumption   *)
(* on the timeout; OwnerInv and PublishInv hold without Overrun.           *)
(***************************************************************************)

BeforePcs == {"idle", "await_lock"} \cup AcquirePcs
ReadPcs   == {"read_succeeded", "decide"}

\* Whoever is inside acquire() holds its date's lock and has no row yet; the
\* running row it has read is the date's only one, and is a row of the date.
LockHeld == \A r \in Requests : pc[r] \in AcquirePcs => advisory[arg[r].date] = r

NoRowYet == \A r \in Requests : pc[r] \in BeforePcs => execution[r].status = "absent"

ReadsTheRunningRow ==
  \A r, q \in Requests :
    /\ pc[r] \in ReadPcs
    /\ execution[q].status = "running"
    /\ arg[q].date = arg[r].date
    => q = seen[r].running

ReadsOfItsDate ==
  \A r \in Requests :
    pc[r] \in ReadPcs /\ seen[r].running # Nobody =>
      /\ arg[seen[r].running].date = arg[r].date
      /\ execution[seen[r].running].status # "absent"

AcquireInv ==
  LockHeld /\ NoRowYet /\ ReadsTheRunningRow /\ ReadsOfItsDate /\ OneRunningPerDate

\* A run at work still has its running, fresh row; a stale row's run is dead,
\* and a stale row that acquire() has read is still running.
OwnerHasFreshRow ==
  \A r \in Requests :
    pc[r] \in OwnerPcs => execution[r].status = "running" /\ ~execution[r].stale

StaleIsDead == \A r \in Requests : execution[r].stale => pc[r] = "crashed"

SeenStaleIsRunning ==
  \A r \in Requests :
    pc[r] \in ReadPcs /\ SeesStale(r) =>
      execution[seen[r].running].status = "running"

OwnerInv == OwnerHasFreshRow /\ StaleIsDead /\ SeenStaleIsRunning

\* A run at work began after every success of its date and is forced exactly
\* when there is one; acquire() cannot miss a success that matters to it; an
\* open DELETE has seen the rows that are there.
InsertedBounds == \A r \in Requests : execution[r].started <= inserted

OwnerIsNewest ==
  \A r, q \in Requests :
    /\ pc[r] \in OwnerPcs
    /\ execution[q].status = "succeeded"
    /\ arg[q].date = arg[r].date
    => execution[q].started < execution[r].started

Successful(d) == \E q \in Requests : execution[q].status = "succeeded" /\ arg[q].date = d

OwnerForcedRight ==
  \A r \in Requests : pc[r] \in OwnerPcs => (arg[r].force <=> Successful(arg[r].date))

SeesSuccess ==
  \A r \in Requests :
    /\ pc[r] = "decide"
    /\ seen[r].running # Nobody => execution[seen[r].running].status = "running"
    => (seen[r].succeeded # Nobody <=> Successful(arg[r].date))

SnapshotIsCurrent ==
  \A r \in Requests :
    pc[r] \in {"deleting", "written"} => snapshot[r] = watchlist[arg[r].date]

PublishInv ==
  /\ InsertedBounds /\ OwnerIsNewest /\ OwnerForcedRight
  /\ SeesSuccess /\ SnapshotIsCurrent /\ PublishedIsNewestSuccess

(***************************************************************************)
(* Liveness.                                                               *)
(***************************************************************************)

\* Every call of run() returns unless its process dies: neither the advisory
\* lock nor the row and index locks of two transactions wait for ever.
EveryRunReturns == \A r \in Requests : <>(pc[r] \in EndPcs)

\* A row abandoned by a dead run does not block its date: once it is stale,
\* the next request for the date takes it out of running.
AbandonedIsRecovered ==
  \A q, r \in Requests :
    (/\ execution[q].status = "running" /\ execution[q].stale
     /\ pc[r] = "await_lock" /\ arg[r].date = arg[q].date)
    ~> (execution[q].status # "running" \/ pc[r] = "crashed")
=============================================================================
