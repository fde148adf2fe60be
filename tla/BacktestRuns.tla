---------------------------- MODULE BacktestRuns ----------------------------
(***************************************************************************)
(* POST /backtests: validation, the run's life (pending, running,          *)
(* completed or failed), its trade and snapshot rows, all in one request   *)
(* transaction that get_db_session commits when the response has been      *)
(* built.  What the executors compute is their outcome here (their         *)
(* algorithms are TradeRules and Portfolio); what matters is which errors  *)
(* they raise and what state of the transaction they leave behind.         *)
(***************************************************************************)
EXTENDS FiniteSets

CONSTANTS Posts   \* POST /backtests requests; each creates at most one run

VARIABLES
  stored,   \* committed backtest_runs with their rows, by request
  post      \* per request: its transaction, its progress, and what broke

runVars == <<stored, post>>

Modes == {"independent", "portfolio"}
FieldChoices == Modes \cup {"unset"}            \* request.execution_mode
KeyChoices == Modes \cup {"unset", "other"}     \* parameters["execution_mode"]
Failures == {"INVALID_PARAMETERS", "DUPLICATE_DAILY_BAR", "EXECUTION_FAILED"}

\* A run as its row shows it, and the child rows of the transaction.
NoRow == [status |-> "none", mode |-> "independent", result |-> "none", failure |-> "none",
          trades |-> FALSE, snapshots |-> FALSE]
Fresh == [step |-> "new", row |-> NoRow, sized |-> FALSE, failure |-> "none",
          poisoned |-> FALSE, broken |-> "none", end |-> "open"]

RunsInit ==
  /\ stored = [p \in {} |-> NoRow]
  /\ post = [p \in Posts |-> Fresh]

\* BacktestCreateRequest: the mode it validates under, and whether the
\* parameters suit it.  `sized' says that the portfolio parameters are there.
SchemaAccepts(field, sized, valid) ==
  /\ valid
  /\ sized <=> field = "portfolio"

\* create_backtest: the field wins only when the request states it; otherwise
\* the parameters may name a mode of their own.
StoredMode(field, key) ==
  CASE field # "unset" -> field
    [] field = "unset" /\ key # "unset" -> key
    [] OTHER -> "independent"

\* A request is refused with 422, or its run is created: pending and saved.
CreateRun(p, field, key, sized, valid, rangeOk) ==
  /\ post[p].step = "new"
  /\ post' = [post EXCEPT ![p] =
       IF SchemaAccepts(field, sized, valid) /\ rangeOk
       THEN [Fresh EXCEPT !.step = "pending", !.sized = sized,
                          !.row = [NoRow EXCEPT !.status = "pending",
                                                !.mode = StoredMode(field, key)]]
       ELSE [Fresh EXCEPT !.step = "over", !.end = "422"]]
  /\ UNCHANGED stored

\* run.start() and save(running).
StartRun(p) ==
  /\ post[p].step = "pending" /\ post[p].row.status = "pending"
  /\ post' = [post EXCEPT ![p].step = "running", ![p].row.status = "running"]
  /\ UNCHANGED stored

\* The executor gives up before it has rows: the mode does not fit its
\* parameters, the data does not, or a SELECT fails and takes the transaction
\* with it.
RejectedParameters(t) ==
  t.row.mode \notin Modes \/ (t.row.mode = "portfolio" /\ ~t.sized)

ExecuteFails(p, failure, database) ==
  LET t == post[p]
  IN /\ t.step = "running"
     /\ IF RejectedParameters(t) THEN failure = "INVALID_PARAMETERS" /\ ~database
        ELSE failure \in {"DUPLICATE_DAILY_BAR", "EXECUTION_FAILED"}
     /\ database => failure = "EXECUTION_FAILED"
     /\ post' = [post EXCEPT ![p].step = "failing", ![p].failure = failure,
                             ![p].poisoned = database,
                             ![p].broken = IF database THEN "read" ELSE "none"]
     /\ UNCHANGED stored

\* The rows are flushed: inside a savepoint in independent mode, directly in
\* portfolio mode.
StoreRows(p) ==
  LET t == post[p]
  IN /\ t.step = "running" /\ ~RejectedParameters(t)
     /\ post' = [post EXCEPT ![p].step = "executed", ![p].row.trades = TRUE,
                             ![p].row.snapshots = (t.row.mode = "portfolio")]
     /\ UNCHANGED stored

\* Mutant: rows that were flushed before the error stay.
StoreRowsFailsPartly(p) ==
  LET t == post[p]
  IN /\ t.step = "running" /\ ~RejectedParameters(t)
     /\ post' = [post EXCEPT ![p].step = "failing", ![p].failure = "EXECUTION_FAILED",
                             ![p].row.trades = TRUE,
                             ![p].poisoned = (t.row.mode = "portfolio"), ![p].broken = "flush"]
     /\ UNCHANGED stored

StoreRowsFails(p) ==
  LET t == post[p]
  IN /\ t.step = "running" /\ ~RejectedParameters(t)
     /\ post' = [post EXCEPT ![p].step = "failing", ![p].failure = "EXECUTION_FAILED",
                             ![p].poisoned = (t.row.mode = "portfolio"), ![p].broken = "flush"]
     /\ UNCHANGED stored

\* calculate_metrics raises after the savepoint is released, as quantize does
\* on a capital that its precision cannot hold; the portfolio executor has
\* quantized everything before its flush.
MetricsFail(p) ==
  /\ post[p].step = "executed" /\ post[p].row.mode = "independent"
  /\ post' = [post EXCEPT ![p].step = "failing", ![p].failure = "EXECUTION_FAILED",
                          ![p].broken = "metrics"]
  /\ UNCHANGED stored

\* running.complete(metrics) and save.
CompleteRun(p) ==
  /\ post[p].step = "executed"
  /\ post' = [post EXCEPT ![p].step = "respond", ![p].row.status = "completed",
                          ![p].row.result = post[p].row.mode]
  /\ UNCHANGED stored

\* running.fail(...) and save, which raises on a transaction that is lost.
FailRun(p) ==
  /\ post[p].step = "failing"
  /\ post' = IF post[p].poisoned
       THEN [post EXCEPT ![p].step = "over", ![p].end = "500"]
       ELSE [post EXCEPT ![p].step = "respond", ![p].row.status = "failed",
                         ![p].row.failure = post[p].failure]
  /\ UNCHANGED stored

\* BacktestResponse is built from the run, which reads execution_mode; then
\* the request's transaction is committed.
Readable(row) == row.mode \in Modes

Respond(p) ==
  /\ post[p].step = "respond"
  /\ IF Readable(post[p].row)
     THEN /\ stored' = [q \in DOMAIN stored \cup {p} |-> IF q = p THEN post[p].row ELSE stored[q]]
          /\ post' = [post EXCEPT ![p].step = "over", ![p].end = "201"]
     ELSE /\ post' = [post EXCEPT ![p].step = "over", ![p].end = "500"]
          /\ UNCHANGED stored

\* The process dies, the client leaves, or the commit fails: the transaction
\* is rolled back.
AbortRun(p) ==
  /\ post[p].step \notin {"new", "over"}
  /\ post' = [post EXCEPT ![p].step = "over", ![p].end = "aborted"]
  /\ UNCHANGED stored

RunsNext ==
  \E p \in Posts :
    \/ \E field \in FieldChoices, key \in KeyChoices, sized, valid, rangeOk \in BOOLEAN :
          CreateRun(p, field, key, sized, valid, rangeOk)
    \/ StartRun(p)
    \/ \E failure \in Failures, database \in BOOLEAN : ExecuteFails(p, failure, database)
    \/ StoreRows(p) \/ StoreRowsFails(p) \/ MetricsFail(p) \/ CompleteRun(p) \/ FailRun(p)
    \/ Respond(p) \/ AbortRun(p)

------------------------------------------------------------------------------
\* The read endpoints, on the committed rows.

\* list(): every row is turned into a response.
ListAnswer == IF \A p \in DOMAIN stored : Readable(stored[p]) THEN "200" ELSE "500"

\* analyze(run_id): completed runs only, over the stored trades.
AnalyzeAnswer(p) ==
  IF p \notin DOMAIN stored THEN "404"
  ELSE IF stored[p].status # "completed" THEN "409" ELSE "200"

\* portfolio(run_id): completed portfolio runs with the metrics of that mode.
PortfolioAnswer(p) ==
  IF p \notin DOMAIN stored THEN "404"
  ELSE IF stored[p].status # "completed" \/ stored[p].mode # "portfolio"
            \/ stored[p].result # "portfolio"
       THEN "409" ELSE "200"

------------------------------------------------------------------------------

RunRow == [status: {"none", "pending", "running", "completed", "failed"},
           mode: Modes \cup {"other"}, result: Modes \cup {"none", "other"},
           failure: Failures \cup {"none"}, trades: BOOLEAN, snapshots: BOOLEAN]

RunsTypeOK ==
  /\ DOMAIN stored \subseteq Posts /\ \A p \in DOMAIN stored : stored[p] \in RunRow
  /\ post \in [Posts -> [step: {"new", "pending", "running", "executed", "failing", "respond", "over"},
                         row: RunRow, sized: BOOLEAN, failure: Failures \cup {"none"},
                         poisoned: BOOLEAN, broken: {"none", "read", "flush", "metrics"},
                         end: {"open", "201", "422", "500", "aborted"}]]

\* No reader ever sees half a run: whatever fails or dies in between, a stored
\* run is completed with its result and every row of its mode, or failed with
\* a code, without a result and without rows; trades stay on a failed run only
\* when its metrics could not be computed after the savepoint.
StoredRunsAreWhole ==
  \A p \in DOMAIN stored :
    LET r == stored[p]
    IN \/ /\ r.status = "completed" /\ r.result = r.mode /\ r.failure = "none"
          /\ r.trades /\ r.snapshots = (r.mode = "portfolio")
       \/ /\ r.status = "failed" /\ r.result = "none" /\ r.failure # "none"
          /\ r.trades = (post[p].broken = "metrics") /\ ~r.snapshots

\* In independent mode a failing execution is always recorded on the run, a
\* flush error included, because the savepoint keeps the transaction usable
\* ("recorded on the already-created run instead of poisoning the outer
\* transaction").  A request ends in a 500 only when a SELECT failed, when the
\* portfolio executor's flush did, or when the mode cannot be read back.
FailuresAreRecorded ==
  \A p \in Posts : post[p].end = "500" =>
    \/ ~Readable(post[p].row)
    \/ post[p].broken = "read"
    \/ post[p].broken = "flush" /\ post[p].row.mode = "portfolio"

\* A mode that only the parameters name escapes the schema, but the row it
\* would leave is never committed: listing the runs cannot fail on it, and
\* each endpoint that answers 200 has the rows it needs.
StoredRunsAreServed ==
  /\ ListAnswer = "200"
  /\ \A p \in Posts : AnalyzeAnswer(p) = "200" => stored[p].trades
  /\ \A p \in Posts : PortfolioAnswer(p) = "200" => stored[p].snapshots
  /\ \A p \in Posts : post[p].end = "201" => p \in DOMAIN stored

\* A committed run is sound: its rows and its status belong together, a failure
\* is recorded with its cause, and every endpoint can serve it.
StoredRunsAreSound == StoredRunsAreWhole /\ FailuresAreRecorded /\ StoredRunsAreServed
=============================================================================
