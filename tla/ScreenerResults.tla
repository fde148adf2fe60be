-------------------------- MODULE ScreenerResults --------------------------
(***************************************************************************)
(* The read side of the watchlist: GET /screener/results/{date} and the    *)
(* /watchlist endpoints over the tables that the pipeline writes.          *)
(*                                                                         *)
(* A reader runs its SELECTs one by one at READ COMMITTED, so executions   *)
(* may start and publications may commit between two of them.  Readers do  *)
(* not disturb each other; one request at a time is enough.  Watchlist     *)
(* rows older than the executions table ("legacy") may be present.         *)
(***************************************************************************)
EXTENDS Integers, FiniteSets, FiniteSetsExt

CONSTANTS Dates,            \* trading dates, integers in calendar order
          MaxPublications   \* bound: publishing transactions

ASSUME ResultsAssumption ==
  /\ Dates \subseteq Nat \ {0} /\ Dates # {} /\ IsFiniteSet(Dates)
  /\ MaxPublications \in Nat

VARIABLES
  succeeded,     \* per date: the newest succeeded execution, 0 when there is none
  entries,       \* per date: the stored rows [by |-> execution, full |-> some exist]
  anyExecution,  \* watchlist_pipeline_executions holds a row
  published,     \* number of publications so far; their execution ids
  read,          \* the request being served, and what it has read
  before         \* history: the tables when the request arrived

resultsVars == <<succeeded, entries, anyExecution, published, read, before>>

NoDate == 0
Nothing == [by |-> 0, full |-> FALSE]
Endpoints == {"results", "by_date", "latest", "history", "by_symbol"}
Steps == {"execution", "entries", "success", "anyRow", "legacy", "done"}
Idle == [op |-> "none", date |-> NoDate, step |-> "done", execution |-> 0,
         items |-> Nothing, dates |-> {}, status |-> 0]
Snapshot == [succeeded |-> succeeded, entries |-> entries, any |-> anyExecution]

ResultsInit ==
  /\ succeeded = [d \in Dates |-> 0]
  /\ entries \in [Dates -> {Nothing, [by |-> 0, full |-> TRUE]}]
  /\ anyExecution = FALSE
  /\ published = 0
  /\ read = Idle
  /\ before = Snapshot

\* The pipeline commits its running row.
StartExecution ==
  /\ ~anyExecution
  /\ anyExecution' = TRUE
  /\ UNCHANGED <<succeeded, entries, published, read, before>>

\* WatchlistRepository.save and the success row, in one transaction; a result
\* without candidates leaves no rows.
PublishWatchlist(d, full) ==
  /\ anyExecution /\ published < MaxPublications
  /\ published' = published + 1
  /\ succeeded' = [succeeded EXCEPT ![d] = published + 1]
  /\ entries' = [entries EXCEPT ![d] = [by |-> published + 1, full |-> full]]
  /\ UNCHANGED <<anyExecution, read, before>>

FirstStep(op) ==
  CASE op = "results" -> "execution"
    [] op \in {"by_date", "by_symbol"} -> "entries"
    [] OTHER -> "success"

\* A request arrives; one without a date parameter has none.
Request(op, d) ==
  /\ read.step = "done"
  /\ read' = [Idle EXCEPT !.op = op, !.step = FirstStep(op),
                          !.date = IF op \in {"latest", "history"} THEN NoDate ELSE d]
  /\ before' = Snapshot
  /\ UNCHANGED <<succeeded, entries, anyExecution, published>>

Goto(step) == read' = [read EXCEPT !.step = step]
Answer(status) == read' = [read EXCEPT !.step = "done", !.status = status]
OnlyReads == UNCHANGED <<succeeded, entries, anyExecution, published, before>>

\* results(): latest_succeeded(date); without one the date must exist().
ReadExecution ==
  /\ read.step = "execution"
  /\ read' = [read EXCEPT !.execution = succeeded[read.date],
                          !.step = IF succeeded[read.date] # 0 THEN "entries" ELSE "success"]
  /\ OnlyReads

\* Mutant: exists() asks for stored rows, which an empty result does not have.
ReadSuccessWithRows ==
  LET found == {d \in Dates : succeeded[d] # 0 /\ entries[d].full}
      mine  == IF read.date = NoDate THEN found ELSE found \cap {read.date}
  IN /\ read.step = "success"
     /\ IF mine = {} THEN Goto("anyRow")
        ELSE CASE read.op = "results" -> Goto("entries")
               [] read.op = "by_date" -> Answer(200)
               [] read.op = "latest" -> read' = [read EXCEPT !.date = Max(mine), !.step = "entries"]
               [] read.op = "history" ->
                    read' = [read EXCEPT !.dates = mine, !.step = "done", !.status = 200]
     /\ OnlyReads

\* The dates with a success, as exists(), latest() and history() ask for them.
ReadSuccess ==
  LET found == {d \in Dates : succeeded[d] # 0}
      mine  == IF read.date = NoDate THEN found ELSE found \cap {read.date}
  IN /\ read.step = "success"
     /\ IF mine = {} THEN Goto("anyRow")
        ELSE CASE read.op = "results" -> Goto("entries")
               [] read.op = "by_date" -> Answer(200)
               [] read.op = "latest" -> read' = [read EXCEPT !.date = Max(mine), !.step = "entries"]
               [] read.op = "history" ->
                    read' = [read EXCEPT !.dates = mine, !.step = "done", !.status = 200]
     /\ OnlyReads

\* _has_any_execution(): once the pipeline has run, legacy rows do not count.
ReadAnyRow ==
  /\ read.step = "anyRow"
  /\ IF ~anyExecution THEN Goto("legacy")
     ELSE Answer(IF read.op \in {"latest", "history"} THEN 200 ELSE 404)
  /\ OnlyReads

\* The dates of the stored rows, whoever wrote them.
ReadLegacy ==
  LET found == {d \in Dates : entries[d].full}
      mine  == IF read.date = NoDate THEN found ELSE found \cap {read.date}
  IN /\ read.step = "legacy"
     /\ CASE read.op = "history" ->
               read' = [read EXCEPT !.dates = mine, !.step = "done", !.status = 200]
          [] mine = {} /\ read.op # "history" -> Answer(IF read.op = "latest" THEN 200 ELSE 404)
          [] mine # {} /\ read.op = "by_date" -> Answer(200)
          [] mine # {} /\ read.op = "results" -> Goto("entries")
          [] mine # {} /\ read.op = "latest" ->
               read' = [read EXCEPT !.date = Max(mine), !.step = "entries"]
     /\ OnlyReads

\* list(date) or get(date, symbol); by_date asks exists() only when it is empty.
ReadEntries ==
  LET e == entries[read.date]
  IN /\ read.step = "entries"
     /\ read' = [read EXCEPT !.items = e,
                   !.step = IF read.op = "by_date" /\ ~e.full THEN "success" ELSE "done",
                   !.status = CASE read.op = "by_date" /\ ~e.full   -> 0
                                [] read.op = "by_symbol" /\ ~e.full -> 404
                                [] OTHER -> 200]
     /\ OnlyReads

ReadStep == ReadExecution \/ ReadSuccess \/ ReadAnyRow \/ ReadLegacy \/ ReadEntries

ResultsNext ==
  \/ StartExecution
  \/ \E d \in Dates : \E full \in BOOLEAN : PublishWatchlist(d, full)
  \/ \E op \in Endpoints : \E d \in Dates : Request(op, d)
  \/ ReadStep

------------------------------------------------------------------------------

ResultsTypeOK ==
  /\ succeeded \in [Dates -> 0..MaxPublications]
  /\ entries \in [Dates -> [by: 0..MaxPublications, full: BOOLEAN]]
  /\ anyExecution \in BOOLEAN
  /\ published \in 0..MaxPublications
  /\ read \in [op: Endpoints \cup {"none"}, date: Dates \cup {NoDate}, step: Steps,
               execution: 0..MaxPublications, items: [by: 0..MaxPublications, full: BOOLEAN],
               dates: SUBSET Dates, status: {0, 200, 404}]

Answered == read.step = "done" /\ read.op # "none"
Undisturbed == Snapshot = before

\* The items of an answer are never older than the execution whose funnel
\* stands next to them, nor than the newest success of their date when the
\* request arrived: a publication that commits between two SELECTs of
\* results(), latest() or by_date() can only make the items newer.
ItemsAreNotOlder ==
  Answered /\ read.status = 200 /\ read.op \in {"results", "latest", "by_date"} /\ read.date # NoDate
    => /\ read.items.by >= read.execution
       /\ read.items.by >= before.succeeded[read.date]

\* A date with a success when the request arrived is never answered with 404,
\* whatever the pipeline commits while the SELECTs of results() and by_date()
\* run ("dates without a success return 404").
PublishedDateIsFound ==
  Answered /\ read.op \in {"results", "by_date"} /\ before.succeeded[read.date] # 0
    => read.status = 200

\* A date exists for a reader when it has a success, or when no execution was
\* ever recorded and legacy rows carry it.
Visible(d) == succeeded[d] # 0 \/ (~anyExecution /\ entries[d].full)

\* When no commit falls between its SELECTs, each endpoint answers from that
\* one notion of a visible date: history lists exactly those dates, latest
\* returns the rows of the newest of them, results refuses the others, and
\* the funnel is the one of the execution that wrote the items.
UndisturbedReadsAgree ==
  Answered /\ Undisturbed =>
    CASE read.op = "history" -> read.dates = {d \in Dates : Visible(d)}
      [] read.op = "latest"  ->
           LET vis == {d \in Dates : Visible(d)}
           IN read.items = IF vis = {} THEN Nothing ELSE entries[Max(vis)]
      [] read.op = "results" ->
           IF Visible(read.date)
           THEN read.status = 200 /\ read.execution = read.items.by
           ELSE read.status = 404
      [] OTHER -> read.status = 200 => read.items = entries[read.date]

\* What the readers answer is consistent: exactly, when no commit falls between
\* their SELECTs, and otherwise never with less or older data than before.
ReadersAreConsistent == ItemsAreNotOlder /\ PublishedDateIsFound /\ UndisturbedReadsAgree
=============================================================================
