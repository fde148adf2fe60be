---------------------------- MODULE BacktestPages ----------------------------
(***************************************************************************)
(* The /backtests page: the selected run (backtests-dashboard.tsx), a      *)
(* result panel over a per-run promise cache (backtest-analysis.tsx and    *)
(* analysis-cache.ts, and in the same form backtest-portfolio.tsx and      *)
(* portfolio-cache.ts), and the paged trades table                         *)
(* (backtest-trades-table.tsx).  Panel effects carry an `active' flag that *)
(* their cleanup clears; select(), created() and the table have none.      *)
(***************************************************************************)
EXTENDS Integers, FiniteSets

CONSTANTS Runs,        \* completed runs
          NoResult,    \* nothing on display
          MaxClicks    \* bound: user actions

ASSUME PanelsAssumption == NoResult \notin Runs /\ MaxClicks \in Nat

VARIABLES
  selected,      \* the run on display
  choice,        \* history: the run the user chose or created last
  details,       \* getBacktest and created() continuations in flight, by run
  results,       \* the cache's results map
  fetchMap,      \* the cache's requests map
  fetches,       \* GETs in flight per run
  waiting,       \* effect closures waiting for the cache: [run, active]
  panel,         \* the panel: [data, error]
  table,         \* the table: [run, offset] of its state
  tableLoads,    \* its requests in flight: [run, offset]
  tableRows,     \* what its rows belong to, and its state: [run, offset, state]
  clicks,        \* bound: user actions so far
  crossed,       \* history: two selections were in flight together
  tableCrossed   \* history: two loads of the table were

panelVars == <<selected, choice, details, results, fetchMap, fetches, waiting, panel, table,
               tableLoads, tableRows, clicks, crossed, tableCrossed>>

Blank == [data |-> NoResult, error |-> FALSE]

PanelsInit ==
  /\ selected = NoResult /\ choice = NoResult /\ details = {}
  /\ results = {} /\ fetchMap = {} /\ fetches = [r \in Runs |-> 0]
  /\ waiting = {} /\ panel = Blank
  /\ table = [run |-> NoResult, offset |-> 0]
  /\ tableLoads = {}
  /\ tableRows = [run |-> NoResult, offset |-> 0, state |-> "loading"]
  /\ clicks = 0 /\ crossed = FALSE /\ tableCrossed = FALSE

Deactivated == {[w EXCEPT !.active = FALSE] : w \in waiting}

\* Mutant: the map of running requests is not consulted.
LoadCachedAlwaysFetches(r) ==
  /\ fetchMap' = IF r \in results THEN fetchMap ELSE fetchMap \cup {r}
  /\ fetches' = IF r \in results THEN fetches ELSE [fetches EXCEPT ![r] = @ + 1]

\* loadBacktestAnalysis(r): a cached result, the request in flight, or a new one.
LoadCached(r) ==
  /\ fetchMap' = IF r \in results THEN fetchMap ELSE fetchMap \cup {r}
  /\ fetches' = IF r \in results \cup fetchMap THEN fetches ELSE [fetches EXCEPT ![r] = @ + 1]

\* The panel's effect on [runId, retry].
PanelEffect(r) ==
  /\ panel' = IF r \in results THEN [data |-> r, error |-> FALSE] ELSE Blank
  /\ waiting' = Deactivated \cup (IF r \in results THEN {} ELSE {[run |-> r, active |-> TRUE]})
  /\ LoadCached(r)
  /\ UNCHANGED results

\* The table's two effects on a new run: the load goes out with the old
\* offset, and once more when the reset of the offset has been rendered.
TableEffect(r) ==
  LET first == [run |-> r, offset |-> table.offset]
      again == [run |-> r, offset |-> 0]
  IN /\ table' = [run |-> r, offset |-> 0]
     /\ tableLoads' = tableLoads \cup {first} \cup (IF table.offset = 0 THEN {} ELSE {again})
     /\ tableRows' = [tableRows EXCEPT !.state = "loading"]
     /\ tableCrossed' = (tableCrossed \/ tableLoads # {} \/ table.offset # 0)

Show(r) ==
  /\ selected' = r
  /\ IF r # selected THEN PanelEffect(r) /\ TableEffect(r)
     ELSE UNCHANGED <<results, fetchMap, fetches, waiting, panel, table, tableLoads, tableRows,
                      tableCrossed>>

Click == clicks < MaxClicks /\ clicks' = clicks + 1

\* select(run): shown at once, and again when its details arrive.
SelectRun(r) ==
  /\ Click /\ Show(r)
  /\ choice' = r
  /\ details' = details \cup {r}
  /\ crossed' = (crossed \/ details # {})

\* created(run): the new run is shown when the list has been loaded again.
CreatedRun(r) ==
  /\ Click
  /\ choice' = r
  /\ details' = details \cup {r}
  /\ crossed' = (crossed \/ details # {})
  /\ UNCHANGED <<selected, results, fetchMap, fetches, waiting, panel, table, tableLoads,
                 tableRows, tableCrossed>>

DetailsArrive(r) ==
  /\ details' = details \ {r}
  /\ Show(r)
  /\ UNCHANGED <<choice, clicks, crossed>>

\* getBacktest fails for a run that is shown already: the catch is empty.
DetailsFail(r) ==
  /\ r = selected
  /\ details' = details \ {r}
  /\ UNCHANGED <<selected, choice, results, fetchMap, fetches, waiting, panel, table, tableLoads,
                 tableRows, clicks, crossed, tableCrossed>>

\* The promise of run r settles: the cache keeps a good result, forgets the
\* request, and the closures that wait for it run; an inactive one does nothing.
FetchSettles(r, ok) ==
  LET applied == \E w \in waiting : w.run = r /\ w.active
  IN /\ fetches[r] > 0
     /\ fetches' = [fetches EXCEPT ![r] = @ - 1]
     /\ fetchMap' = fetchMap \ {r}
     /\ results' = IF ok THEN results \cup {r} ELSE results
     /\ waiting' = {w \in waiting : w.run # r}
     /\ panel' = CASE ~applied -> panel
                   [] applied /\ ok -> [panel EXCEPT !.data = r]
                   [] applied /\ ~ok -> [panel EXCEPT !.error = TRUE]
     /\ UNCHANGED <<selected, choice, details, table, tableLoads, tableRows, clicks, crossed,
                    tableCrossed>>

RetryPanel ==
  /\ panel.error /\ Click
  /\ PanelEffect(selected)
  /\ UNCHANGED <<selected, choice, details, table, tableLoads, tableRows, crossed, tableCrossed>>

\* The pager of the table.
TurnPage(offset) ==
  /\ selected # NoResult /\ offset # table.offset /\ Click
  /\ table' = [table EXCEPT !.offset = offset]
  /\ tableLoads' = tableLoads \cup {[run |-> table.run, offset |-> offset]}
  /\ tableRows' = [tableRows EXCEPT !.state = "loading"]
  /\ tableCrossed' = (tableCrossed \/ tableLoads # {})
  /\ UNCHANGED <<selected, choice, details, results, fetchMap, fetches, waiting, panel, crossed>>

TableAnswer(l, ok) ==
  /\ tableLoads' = tableLoads \ {l}
  /\ tableRows' = IF ok THEN [run |-> l.run, offset |-> l.offset, state |-> "ready"]
                  ELSE [tableRows EXCEPT !.state = "error"]
  /\ UNCHANGED <<selected, choice, details, results, fetchMap, fetches, waiting, panel, table,
                 clicks, crossed, tableCrossed>>

PanelsNext ==
  \/ \E r \in Runs : SelectRun(r) \/ CreatedRun(r) \/ \E ok \in BOOLEAN : FetchSettles(r, ok)
  \/ \E r \in details : DetailsArrive(r) \/ DetailsFail(r)
  \/ RetryPanel
  \/ \E offset \in {0, 1} : TurnPage(offset)
  \/ \E l \in tableLoads : \E ok \in BOOLEAN : TableAnswer(l, ok)

------------------------------------------------------------------------------

PanelsTypeOK ==
  /\ {selected, choice, panel.data, table.run, tableRows.run} \subseteq Runs \cup {NoResult}
  /\ results \subseteq Runs /\ fetchMap \subseteq Runs
  /\ fetches \in [Runs -> Nat]
  /\ \A w \in waiting : w.run \in Runs /\ w.active \in BOOLEAN
  /\ clicks \in 0..MaxClicks

\* The panel never shows one run's analysis under another run: the answer of
\* a request that outlives its effect is ignored ("ignores a stale response
\* after the selected run changes").
PanelIsForRun == panel.data # NoResult => panel.data = selected

\* However often a run is opened, retried or left while its request is in
\* flight, there is at most one GET for it, and none once it is cached.
OneFetchPerRun ==
  \A r \in Runs : fetches[r] <= IF r \in results THEN 0 ELSE 1

\* A panel that still waits has a request to wait for, so it cannot hang.
PanelIsServed ==
  selected # NoResult /\ panel.data = NoResult /\ ~panel.error => fetches[selected] = 1

\* The run on display is the last one chosen or created, provided no two of
\* those requests overlapped: a late answer of select() selects its run again.
SelectionIsLastChoice == details = {} /\ ~crossed => selected = choice

\* The rows of the table are the page the pager names, as long as no two of
\* its loads overlapped; leaving a run on a later page always overlaps two.
RowsAreThePage ==
  tableRows.state = "ready" /\ ~tableCrossed
    => tableRows.run = table.run /\ tableRows.offset = table.offset
=============================================================================
