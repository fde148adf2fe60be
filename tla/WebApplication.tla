--------------------------- MODULE WebApplication ---------------------------
(***************************************************************************)
(* The request/response side of the system in one specification: the       *)
(* session endpoints with the browser's guards, the read endpoints, the    *)
(* backtest endpoint, the four pages that overlap requests, and the two    *)
(* outgoing conversations, with the data provider and the chat service.    *)
(*                                                                         *)
(* These parts share no variable: a page sees the server only through the  *)
(* answers its actions choose, and the endpoints meet the pipeline only in *)
(* the commits that ScreenerResults lets happen at any time.  A property   *)
(* of one part is therefore decided by that part's own steps, and `part'   *)
(* fixes which one moves, the others resting in an initial state.          *)
(***************************************************************************)
EXTENDS AuthSessions, ScreenerResults, ScreenerPage, AnalysisPage, WatchlistPage,
        BacktestPages, BacktestRuns, TossCharts, Notifications

VARIABLE part

webVars == <<part, authVars, resultsVars, pageVars, analysisVars, listVars, panelVars, runVars,
             chartVars, notifyVars>>

Parts == {"auth", "results", "screener", "analysis", "watchlist", "backtests", "runs", "charts",
          "notifications"}

WebInit ==
  /\ part \in Parts
  /\ AuthInit /\ ResultsInit /\ PageInit /\ AnalysisInit /\ ListInit /\ PanelsInit /\ RunsInit
  /\ ChartsInit /\ NotifyInit
  /\ part # "auth" => jar = NoToken /\ ~responseFirst
  /\ part # "results" => \A d \in Dates : ~entries[d].full
  /\ part # "screener" => served = {} /\ date = Unset
  /\ part # "watchlist" => requestedDate = Undated /\ successes = {} /\ ~executed
  /\ part # "charts" => DOMAIN listing = {}

\* A step of one part leaves the variables of the others alone.
Only(name, others) == part = name /\ UNCHANGED <<part, others>>

WebNext ==
  \/ Only("auth", <<resultsVars, pageVars, analysisVars, listVars,
                  panelVars, runVars, chartVars, notifyVars>>) /\ AuthNext
  \/ Only("results", <<authVars, pageVars, analysisVars, listVars,
                  panelVars, runVars, chartVars, notifyVars>>) /\ ResultsNext
  \/ Only("screener", <<authVars, resultsVars, analysisVars, listVars,
                  panelVars, runVars, chartVars, notifyVars>>) /\ PageNext
  \/ Only("analysis", <<authVars, resultsVars, pageVars, listVars,
                  panelVars, runVars, chartVars, notifyVars>>) /\ AnalysisNext
  \/ Only("watchlist", <<authVars, resultsVars, pageVars, analysisVars,
                  panelVars, runVars, chartVars, notifyVars>>) /\ ListNext
  \/ Only("backtests", <<authVars, resultsVars, pageVars, analysisVars,
                  listVars, runVars, chartVars, notifyVars>>) /\ PanelsNext
  \/ Only("runs", <<authVars, resultsVars, pageVars, analysisVars,
                  listVars, panelVars, chartVars, notifyVars>>) /\ RunsNext
  \/ Only("charts", <<authVars, resultsVars, pageVars, analysisVars,
                  listVars, panelVars, runVars, notifyVars>>) /\ ChartsNext
  \/ Only("notifications", <<authVars, resultsVars, pageVars, analysisVars,
                  listVars, panelVars, runVars, chartVars>>) /\ NotifyNext

WebSpec == WebInit /\ [][WebNext]_webVars /\ AuthFairness /\ ChartsFairness /\ NotifyFairness

\* The type invariants of the parts.
WebTypeOK ==
  /\ part \in Parts
  /\ AuthTypeOK /\ ResultsTypeOK /\ PageTypeOK /\ AnalysisTypeOK /\ ListTypeOK
  /\ PanelsTypeOK /\ RunsTypeOK /\ ChartsTypeOK /\ NotifyTypeOK

\* Whatever the order in which answers arrive, a page shows the data of the
\* date, symbol, run or page number its user chose last.
PagesShowTheSelection ==
  /\ ShownIsSelected /\ AnalysisIsForSymbol /\ ListMatchesDate
  /\ SelectionIsLastChoice /\ PanelIsForRun /\ RowsAreThePage

\* A waiting indicator has an open request that will take it off, and a page
\* without open requests shows data or an error.
PagesSettle ==
  LoadingHasAnOwner /\ RunIsWaiting /\ SpinnerIsOwned /\ ListSettles /\ PanelIsServed

\* What waits is released: the guard of a page, the paging of a chart and the
\* run whose notifications are under way.
EverythingEnds == GuardSettles /\ PagingEnds /\ RunReturnsAtLast
=============================================================================
