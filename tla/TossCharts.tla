----------------------------- MODULE TossCharts -----------------------------
(***************************************************************************)
(* TossMarketDataProvider.daily_bars (toss.py): the history of one symbol, *)
(* read page by page towards the past.  Days are numbers; a cursor is the  *)
(* last day a page may contain.  The exchange keeps trading while the      *)
(* pages are read, so a bar may change between two of them; the retries    *)
(* within a request are TossClient's.                                      *)
(***************************************************************************)
EXTENDS Integers, FiniteSets, FiniteSetsExt, Functions

CONSTANTS
  ChartDays,      \* the days of the model, an interval of numbers
  MaxCandles,     \* candles of a page
  MaxRevisions    \* bound on the changes of a bar

ASSUME ChartsAssumption ==
  /\ ChartDays \subseteq Nat \ {0} /\ MaxCandles \in Nat \ {0} /\ MaxRevisions \in Nat

VARIABLES
  listing,    \* trading day -> version of its bar at the provider
  chart,      \* [phase, start, end, before, cursors, bars]
  revised,    \* number of revisions during the call
  regular     \* history variable: every nextBefore so far left no bar out

chartVars == <<listing, chart, revised, regular>>

End == 0                                 \* nextBefore is null
Resting == [phase |-> "idle", start |-> End, end |-> End, before |-> End, cursors |-> {},
            bars |-> <<>>]

ChartsInit ==
  /\ listing \in {[d \in days |-> 0] : days \in SUBSET ChartDays}
  /\ chart = Resting /\ revised = 0 /\ regular = TRUE

\* daily_bars(symbol, start, end), up to its loop.
AskDailyBars(start, end) ==
  /\ chart.phase = "idle"
  /\ chart' = [chart EXCEPT !.phase = IF start > end THEN "invalid" ELSE "paging",
                            !.start = start, !.end = end, !.before = end]
  /\ UNCHANGED <<listing, revised, regular>>

\* The provider: the newest candles up to the cursor.
Page(before) ==
  LET upTo == {d \in DOMAIN listing : d <= before}
  IN {d \in upTo : Cardinality({e \in upTo : e > d}) < MaxCandles}

\* A nextBefore that the provider means: earlier, and above every older bar.
Proper(before, next) ==
  LET older == {d \in DOMAIN listing : d <= before} \ Page(before)
  IN IF next = End THEN older = {} ELSE next < before /\ \A d \in older : d <= next

NeverRepeated(before) == FALSE           \* Mutant: cursors are not remembered
Repeated(before) == before \in chart.cursors

\* Mutant: the day before the start counts as reached.
ReachedEarly(rows) == rows # {} /\ Min(rows) <= chart.start + 1
Reached(rows) == rows # {} /\ Min(rows) <= chart.start

\* One turn of the loop.  A bar that contradicts the one already read, like a
\* cursor that comes again, is a malformed response; all dates are past.
ReadPage(next) ==
  LET rows == Page(chart.before)
      kept == {d \in rows : chart.start <= d /\ d <= chart.end}
      conflict == \E d \in kept \cap DOMAIN chart.bars : chart.bars[d] # listing[d]
      done == Reached(rows) \/ next = End
  IN /\ chart.phase = "paging" /\ ~Repeated(chart.before)
     /\ chart' = [chart EXCEPT
          !.phase = IF conflict THEN "malformed" ELSE IF done THEN "done" ELSE "paging",
          !.before = next,
          !.cursors = @ \cup {chart.before},
          !.bars = IF conflict THEN @
                   ELSE [d \in DOMAIN @ \cup kept |-> IF d \in kept THEN listing[d] ELSE @[d]]]
     /\ regular' = (regular /\ Proper(chart.before, next))
     /\ UNCHANGED <<listing, revised>>

CursorRepeats ==
  /\ chart.phase = "paging" /\ Repeated(chart.before)
  /\ chart' = [chart EXCEPT !.phase = "malformed"]
  /\ UNCHANGED <<listing, revised, regular>>

\* _request raises, or the payload cannot be parsed.
ChartFails ==
  /\ chart.phase = "paging" /\ ~Repeated(chart.before)
  /\ chart' = [chart EXCEPT !.phase = "failed"]
  /\ UNCHANGED <<listing, revised, regular>>

\* The running day's bar moves, or the history is adjusted.
ReviseBar(d) ==
  /\ chart.phase = "paging" /\ revised < MaxRevisions
  /\ listing' = [listing EXCEPT ![d] = @ + 1]
  /\ revised' = revised + 1
  /\ UNCHANGED <<chart, regular>>

ChartStep == (\E next \in ChartDays \cup {End} : ReadPage(next)) \/ CursorRepeats \/ ChartFails

ChartsNext ==
  \/ \E start, end \in ChartDays : AskDailyBars(start, end)
  \/ ChartStep
  \/ \E d \in DOMAIN listing : ReviseBar(d)

\* Every await of the loop ends: requests time out and retries are bounded.
ChartsFairness == WF_chartVars(ChartStep)

------------------------------------------------------------------------------
ChartsTypeOK ==
  /\ DOMAIN listing \subseteq ChartDays /\ \A d \in DOMAIN listing : listing[d] \in 0..MaxRevisions
  /\ chart.phase \in {"idle", "invalid", "paging", "done", "malformed", "failed"}
  /\ chart.cursors \subseteq ChartDays /\ DOMAIN chart.bars \subseteq ChartDays
  /\ revised \in 0..MaxRevisions /\ regular \in BOOLEAN

\* daily_bars returns every trading day between start and end and no other,
\* however the pages overlap and whether or not a bar exists on the start day
\* itself; MarketSync would take a missing day for a holiday for ever.  With no
\* revision meanwhile the bars are the provider's.
ChartIsWhole ==
  chart.phase = "done" /\ regular =>
    /\ DOMAIN chart.bars = {d \in DOMAIN listing : chart.start <= d /\ d <= chart.end}
    /\ revised = 0 => chart.bars = Restrict(listing, DOMAIN chart.bars)

\* The loop ends also when the provider hands out a cursor it gave before, in
\* a circle of any length.
PagingEnds == chart.phase = "paging" ~> chart.phase # "paging"
=============================================================================
