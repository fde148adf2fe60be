---------------------------- MODULE ScreenerPage ----------------------------
(***************************************************************************)
(* The /screener page (screener-dashboard.tsx): a bootstrap request, one   *)
(* results request per selected date and an administrative run, all in     *)
(* flight together.  `request' and `operation' are the page's counters:    *)
(* an answer is applied only while its own number is still the current     *)
(* one.  After a state change in a promise the effect runs some time later. *)
(* A date's answer is known by its date; filters and sorting are left out. *)
(***************************************************************************)
EXTENDS Integers, FiniteSets, FiniteSetsExt

CONSTANTS PageDates,   \* trading dates, integers in calendar order
          MaxLoads     \* bound: results requests, bootstraps and runs started

ASSUME PageAssumption ==
  /\ PageDates \subseteq Nat \ {0} /\ PageDates # {} /\ IsFiniteSet(PageDates)
  /\ MaxLoads \in Nat

VARIABLES
  served,       \* the server: dates with a published result
  date,         \* the selected date
  effectDate,   \* the date the load effect last ran for
  historyDates, \* the options of the date selector
  items,        \* the date whose items are on display
  loading,
  failed,       \* which request the error on display belongs to
  request,      \* counter of results requests
  loads,        \* results requests in flight: [id, date]
  boots,        \* bootstrap requests in flight
  run,          \* execute(): [stage, kind, date at the click, result, load]
  mounted,
  starts,       \* bound: how much has been started
  stray,        \* history: execute() loaded a date that is no longer selected
  rebooted      \* history: bootstrap() was repeated with a date selected

pageVars == <<served, date, effectDate, historyDates, items, loading, failed, request,
              loads, boots, run, mounted, starts, stray, rebooted>>

Unset == 0
NoRun == [stage |-> "none", kind |-> "normal", date |-> Unset, result |-> Unset, load |-> 0]

PageInit ==
  /\ served \in SUBSET PageDates
  /\ date \in PageDates \cup {Unset}      \* from the URL
  /\ effectDate = Unset /\ historyDates = {} /\ items = Unset
  /\ loading = TRUE /\ failed = "none"
  /\ request = 0 /\ loads = {} /\ boots = 1
  /\ run = NoRun /\ mounted = TRUE /\ starts = 0
  /\ stray = FALSE /\ rebooted = FALSE

CurrentLoad == \E l \in loads : l.id = request

\* The user acts on a rendered page whose effects have run.
Rendered == mounted /\ effectDate = date

\* loadDate(): the newest request owns the flag and the error.
LoadDate(d) ==
  /\ request' = request + 1
  /\ loads' = loads \cup {[id |-> request + 1, date |-> d]}
  /\ loading' = TRUE /\ failed' = "none"

NoLoad == UNCHANGED <<request, loads, loading, failed>>
Started == starts < MaxLoads /\ starts' = starts + 1

\* Effect on [date, loadDate].
DateEffect ==
  /\ mounted /\ effectDate # date
  /\ effectDate' = date
  /\ IF date # Unset THEN LoadDate(date) ELSE NoLoad
  /\ UNCHANGED <<served, date, historyDates, items, boots, run, mounted, starts, stray, rebooted>>

\* Mutant: the success branch without its counter check.
AnswerLoadUnchecked(l, ok) ==
  /\ ok => l.date \in served
  /\ loads' = loads \ {l}
  /\ items' = IF ok THEN l.date ELSE items
  /\ failed' = IF ~ok /\ l.id = request THEN "date" ELSE failed
  /\ loading' = IF l.id = request THEN FALSE ELSE loading
  /\ run' = IF run.stage = "loading" /\ run.load = l.id THEN NoRun ELSE run
  /\ UNCHANGED <<served, date, effectDate, historyDates, request, boots, mounted, starts,
                 stray, rebooted>>

\* A results answer, or its failure; a stale one changes nothing, except that
\* execute() stops waiting for it.
AnswerLoad(l, ok) ==
  /\ ok => l.date \in served
  /\ loads' = loads \ {l}
  /\ items' = IF ok /\ l.id = request THEN l.date ELSE items
  /\ failed' = IF ~ok /\ l.id = request THEN "date" ELSE failed
  /\ loading' = IF l.id = request THEN FALSE ELSE loading
  /\ run' = IF run.stage = "loading" /\ run.load = l.id THEN NoRun ELSE run
  /\ UNCHANGED <<served, date, effectDate, historyDates, request, boots, mounted, starts,
                 stray, rebooted>>

\* bootstrap() succeeds: the newest date is selected unless there is one, and
\* the flag is left to the load this may cause.
BootstrapDone ==
  /\ boots > 0 /\ boots' = boots - 1
  /\ historyDates' = served
  /\ date' = IF date = Unset /\ served # {} THEN Max(served) ELSE date
  /\ loading' = IF served = {} THEN FALSE ELSE loading
  /\ UNCHANGED <<served, effectDate, items, failed, request, loads, run, mounted, starts, stray,
                 rebooted>>

BootstrapFails ==
  /\ boots > 0 /\ boots' = boots - 1
  /\ failed' = "bootstrap" /\ loading' = FALSE
  /\ UNCHANGED <<served, date, effectDate, historyDates, items, request, loads, run, mounted,
                 starts, stray, rebooted>>

\* The date selector offers the history, popstate restores any earlier URL;
\* React renders and runs the effects of such an event before it returns.
SelectDate(d) ==
  /\ Rendered /\ d # date /\ Started
  /\ date' = d /\ effectDate' = d
  /\ IF d # Unset THEN LoadDate(d) ELSE NoLoad
  /\ UNCHANGED <<served, historyDates, items, boots, run, mounted, stray, rebooted>>

\* The retry button of the error view.
Retry ==
  /\ Rendered /\ ~loading /\ failed # "none" /\ Started
  /\ IF failed = "date" /\ date # Unset
     THEN LoadDate(date) /\ UNCHANGED <<boots, rebooted>>
     ELSE /\ boots' = boots + 1 /\ loading' = TRUE /\ failed' = "none"
          /\ rebooted' = (rebooted \/ date # Unset)
          /\ UNCHANGED <<request, loads>>
  /\ UNCHANGED <<served, date, effectDate, historyDates, items, run, mounted, stray>>

\* execute(kind): the closure keeps the date of the render it was clicked in.
Execute(kind) ==
  /\ Rendered /\ run.stage = "none" /\ Started
  /\ kind = "reanalysis" => date # Unset /\ date \in historyDates
  /\ run' = [NoRun EXCEPT !.stage = "run", !.kind = kind, !.date = date]
  /\ UNCHANGED <<served, date, effectDate, historyDates, items, loading, failed, request, loads,
                 boots, mounted, stray, rebooted>>

Idles == UNCHANGED <<date, effectDate, historyDates, items, boots, mounted, starts, rebooted>>

\* The run's answer: already completed, a result for date d, which need not have
\* publishes one, or an error.  An unmounted page drops it; what the server has
\* published stays.
RunSkipped ==
  /\ run.stage = "run" /\ run.kind = "normal" /\ served # {}
  /\ run' = IF mounted THEN [run EXCEPT !.stage = "latest"] ELSE NoRun
  /\ NoLoad /\ Idles /\ UNCHANGED <<served, stray>>

RunDone(d, publishes) ==
  /\ run.stage = "run" /\ (run.kind = "reanalysis" => d = run.date)
  /\ served' = IF publishes THEN served \cup {d} ELSE served
  /\ run' = IF mounted THEN [run EXCEPT !.stage = "history", !.result = d] ELSE NoRun
  /\ NoLoad /\ Idles /\ UNCHANGED stray

RunFails ==
  /\ run.stage \in {"run", "latest", "history"}
  /\ run' = NoRun
  /\ NoLoad /\ Idles /\ UNCHANGED <<served, stray>>

\* await loadDate(date) with the date of the closure.
LoadFromRun(d) ==
  /\ LoadDate(d)
  /\ run' = [run EXCEPT !.stage = "loading", !.load = request + 1]
  /\ stray' = (stray \/ d # date)

LatestAnswered ==
  /\ run.stage = "latest"
  /\ IF mounted /\ run.date # Unset THEN LoadFromRun(run.date)
     ELSE run' = NoRun /\ NoLoad /\ UNCHANGED stray
  /\ Idles /\ UNCHANGED served

\* The history answer: reload the same date, or select the one that was run.
HistoryAnswered ==
  /\ run.stage = "history"
  /\ historyDates' = IF mounted THEN served ELSE historyDates
  /\ IF mounted /\ run.result = run.date
     THEN LoadFromRun(run.date) /\ date' = date
     ELSE /\ run' = NoRun /\ NoLoad /\ UNCHANGED stray
          /\ date' = IF mounted THEN run.result ELSE date
  /\ UNCHANGED <<served, effectDate, items, boots, mounted, starts, rebooted>>

\* Mutant: the cleanup resets the counter instead of moving it on.
UnmountResets ==
  /\ mounted
  /\ mounted' = FALSE /\ request' = 0
  /\ UNCHANGED <<served, date, effectDate, historyDates, items, loading, failed, loads, boots,
                 run, starts, stray, rebooted>>

\* Cleanup: both counters move on, so nothing in flight is applied any more.
Unmount ==
  /\ mounted
  /\ mounted' = FALSE /\ request' = request + 1
  /\ UNCHANGED <<served, date, effectDate, historyDates, items, loading, failed, loads, boots,
                 run, starts, stray, rebooted>>

PageNext ==
  \/ DateEffect \/ BootstrapDone \/ BootstrapFails \/ Retry \/ Unmount
  \/ \E l \in loads : \E ok \in BOOLEAN : AnswerLoad(l, ok)
  \/ \E d \in PageDates \cup {Unset} : SelectDate(d)
  \/ \E kind \in {"normal", "reanalysis"} : Execute(kind)
  \/ RunSkipped \/ RunFails \/ LatestAnswered \/ HistoryAnswered
  \/ \E d \in PageDates, publishes \in BOOLEAN : RunDone(d, publishes)

------------------------------------------------------------------------------

PageTypeOK ==
  /\ served \subseteq PageDates /\ historyDates \subseteq PageDates
  /\ {date, effectDate, items} \subseteq PageDates \cup {Unset}
  /\ {loading, mounted, stray, rebooted} \subseteq BOOLEAN
  /\ failed \in {"none", "bootstrap", "date"}
  /\ request \in Nat /\ boots \in Nat /\ starts \in 0..MaxLoads
  /\ \A l \in loads : l.id \in 1..request /\ l.date \in PageDates
  /\ run.stage \in {"none", "run", "latest", "history", "loading"}
  /\ run.date \in PageDates \cup {Unset}

\* Whatever order the answers of overlapping loadDate() calls arrive in, the
\* items on display are those of the selected date once its request has
\* succeeded.  The exceptions are a run that reloaded the date of its own
\* closure after another date had been selected, and a bootstrap repeated
\* with a date selected, which clears that date's error without reloading it.
ShownIsSelected ==
  mounted /\ ~loading /\ failed = "none" /\ date # Unset /\ effectDate = date
      /\ ~CurrentLoad /\ ~stray /\ ~rebooted
    => items = date

\* With a date selected, the loading view is never left on without a request
\* that will take it off: the current results request, a bootstrap, or an
\* effect still to run.  The exception is a bootstrap repeated with a date
\* selected: it raises the flag and no load takes it down.
LoadingHasAnOwner ==
  mounted /\ loading /\ date # Unset => CurrentLoad \/ boots > 0 \/ effectDate # date \/ rebooted

\* The run buttons come back: a run that still blocks them waits for an
\* answer, be it that of a load which newer requests have overtaken.
RunIsWaiting ==
  run.stage = "loading" => \E l \in loads : l.id = run.load
=============================================================================
