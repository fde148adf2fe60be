------------------------ MODULE WatchlistPublishing ------------------------
(***************************************************************************)
(* What the pipeline promises the readers of a date: a cell that is        *)
(* replaced as a whole, by one success at a time, the first by an ordinary *)
(* run and every later one by a forced reanalysis.  No locks, stages,      *)
(* failures or crashes: they must be invisible here.                       *)
(***************************************************************************)
EXTENDS Naturals

CONSTANTS Requests, Dates, MaxItems

VARIABLES
  arg,      \* date and force_reanalysis of each request
  history,  \* history[d]: the successes of d, each with its item count
  items     \* items[d]: the watchlist of d

vars == <<arg, history, items>>

Init ==
  /\ arg \in [Requests -> [date: Dates, force: BOOLEAN]]
  /\ history = [d \in Dates |-> {}]
  /\ items = [d \in Dates |-> {}]

\* Request r publishes n items.
Publish(r, n) ==
  LET d == arg[r].date IN
  /\ arg[r].force <=> history[d] # {}
  /\ \A h \in history[d] : h.by # r
  /\ history' = [history EXCEPT ![d] = @ \cup {[by |-> r, count |-> n]}]
  /\ items' = [items EXCEPT ![d] = {[by |-> r, rank |-> i] : i \in 1..n}]
  /\ UNCHANGED arg

Next == \E r \in Requests, n \in 0..MaxItems : Publish(r, n)

Spec == Init /\ [][Next]_vars
=============================================================================
