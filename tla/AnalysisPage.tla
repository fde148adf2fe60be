---------------------------- MODULE AnalysisPage ----------------------------
(***************************************************************************)
(* The /analysis page (instrument-analysis.tsx): one symbol, loads started *)
(* by the form, by the retry button and silently by a timer, and one       *)
(* counter that decides which answer is applied.  Form events render and   *)
(* run their effects before they return.                                   *)
(***************************************************************************)
EXTENDS Integers, FiniteSets

CONSTANTS PageSymbols,   \* symbols the user may ask for
          NoSymbol,      \* the empty symbol
          MaxQueries     \* bound: loads started

ASSUME AnalysisAssumption == NoSymbol \notin PageSymbols /\ MaxQueries \in Nat

VARIABLES
  symbol,       \* the symbol on display
  data,         \* the symbol whose analysis is on display
  busy,         \* loading
  refreshing,
  problem,      \* an error is on display
  ticket,       \* request.current
  queries,      \* requests in flight: [id, symbol]
  open          \* the page is mounted

analysisVars == <<symbol, data, busy, refreshing, problem, ticket, queries, open>>

AnalysisInit ==
  /\ symbol = NoSymbol /\ data = NoSymbol
  /\ busy = FALSE /\ refreshing = FALSE /\ problem = FALSE
  /\ ticket = 0 /\ queries = {} /\ open = TRUE

\* load(selected, silent) with the next number; a change of symbol uses one
\* number up in the effect's cleanup.
Load(s, silent, skip) ==
  /\ open /\ ticket < MaxQueries
  /\ ticket' = ticket + skip + 1
  /\ queries' = queries \cup {[id |-> ticket + skip + 1, symbol |-> s]}
  /\ refreshing' = (refreshing \/ silent)
  /\ busy' = (busy \/ ~silent)
  /\ problem' = FALSE

\* submit(): the button is disabled while loading.  The same symbol is loaded
\* again, another one is selected (also from the URL, when the page opens).
Submit(s) ==
  /\ ~busy
  /\ symbol' = s
  /\ data' = IF s = symbol THEN data ELSE NoSymbol
  /\ Load(s, FALSE, IF s = symbol THEN 0 ELSE 1)
  /\ UNCHANGED open

SubmitInvalid ==
  /\ open /\ ~busy /\ ~problem
  /\ problem' = TRUE
  /\ UNCHANGED <<symbol, data, busy, refreshing, ticket, queries, open>>

RetryAnalysis ==
  /\ problem /\ symbol # NoSymbol
  /\ Load(symbol, FALSE, 0)
  /\ UNCHANGED <<symbol, data, open>>

\* The interval fires, at least 60 seconds apart, whether or not a load runs.
Tick ==
  /\ symbol # NoSymbol
  /\ Load(symbol, TRUE, 0)
  /\ UNCHANGED <<symbol, data, open>>

\* Mutant: a finally clause that takes off only the refresh spinner.
AnswerQueryKeepsBusy(q, ok) ==
  /\ queries' = queries \ {q}
  /\ IF q.id = ticket
     THEN /\ data' = IF ok THEN q.symbol ELSE data
          /\ problem' = (problem \/ ~ok)
          /\ refreshing' = FALSE
     ELSE UNCHANGED <<data, problem, refreshing>>
  /\ UNCHANGED <<symbol, busy, ticket, open>>

\* An answer or a failure; only the current number changes the page.
AnswerQuery(q, ok) ==
  /\ queries' = queries \ {q}
  /\ IF q.id = ticket
     THEN /\ data' = IF ok THEN q.symbol ELSE data
          /\ problem' = (problem \/ ~ok)
          /\ busy' = FALSE /\ refreshing' = FALSE
     ELSE UNCHANGED <<data, problem, busy, refreshing>>
  /\ UNCHANGED <<symbol, ticket, open>>

ClosePage ==
  /\ open
  /\ open' = FALSE /\ ticket' = ticket + 1
  /\ UNCHANGED <<symbol, data, busy, refreshing, problem, queries>>

AnalysisNext ==
  \/ \E s \in PageSymbols : Submit(s)
  \/ SubmitInvalid \/ RetryAnalysis \/ Tick \/ ClosePage
  \/ \E q \in queries : \E ok \in BOOLEAN : AnswerQuery(q, ok)

------------------------------------------------------------------------------

AnalysisTypeOK ==
  /\ {symbol, data} \subseteq PageSymbols \cup {NoSymbol}
  /\ {busy, refreshing, problem, open} \subseteq BOOLEAN
  /\ ticket \in Nat
  /\ \A q \in queries : q.id \in 1..ticket /\ q.symbol \in PageSymbols

\* A chart is never shown under another symbol's name: an answer that comes
\* after submit() has changed the symbol is dropped, silent refreshes and
\* retries included.
AnalysisIsForSymbol == data # NoSymbol => data = symbol

\* A spinner belongs to the newest request, so its answer takes it off; a
\* refresh overtaken by a load leaves no spinner behind.
SpinnerIsOwned == open /\ (busy \/ refreshing) => \E q \in queries : q.id = ticket
=============================================================================
