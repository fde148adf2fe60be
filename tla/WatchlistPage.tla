---------------------------- MODULE WatchlistPage ----------------------------
(***************************************************************************)
(* The /watchlist page (watchlist-dashboard.tsx) over the server it reads. *)
(* load() asks for the history, takes the label from it, asks for the      *)
(* requested date or the latest list, and applies every answer it gets:    *)
(* unlike the other pages it has no counter, so overlapping loads may      *)
(* finish in any order.  Choosing a date changes the label at once; the    *)
(* URL follows when the router is done, and the load after that.           *)
(* A list is known by its date.  The server answers a GET from one moment, *)
(* but for the history of the rows older than the executions table; the    *)
(* statements of the other endpoints are in ScreenerResults.               *)
(***************************************************************************)
EXTENDS Integers, FiniteSets, FiniteSetsExt

CONSTANTS ListDates,      \* trading dates, integers in calendar order
          LegacyDates,    \* those with rows older than the executions table
          MaxVisits       \* bound: loads started

ASSUME ListAssumption ==
  /\ ListDates \subseteq Nat \ {0} /\ IsFiniteSet(ListDates) /\ LegacyDates \subseteq ListDates
  /\ MaxVisits \in Nat \ {0}

VARIABLES
  successes,      \* the server: dates with a succeeded execution
  executed,       \* the executions table holds a row
  requestedDate,  \* the date parameter of the URL
  pushing,        \* the URL the router is about to show
  effectUrl,      \* the URL the load effect last ran for
  selectedDate,   \* the date above the list
  dateOptions,    \* the options of the date selector
  listed,         \* the date whose items are on display
  status,
  visits,         \* load() calls in flight: [id, date, stage, dates]
  visitCount,
  overlapped,     \* history: the last load() began while another was in flight
  dropped,        \* history: since then a navigation replaced a choice, and
  since           \* what the server committed during that load (kept up until
                  \* loads overlap)

serverVars == <<successes, executed>>
urlVars == <<requestedDate, pushing, effectUrl>>
shownVars == <<selectedDate, dateOptions, listed>>
visitVars == <<visits, visitCount, overlapped, dropped>>
listVars == <<serverVars, urlVars, shownVars, status, visitVars, since>>

Undated == 0        \* no date parameter, no date above the list, no list
ListRequests == ListDates \cup {Undated}
Nowhere == -1

\* Max() of a set of dates, of none when there are none.
Newest(dates) == IF dates = {} THEN Undated ELSE Max(dates)

NewVisit(n, d) ==
  [id |-> n, date |-> d, stage |-> "history", dates |-> {}]

\* A call of load().
Visit(d) ==
  /\ visitCount < MaxVisits /\ visitCount' = visitCount + 1
  /\ visits' = visits \cup {NewVisit(visitCount + 1, d)}
  /\ status' = "loading"
  /\ overlapped' = (visits # {}) /\ dropped' = FALSE /\ since' = {}
  /\ UNCHANGED <<serverVars, shownVars>>

ListInit ==
  /\ successes \in SUBSET ListDates
  /\ executed \in BOOLEAN /\ (successes # {} => executed)
  /\ requestedDate \in ListRequests /\ effectUrl = requestedDate /\ pushing = Nowhere
  /\ selectedDate = requestedDate /\ dateOptions = {} /\ listed = Undated
  /\ status = "loading"
  /\ visits = {NewVisit(1, requestedDate)} /\ visitCount = 1
  /\ overlapped = FALSE /\ dropped = FALSE /\ since = {}

\* The pipeline commits its first running row, which hides the legacy rows, or
\* the success of a date.
Commits(event) ==
  /\ since' = IF visits = {} \/ overlapped THEN since ELSE since \cup {event}
  /\ UNCHANGED <<urlVars, shownVars, status, visitVars>>

FirstExecution == ~executed /\ executed' = TRUE /\ Commits("withdrawal") /\ UNCHANGED successes

PublishList(d) ==
  /\ executed /\ d \notin successes
  /\ successes' = successes \cup {d} /\ Commits("publication") /\ UNCHANGED executed

\* The user acts on a rendered page whose effects have run.  A change in the
\* selector; a retry of the error view.
ChooseDate(d) ==
  /\ effectUrl = requestedDate /\ d \in dateOptions /\ d # selectedDate
  /\ selectedDate' = d /\ pushing' = d
  /\ UNCHANGED <<serverVars, requestedDate, effectUrl, dateOptions, listed, status, visitVars, since>>

RetryList ==
  /\ effectUrl = requestedDate /\ status = "error"
  /\ Visit(requestedDate) /\ UNCHANGED urlVars

\* Back or forward: the router gives up what it was about to show.
Traverse(d) ==
  /\ pushing' = d
  /\ dropped' = (dropped \/ (~overlapped /\ pushing # Nowhere /\ d = requestedDate))
  /\ UNCHANGED <<serverVars, requestedDate, effectUrl, shownVars, status, visits, visitCount,
                 overlapped, since>>

\* The router is done; the page renders with the new URL, and then its effect
\* on [load] runs if the date is another one.
UrlChanges ==
  /\ pushing # Nowhere /\ effectUrl = requestedDate
  /\ visitCount < MaxVisits
  /\ requestedDate' = pushing /\ pushing' = Nowhere
  /\ UNCHANGED <<serverVars, effectUrl, shownVars, status, visitVars, since>>

ListEffect ==
  /\ effectUrl # requestedDate
  /\ effectUrl' = requestedDate
  /\ Visit(requestedDate) /\ UNCHANGED <<requestedDate, pushing>>

Advance(v, w) ==
  /\ visits' = (visits \ {v}) \cup {w}
  /\ UNCHANGED <<serverVars, urlVars, listed, status, visitCount, overlapped, dropped, since>>

\* history(): the succeeded dates, or without any execution, by a statement of
\* its own, those with rows.
ServeHistory(v) ==
  /\ v.stage = "history"
  /\ Advance(v, IF successes = {} /\ ~executed THEN [v EXCEPT !.stage = "legacy"]
                ELSE [v EXCEPT !.stage = "told", !.dates = successes])
  /\ UNCHANGED <<selectedDate, dateOptions>>

ServeLegacy(v) ==
  /\ v.stage = "legacy"
  /\ Advance(v, [v EXCEPT !.stage = "told", !.dates = LegacyDates \cup successes])
  /\ UNCHANGED <<selectedDate, dateOptions>>

\* The history arrives: the page shows the requested date, or the newest one,
\* and sends the second request.
AnswerHistory(v) ==
  /\ v.stage = "told"
  /\ dateOptions' = v.dates
  /\ selectedDate' = IF v.date # Undated THEN v.date ELSE Newest(v.dates)
  /\ Advance(v, [v EXCEPT !.stage = "items"])

Ends(v) ==
  /\ visits' = visits \ {v}
  /\ UNCHANGED <<serverVars, urlVars, selectedDate, dateOptions, visitCount, overlapped, dropped, since>>

\* list(date), 404 unless it has rows or exists(); or latest().  The answer
\* arrives as it is read: on its way it would look like one not yet read, but
\* to a second load.  The error path leaves the old items in place.
AnswerItems(v, found) ==
  LET newest == IF executed THEN Newest(successes) ELSE Newest(LegacyDates)
      list == IF v.date = Undated THEN newest ELSE v.date
  IN /\ v.stage = "items"
     /\ CASE found = "ready"     -> list \in successes \cup LegacyDates
          [] found = "empty"     -> list \in successes \/ list = Undated
          [] found = "not-found" -> list \notin successes \cup LegacyDates \cup {Undated}
     /\ listed' = IF found = "not-found" THEN listed ELSE list
     /\ status' = found
     /\ Ends(v)

\* A request of this load fails, or its answer is lost.
ListFails(v) == status' = "error" /\ Ends(v) /\ UNCHANGED listed

ListNext ==
  \/ FirstExecution
  \/ \E d \in ListDates : PublishList(d) \/ ChooseDate(d)
  \/ \E d \in ListRequests : Traverse(d)
  \/ RetryList \/ UrlChanges \/ ListEffect
  \/ \E v \in visits :
        \/ ServeHistory(v) \/ ServeLegacy(v) \/ AnswerHistory(v)
        \/ \E found \in {"ready", "empty", "not-found"} : AnswerItems(v, found)
        \/ ListFails(v)

------------------------------------------------------------------------------

ListTypeOK ==
  /\ {requestedDate, effectUrl, selectedDate, listed} \subseteq ListRequests
  /\ pushing \in ListRequests \cup {Nowhere}
  /\ successes \cup dateOptions \subseteq ListDates
  /\ status \in {"loading", "ready", "empty", "not-found", "error"}
  /\ visitCount \in 1..MaxVisits
  /\ {executed, overlapped, dropped} \subseteq BOOLEAN
  /\ since \subseteq {"withdrawal", "publication"}

\* The items on display are those the load effect asked for, and once the
\* router and the effect are done they belong to the date above them, as long
\* as no two load() calls were in flight together.  Between the choice of a date
\* and that load the old list stands under the new date.  Without a date in
\* the URL label and items come from two requests: the items are never older
\* than the label, and the same unless the server committed something between.
ListMatchesDate ==
  ~overlapped /\ status \in {"ready", "empty"} =>
    /\ effectUrl # Undated => listed = effectUrl
    /\ pushing = Nowhere /\ effectUrl = requestedDate /\ ~dropped =>
         IF requestedDate # Undated THEN selectedDate = requestedDate
         ELSE /\ "withdrawal" \notin since => listed >= selectedDate
              /\ since = {} => listed = selectedDate

\* In whatever order overlapping loads finish, the last one takes the page out
\* of its loading view.
ListSettles == visits = {} => status # "loading"
=============================================================================
