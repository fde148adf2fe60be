--------------------------- MODULE Notifications ---------------------------
(***************************************************************************)
(* The decorator around the pipeline's run() (notifications/): one event   *)
(* for a succeeded or failed run, posted by every provider with bounded    *)
(* retries, before the result is given back to the caller.  Whether a      *)
(* message was posted is known only from the chat service's own answer: it *)
(* was with 2xx, it was not with an error it decides on.  After a server   *)
(* error, or without an answer that can be read, it may have been.         *)
(***************************************************************************)
EXTENDS Integers

CONSTANTS Providers, MaxRetries

ASSUME NotificationsAssumption == MaxRetries \in Nat

VARIABLES
  ran,         \* status of the run: none, succeeded, failed, skipped
  delivery,    \* provider -> [state, attempt, posted, unsure]: posted is what the
               \* channel shows, unsure the attempts that leave it open
  returned     \* the caller has the result

notifyVars == <<ran, delivery, returned>>

NotifyInit ==
  /\ ran = "none" /\ returned = FALSE
  /\ delivery = [p \in Providers |-> [state |-> "idle", attempt |-> 0, posted |-> 0, unsure |-> 0]]

\* run() of the pipeline returns; only two statuses have an event.
RunReturns(status) ==
  /\ ran = "none" /\ ran' = status
  /\ returned' = (status = "skipped")
  /\ delivery' = IF status = "skipped" THEN delivery
                 ELSE [p \in Providers |-> [delivery[p] EXCEPT !.state = "posting"]]

Moves(p, d) == delivery' = [delivery EXCEPT ![p] = d] /\ UNCHANGED <<ran, returned>>

\* Mutant: a success does not return from the loop before the last attempt.
PostSucceedsWithoutReturn(p) ==
  LET d == delivery[p]
  IN /\ d.state = "posting"
     /\ Moves(p, [d EXCEPT !.state = IF d.attempt = MaxRetries THEN "delivered" ELSE "sleeping",
                           !.posted = @ + 1])

PostSucceeds(p) ==
  /\ delivery[p].state = "posting"
  /\ Moves(p, [delivery[p] EXCEPT !.state = "delivered", !.posted = @ + 1])

\* A 4xx other than 429.
PostRefused(p) ==
  /\ delivery[p].state = "posting"
  /\ Moves(p, [delivery[p] EXCEPT !.state = "refused"])

\* What an attempt leaves behind whose message may have arrived.
Unsure(d, arrived, state) ==
  [d EXCEPT !.state = state, !.unsure = @ + 1, !.posted = IF arrived THEN @ + 1 ELSE @]

\* An exception that publish() does not catch: the connection ends without a
\* response, or the response cannot be decoded.
PostBreaks(p, arrived) ==
  /\ delivery[p].state = "posting"
  /\ Moves(p, Unsure(delivery[p], arrived, "broken"))

AfterFailure(d) == IF d.attempt = MaxRetries THEN "exhausted" ELSE "sleeping"

\* 429, or a redirect, which is not followed.
PostThrottled(p) ==
  /\ delivery[p].state = "posting"
  /\ Moves(p, [delivery[p] EXCEPT !.state = AfterFailure(delivery[p])])

\* A timeout, a network error or a 5xx, before or after the message arrived.
PostFails(p, arrived) ==
  /\ delivery[p].state = "posting"
  /\ Moves(p, Unsure(delivery[p], arrived, AfterFailure(delivery[p])))

\* The back-off ends.
RetryPost(p) ==
  /\ delivery[p].state = "sleeping"
  /\ Moves(p, [delivery[p] EXCEPT !.state = "posting", !.attempt = @ + 1])

Ended == {"delivered", "refused", "broken", "exhausted"}

\* gather() has an answer or an exception of every provider.
PublishReturns ==
  /\ ran \in {"succeeded", "failed"} /\ ~returned
  /\ \A p \in Providers : delivery[p].state \in Ended
  /\ returned' = TRUE /\ UNCHANGED <<ran, delivery>>

NotifyStep(p) ==
  PostSucceeds(p) \/ PostRefused(p) \/ PostThrottled(p) \/ RetryPost(p)
    \/ \E arrived \in BOOLEAN : PostBreaks(p, arrived) \/ PostFails(p, arrived)

NotifyNext ==
  \/ \E status \in {"succeeded", "failed", "skipped"} : RunReturns(status)
  \/ \E p \in Providers : NotifyStep(p)
  \/ PublishReturns

\* A post ends by its timeout, a back-off by its clock.
NotifyFairness ==
  WF_notifyVars(PublishReturns) /\ \A p \in Providers : WF_notifyVars(NotifyStep(p))

------------------------------------------------------------------------------
NotifyTypeOK ==
  /\ ran \in {"none", "succeeded", "failed", "skipped"} /\ returned \in BOOLEAN
  /\ delivery \in [Providers -> [state: {"idle", "posting", "sleeping"} \cup Ended,
                                 attempt: 0..MaxRetries, posted: 0..(MaxRetries + 1),
                                 unsure: 0..(MaxRetries + 1)]]

\* Over all retries the channel shows the message a provider was told of, and
\* beyond that at most one for every attempt that left it open: a delivery that
\* was answered every time posts once, or never when it is given up.
MessagesAreAccounted ==
  \A p \in Providers :
    LET told == IF delivery[p].state = "delivered" THEN 1 ELSE 0
    IN /\ delivery[p].posted \in told..(told + delivery[p].unsure)
       /\ told + delivery[p].unsure <= delivery[p].attempt + 1

\* When the caller gets the result of a run with an event, a channel that does
\* not show it was refused it, lost its connection, or failed every attempt,
\* whatever became of the others ("without allowing one delivery to affect
\* another").
MissingHasACause ==
  returned /\ ran # "skipped" =>
    \A p \in Providers :
      delivery[p].posted = 0 /\ delivery[p].state \notin {"refused", "broken"}
        => delivery[p].attempt = MaxRetries

\* Every provider announces a run once, as far as it can know.
NotifiedOnce == MessagesAreAccounted /\ MissingHasACause

\* Notifications delay the result but never keep it: whatever the chat service
\* does, run() returns.
RunReturnsAtLast == ran # "none" ~> returned
=============================================================================
