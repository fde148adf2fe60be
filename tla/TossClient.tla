----------------------------- MODULE TossClient -----------------------------
(***************************************************************************)
(* Authenticated requests to the Toss API: TokenManager and                *)
(* TossMarketDataProvider._request (market/infrastructure/toss.py), as the *)
(* coroutines of one process run them concurrently over one token cache.   *)
(*                                                                         *)
(* Tokens are numbered in the order in which the service issues them; 0 is *)
(* no token.  Issuing a token invalidates the one before it (docs/         *)
(* TOSS_API_INTEGRATION.md).  The chart throttle and the back-off sleeps   *)
(* only delay a request and are not modelled.                              *)
(***************************************************************************)
EXTENDS Naturals

CONSTANTS
  Requests,    \* calls of _request()
  MaxRetries,  \* TOSS_MAX_RETRIES
  MaxLosses,   \* bound on expiries, revocations and lost token responses
  Nobody       \* not a request: the lock is free

ASSUME RequestsAssumption == Nobody \notin Requests
ASSUME RetriesAssumption  == MaxRetries \in Nat /\ MaxLosses \in Nat

VARIABLES
  pc,            \* where the request stands
  token,         \* the token it carries
  auth_retried,  \* has it already retried after a 401?
  attempt,       \* its transient failures so far
  sends,         \* how often it was sent
  outcome,       \* how it ended
  since,         \* value of changes when it began
  cached,        \* TokenManager._token
  fresh,         \* is _expires_at further away than the skew?
  lock,          \* TokenManager._lock
  live,          \* the token the service accepts
  issued,        \* tokens the service has issued
  losses,        \* expiries, revocations and lost token responses so far
  changes        \* how often the service has changed the accepted token

vars == <<pc, token, auth_retried, attempt, sends, outcome, since,
          cached, fresh, lock, live, issued, losses, changes>>
request == <<auth_retried, attempt, sends, outcome, since>>
manager == <<cached, fresh, lock>>
service == <<live, issued, losses, changes>>

Pcs == {"idle", "get", "get_lock", "issuing", "issued", "send", "sent",
        "invalidate", "done"}
Outcomes == {"none", "ok", "auth", "rejected", "unavailable", "no_token", "cancelled"}

TypeOK ==
  /\ pc \in [Requests -> Pcs]
  /\ token \in [Requests -> 0..issued]
  /\ auth_retried \in [Requests -> BOOLEAN]
  /\ attempt \in [Requests -> 0..MaxRetries]
  /\ sends \in [Requests -> Nat]
  /\ outcome \in [Requests -> Outcomes]
  /\ since \in [Requests -> Nat]
  /\ cached \in 0..issued
  /\ fresh \in BOOLEAN
  /\ lock \in Requests \cup {Nobody}
  /\ issued \in Nat
  /\ live \in {0, issued}
  /\ losses \in 0..MaxLosses
  /\ changes \in Nat

Init ==
  /\ pc = [r \in Requests |-> "idle"]
  /\ token = [r \in Requests |-> 0]
  /\ auth_retried = [r \in Requests |-> FALSE]
  /\ attempt = [r \in Requests |-> 0]
  /\ sends = [r \in Requests |-> 0]
  /\ outcome = [r \in Requests |-> "none"]
  /\ since = [r \in Requests |-> 0]
  /\ cached = 0
  /\ fresh = FALSE
  /\ lock = Nobody
  /\ live = 0
  /\ issued = 0
  /\ losses = 0
  /\ changes = 0

----------------------------------------------------------------------------
Valid == cached # 0 /\ fresh

Goto(r, to) == pc' = [pc EXCEPT ![r] = to]

Carry(r, t) == token' = [token EXCEPT ![r] = t]

Finish(r, how) ==
  /\ Goto(r, "done")
  /\ outcome' = [outcome EXCEPT ![r] = how]

----------------------------------------------------------------------------
\* TokenManager.get.

Begin(r) ==
  /\ pc[r] = "idle"
  /\ Goto(r, "get")
  /\ since' = [since EXCEPT ![r] = changes]
  /\ UNCHANGED <<token, auth_retried, attempt, sends, outcome, manager, service>>

GetCached(r) ==
  /\ pc[r] = "get"
  /\ Valid
  /\ Carry(r, cached)
  /\ Goto(r, "send")
  /\ UNCHANGED <<request, manager, service>>

WaitForLock(r) ==
  /\ pc[r] = "get"
  /\ ~Valid
  /\ Goto(r, "get_lock")
  /\ UNCHANGED <<token, request, manager, service>>

\* Under the lock the token is checked again: another request may have
\* renewed it.
Recheck(r) ==
  /\ pc[r] = "get_lock"
  /\ lock = Nobody
  /\ Valid
  /\ Carry(r, cached)
  /\ Goto(r, "send")
  /\ UNCHANGED <<request, manager, service>>

\* Mutant: the token is not checked again under the lock.
AskAlways(r) ==
  /\ pc[r] = "get_lock"
  /\ lock = Nobody
  /\ lock' = r
  /\ Goto(r, "issuing")
  /\ UNCHANGED <<token, request, cached, fresh, service>>

AskForToken(r) ==
  /\ pc[r] = "get_lock"
  /\ lock = Nobody
  /\ ~Valid
  /\ lock' = r
  /\ Goto(r, "issuing")
  /\ UNCHANGED <<token, request, cached, fresh, service>>

\* The service issues a token, and with it revokes the one before.
IssueToken(r) ==
  /\ pc[r] = "issuing"
  /\ issued' = issued + 1
  /\ live' = issued + 1
  /\ changes' = changes + 1
  /\ Goto(r, "issued")
  /\ UNCHANGED <<token, request, manager, losses>>

StoreToken(r) ==
  /\ pc[r] = "issued"
  /\ cached' = issued
  /\ fresh' = TRUE
  /\ lock' = Nobody
  /\ Carry(r, issued)
  /\ Goto(r, "send")
  /\ UNCHANGED <<request, service>>

\* Mutant: an exception of the issuer leaves the lock taken.
IssueFailsLocked(r) ==
  /\ pc[r] \in {"issuing", "issued"}
  /\ losses < MaxLosses
  /\ losses' = losses + 1
  /\ Finish(r, "no_token")
  /\ UNCHANGED <<token, auth_retried, attempt, sends, since, manager, live, issued, changes>>

\* The issuer raises, before or after the service has issued: the request
\* fails and the lock is released.
IssueFails(r) ==
  /\ pc[r] \in {"issuing", "issued"}
  /\ losses < MaxLosses
  /\ losses' = losses + 1
  /\ lock' = Nobody
  /\ Finish(r, "no_token")
  /\ UNCHANGED <<token, auth_retried, attempt, sends, since, cached, fresh,
                 live, issued, changes>>

----------------------------------------------------------------------------
\* The loop of _request.

Send(r) ==
  /\ pc[r] = "send"
  /\ sends' = [sends EXCEPT ![r] = @ + 1]
  /\ Goto(r, "sent")
  /\ UNCHANGED <<token, auth_retried, attempt, outcome, since, manager, service>>

AnswerOk(r) ==
  /\ pc[r] = "sent"
  /\ token[r] = live
  /\ Finish(r, "ok")
  /\ UNCHANGED <<token, auth_retried, attempt, sends, since, manager, service>>

\* The first 401 discards the token and goes round again ...
Answer401(r) ==
  /\ pc[r] = "sent"
  /\ token[r] # live
  /\ ~auth_retried[r]
  /\ auth_retried' = [auth_retried EXCEPT ![r] = TRUE]
  /\ Goto(r, "invalidate")
  /\ UNCHANGED <<token, attempt, sends, outcome, since, manager, service>>

\* ... the second is ProviderAuthenticationError.
AuthFails(r) ==
  /\ pc[r] = "sent"
  /\ token[r] # live
  /\ auth_retried[r]
  /\ Finish(r, "auth")
  /\ UNCHANGED <<token, auth_retried, attempt, sends, since, manager, service>>

\* Timeout, network error, 429 or 5xx with retries left.
RetryTransient(r) ==
  /\ pc[r] = "sent"
  /\ attempt[r] < MaxRetries
  /\ attempt' = [attempt EXCEPT ![r] = @ + 1]
  /\ Goto(r, "get")
  /\ UNCHANGED <<token, auth_retried, sends, outcome, since, manager, service>>

\* The same without retries left, and any other 4xx at once.
AnswerError(r) ==
  /\ pc[r] = "sent"
  /\ \/ attempt[r] = MaxRetries /\ Finish(r, "unavailable")
     \/ Finish(r, "rejected")
  /\ UNCHANGED <<token, auth_retried, attempt, sends, since, manager, service>>

\* Mutant: whatever token is cached is discarded.
InvalidateAny(r) ==
  /\ pc[r] = "invalidate"
  /\ lock = Nobody
  /\ cached' = 0 /\ fresh' = FALSE
  /\ Goto(r, "get")
  /\ UNCHANGED <<token, request, lock, service>>

\* Mutant: the rejected token stays cached.
InvalidateNothing(r) ==
  /\ pc[r] = "invalidate"
  /\ lock = Nobody
  /\ Goto(r, "get")
  /\ UNCHANGED <<token, request, manager, service>>

\* TokenManager.invalidate: only the token that was rejected is discarded.
Invalidate(r) ==
  /\ pc[r] = "invalidate"
  /\ lock = Nobody
  /\ IF cached = token[r] THEN cached' = 0 /\ fresh' = FALSE
                          ELSE UNCHANGED <<cached, fresh>>
  /\ Goto(r, "get")
  /\ UNCHANGED <<token, request, lock, service>>

\* The caller is cancelled; async with frees the lock.
Cancel(r) ==
  /\ pc[r] \notin {"idle", "done"}
  /\ IF pc[r] = "issued"
       THEN losses < MaxLosses /\ losses' = losses + 1
       ELSE UNCHANGED losses
  /\ lock' = IF lock = r THEN Nobody ELSE lock
  /\ Finish(r, "cancelled")
  /\ UNCHANGED <<token, auth_retried, attempt, sends, since, cached, fresh,
                 live, issued, changes>>

----------------------------------------------------------------------------
\* The environment.

\* The cached token comes within the skew of its expiry.
Expire ==
  /\ cached # 0 /\ fresh
  /\ losses < MaxLosses
  /\ losses' = losses + 1
  /\ fresh' = FALSE
  /\ UNCHANGED <<pc, token, request, cached, lock, live, issued, changes>>

\* Another replica has asked for a token, or the service has revoked ours.
Revoke ==
  /\ live # 0
  /\ losses < MaxLosses
  /\ losses' = losses + 1
  /\ live' = 0
  /\ changes' = changes + 1
  /\ UNCHANGED <<pc, token, request, manager, issued>>

Ended ==
  /\ \A r \in Requests : pc[r] = "done"
  /\ UNCHANGED vars

Step(r) ==
  \/ Begin(r) \/ GetCached(r) \/ WaitForLock(r) \/ Recheck(r) \/ AskForToken(r)
  \/ IssueToken(r) \/ StoreToken(r) \/ Send(r) \/ AnswerOk(r) \/ Answer401(r)
  \/ AuthFails(r) \/ RetryTransient(r) \/ AnswerError(r) \/ Invalidate(r)

Next ==
  \/ \E r \in Requests : Step(r) \/ IssueFails(r) \/ Cancel(r)
  \/ Expire \/ Revoke
  \/ Ended

Spec == Init /\ [][Next]_vars

\* Every await is answered; failures of the issuer are never owed.
FairSpec == Spec /\ \A r \in Requests : WF_vars(Step(r))

----------------------------------------------------------------------------
\* Coalescing: a token is asked for once, and then only once for each token
\* that expired, was revoked or got lost, however many requests notice it.
NoRefreshStorm == issued <= 1 + losses

\* One issue-and-retry is enough: a request fails with an authentication
\* error only if the accepted token changed twice while it ran, so that the
\* replacement it was given died as well.
AuthFailureIsEarned ==
  \A r \in Requests : outcome[r] = "auth" => changes >= since[r] + 2

\* A request is sent at most once per allowed transient failure, once more
\* after a 401, and the first time.
SendsAreBounded == \A r \in Requests : sends[r] <= MaxRetries + 2

\* A token the service still accepts is never discarded or replaced: a late
\* 401 for an old token does not cost the others their new one.
AcceptedTokenIsKept == [][cached' # cached /\ cached # 0 => cached # live]_vars

\* The manager's lock is held exactly by a request that waits for the issuer.
LockIsHeldByIssuer ==
  \A r \in Requests : pc[r] \in {"issuing", "issued"} <=> lock = r

\* Requests share one issue: whoever asks for a token holds the lock, nobody
\* keeps it after an exception, and there are no more issues than losses; all
\* variables keep their types.
IssuingIsExclusive == TypeOK /\ LockIsHeldByIssuer /\ NoRefreshStorm

\* Retries are bounded, and within the bound the one renewal after a 401 is
\* enough unless the service changed the token twice.
RetriesAreEarned == AuthFailureIsEarned /\ SendsAreBounded

\* Every request ends, whatever the order in which the lock is passed on.
EveryRequestEnds == \A r \in Requests : pc[r] # "idle" ~> pc[r] = "done"
=============================================================================
