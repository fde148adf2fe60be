-------------------------- MODULE TossClientProofs --------------------------
(***************************************************************************)
(* Proofs about TossClient for every set of requests, every number of      *)
(* retries and any number of losses.                                       *)
(***************************************************************************)
EXTENDS TossClient, TLAPS

Acting(r)   == pc[r] \in {"send", "sent", "invalidate"}
Fetching(r) == pc[r] \in {"get", "get_lock", "issuing", "issued"}

\* The cached token counts as valid only while it is the newest one issued, and
\* nobody asks for another meanwhile.
CacheIsNewest ==
  /\ Valid => cached = issued /\ \A r \in Requests : pc[r] \notin {"issuing", "issued"}
  /\ \A r \in Requests : pc[r] = "issued" => cached < issued

\* A token on its way to the service exists; one that was rejected stays so.
TokensAreReal ==
  \A r \in Requests :
    /\ Acting(r) => token[r] # 0
    /\ pc[r] = "invalidate" => token[r] # live
    /\ pc[r] = "issued" => token[r] < issued

\* Unless the cache holds the accepted token, or a new one is about to be
\* stored, every token issued so far has been lost.
IssuesArePaid ==
  /\ issued <= 1 + losses
  /\ (\A r \in Requests : pc[r] # "issued") /\ ~(Valid /\ cached = live) => issued <= losses
  /\ \A r \in Requests : pc[r] = "issued" /\ live # issued => issued <= losses

IssueInv == TypeOK /\ LockIsHeldByIssuer /\ CacheIsNewest /\ TokensAreReal /\ IssuesArePaid

\* No step breaks the invariant of the token manager.
LEMMA IssueInductive == IssueInv /\ [Next]_vars => IssueInv'
<1> SUFFICES ASSUME IssueInv, [Next]_vars PROVE IssueInv'
  OBVIOUS
<1> USE RequestsAssumption, RetriesAssumption
<1> USE DEF IssueInv, TypeOK, Goto, Carry, Finish, request, manager, service
<1>1. ASSUME NEW r \in Requests, Begin(r) PROVE IssueInv'
  <2>1. TypeOK'
    BY <1>1 DEF Begin, Pcs, Outcomes
  <2>2. LockIsHeldByIssuer'
    BY <1>1 DEF Begin, LockIsHeldByIssuer
  <2>3. CacheIsNewest'
    BY <1>1 DEF Begin, CacheIsNewest, Valid
  <2>4. TokensAreReal'
    BY <1>1 DEF Begin, TokensAreReal, Acting
  <2>5. IssuesArePaid'
    BY <1>1 DEF Begin, IssuesArePaid, Valid
  <2> QED
    BY <2>1, <2>2, <2>3, <2>4, <2>5
<1>2. ASSUME NEW r \in Requests, GetCached(r) PROVE IssueInv'
  <2>1. TypeOK'
    BY <1>2 DEF GetCached, Pcs, Outcomes
  <2>2. LockIsHeldByIssuer'
    BY <1>2 DEF GetCached, LockIsHeldByIssuer
  <2>3. CacheIsNewest'
    BY <1>2 DEF GetCached, CacheIsNewest, Valid
  <2>4. TokensAreReal'
    BY <1>2 DEF GetCached, TokensAreReal, Acting, Valid
  <2>5. IssuesArePaid'
    BY <1>2 DEF GetCached, IssuesArePaid, Valid
  <2> QED
    BY <2>1, <2>2, <2>3, <2>4, <2>5
<1>3. ASSUME NEW r \in Requests, WaitForLock(r) PROVE IssueInv'
  <2>1. TypeOK'
    BY <1>3 DEF WaitForLock, Pcs, Outcomes
  <2>2. LockIsHeldByIssuer'
    BY <1>3 DEF WaitForLock, LockIsHeldByIssuer
  <2>3. CacheIsNewest'
    BY <1>3 DEF WaitForLock, CacheIsNewest, Valid
  <2>4. TokensAreReal'
    BY <1>3 DEF WaitForLock, TokensAreReal, Acting
  <2>5. IssuesArePaid'
    BY <1>3 DEF WaitForLock, IssuesArePaid, Valid
  <2> QED
    BY <2>1, <2>2, <2>3, <2>4, <2>5
<1>4. ASSUME NEW r \in Requests, Recheck(r) PROVE IssueInv'
  <2>1. TypeOK'
    BY <1>4 DEF Recheck, Pcs, Outcomes
  <2>2. LockIsHeldByIssuer'
    BY <1>4 DEF Recheck, LockIsHeldByIssuer
  <2>3. CacheIsNewest'
    BY <1>4 DEF Recheck, CacheIsNewest, Valid
  <2>4. TokensAreReal'
    BY <1>4 DEF Recheck, TokensAreReal, Acting, Valid
  <2>5. IssuesArePaid'
    BY <1>4 DEF Recheck, IssuesArePaid, Valid
  <2> QED
    BY <2>1, <2>2, <2>3, <2>4, <2>5
<1>5. ASSUME NEW r \in Requests, AskForToken(r) PROVE IssueInv'
  <2>1. TypeOK'
    BY <1>5 DEF AskForToken, Pcs, Outcomes
  <2>2. LockIsHeldByIssuer'
    BY <1>5 DEF AskForToken, LockIsHeldByIssuer
  <2>3. CacheIsNewest'
    BY <1>5 DEF AskForToken, CacheIsNewest, Valid
  <2>4. TokensAreReal'
    BY <1>5 DEF AskForToken, TokensAreReal, Acting
  <2>5. IssuesArePaid'
    BY <1>5 DEF AskForToken, IssuesArePaid, Valid
  <2> QED
    BY <2>1, <2>2, <2>3, <2>4, <2>5
<1>6. ASSUME NEW r \in Requests, IssueToken(r) PROVE IssueInv'
  <2>1. TypeOK'
    BY <1>6 DEF IssueToken, Pcs, Outcomes
  <2>2. LockIsHeldByIssuer'
    BY <1>6 DEF IssueToken, LockIsHeldByIssuer
  <2>3. CacheIsNewest'
    BY <1>6 DEF IssueToken, CacheIsNewest, Valid
  <2>4. TokensAreReal'
    BY <1>6 DEF IssueToken, TokensAreReal, Acting
  <2>5. IssuesArePaid'
    BY <1>6 DEF IssueToken, IssuesArePaid, Valid, CacheIsNewest,
           LockIsHeldByIssuer
  <2> QED
    BY <2>1, <2>2, <2>3, <2>4, <2>5
<1>7. ASSUME NEW r \in Requests, StoreToken(r) PROVE IssueInv'
  <2>1. TypeOK'
    BY <1>7 DEF StoreToken, Pcs, Outcomes
  <2>2. LockIsHeldByIssuer'
    BY <1>7 DEF StoreToken, LockIsHeldByIssuer
  <2>3. CacheIsNewest'
    BY <1>7 DEF StoreToken, CacheIsNewest, Valid, LockIsHeldByIssuer
  <2>4. TokensAreReal'
    BY <1>7 DEF StoreToken, TokensAreReal, Acting
  <2>5. IssuesArePaid'
    BY <1>7 DEF StoreToken, IssuesArePaid, Valid
  <2> QED
    BY <2>1, <2>2, <2>3, <2>4, <2>5
<1>8. ASSUME NEW r \in Requests, Send(r) PROVE IssueInv'
  <2>1. TypeOK'
    BY <1>8 DEF Send, Pcs, Outcomes
  <2>2. LockIsHeldByIssuer'
    BY <1>8 DEF Send, LockIsHeldByIssuer
  <2>3. CacheIsNewest'
    BY <1>8 DEF Send, CacheIsNewest, Valid
  <2>4. TokensAreReal'
    BY <1>8 DEF Send, TokensAreReal, Acting
  <2>5. IssuesArePaid'
    BY <1>8 DEF Send, IssuesArePaid, Valid
  <2> QED
    BY <2>1, <2>2, <2>3, <2>4, <2>5
<1>9. ASSUME NEW r \in Requests, AnswerOk(r) PROVE IssueInv'
  <2>1. TypeOK'
    BY <1>9 DEF AnswerOk, Pcs, Outcomes
  <2>2. LockIsHeldByIssuer'
    BY <1>9 DEF AnswerOk, LockIsHeldByIssuer
  <2>3. CacheIsNewest'
    BY <1>9 DEF AnswerOk, CacheIsNewest, Valid
  <2>4. TokensAreReal'
    BY <1>9 DEF AnswerOk, TokensAreReal, Acting
  <2>5. IssuesArePaid'
    BY <1>9 DEF AnswerOk, IssuesArePaid, Valid
  <2> QED
    BY <2>1, <2>2, <2>3, <2>4, <2>5
<1>10. ASSUME NEW r \in Requests, Answer401(r) PROVE IssueInv'
  <2>1. TypeOK'
    BY <1>10 DEF Answer401, Pcs, Outcomes
  <2>2. LockIsHeldByIssuer'
    BY <1>10 DEF Answer401, LockIsHeldByIssuer
  <2>3. CacheIsNewest'
    BY <1>10 DEF Answer401, CacheIsNewest, Valid
  <2>4. TokensAreReal'
    BY <1>10 DEF Answer401, TokensAreReal, Acting
  <2>5. IssuesArePaid'
    BY <1>10 DEF Answer401, IssuesArePaid, Valid
  <2> QED
    BY <2>1, <2>2, <2>3, <2>4, <2>5
<1>11. ASSUME NEW r \in Requests, AuthFails(r) PROVE IssueInv'
  <2>1. TypeOK'
    BY <1>11 DEF AuthFails, Pcs, Outcomes
  <2>2. LockIsHeldByIssuer'
    BY <1>11 DEF AuthFails, LockIsHeldByIssuer
  <2>3. CacheIsNewest'
    BY <1>11 DEF AuthFails, CacheIsNewest, Valid
  <2>4. TokensAreReal'
    BY <1>11 DEF AuthFails, TokensAreReal, Acting
  <2>5. IssuesArePaid'
    BY <1>11 DEF AuthFails, IssuesArePaid, Valid
  <2> QED
    BY <2>1, <2>2, <2>3, <2>4, <2>5
<1>12. ASSUME NEW r \in Requests, RetryTransient(r) PROVE IssueInv'
  <2>1. TypeOK'
    BY <1>12 DEF RetryTransient, Pcs, Outcomes
  <2>2. LockIsHeldByIssuer'
    BY <1>12 DEF RetryTransient, LockIsHeldByIssuer
  <2>3. CacheIsNewest'
    BY <1>12 DEF RetryTransient, CacheIsNewest, Valid
  <2>4. TokensAreReal'
    BY <1>12 DEF RetryTransient, TokensAreReal, Acting
  <2>5. IssuesArePaid'
    BY <1>12 DEF RetryTransient, IssuesArePaid, Valid
  <2> QED
    BY <2>1, <2>2, <2>3, <2>4, <2>5
<1>13. ASSUME NEW r \in Requests, AnswerError(r) PROVE IssueInv'
  <2>1. TypeOK'
    BY <1>13 DEF AnswerError, Pcs, Outcomes
  <2>2. LockIsHeldByIssuer'
    BY <1>13 DEF AnswerError, LockIsHeldByIssuer
  <2>3. CacheIsNewest'
    BY <1>13 DEF AnswerError, CacheIsNewest, Valid
  <2>4. TokensAreReal'
    BY <1>13 DEF AnswerError, TokensAreReal, Acting
  <2>5. IssuesArePaid'
    BY <1>13 DEF AnswerError, IssuesArePaid, Valid
  <2> QED
    BY <2>1, <2>2, <2>3, <2>4, <2>5
<1>14. ASSUME NEW r \in Requests, Invalidate(r) PROVE IssueInv'
  <2>1. TypeOK'
    <3>1. fresh' \in BOOLEAN
      <4>1. fresh \in BOOLEAN
        BY Zenon
      <4>2. fresh' = FALSE \/ fresh' = fresh
        BY <1>14 DEF Invalidate
      <4> QED
        BY <4>1, <4>2
    <3>2. cached' \in 0..issued
      BY <1>14 DEF Invalidate
    <3> QED
      BY <1>14, <3>1, <3>2 DEF Invalidate, Pcs, Outcomes
  <2>2. LockIsHeldByIssuer'
    BY <1>14 DEF Invalidate, LockIsHeldByIssuer
  <2>3. CacheIsNewest'
    BY <1>14 DEF Invalidate, CacheIsNewest, Valid
  <2>4. TokensAreReal'
    BY <1>14 DEF Invalidate, TokensAreReal, Acting
  <2>5. IssuesArePaid'
    BY <1>14 DEF Invalidate, IssuesArePaid, Valid, TokensAreReal,
           LockIsHeldByIssuer, CacheIsNewest
  <2> QED
    BY <2>1, <2>2, <2>3, <2>4, <2>5
<1>15. ASSUME NEW r \in Requests, IssueFails(r) PROVE IssueInv'
  <2>1. TypeOK'
    BY <1>15 DEF IssueFails, Pcs, Outcomes
  <2>2. LockIsHeldByIssuer'
    BY <1>15 DEF IssueFails, LockIsHeldByIssuer
  <2>3. CacheIsNewest'
    BY <1>15 DEF IssueFails, CacheIsNewest, Valid
  <2>4. TokensAreReal'
    BY <1>15 DEF IssueFails, TokensAreReal, Acting
  <2>5. IssuesArePaid'
    BY <1>15 DEF IssueFails, IssuesArePaid, Valid
  <2> QED
    BY <2>1, <2>2, <2>3, <2>4, <2>5
<1>16. ASSUME NEW r \in Requests, Cancel(r) PROVE IssueInv'
  <2>1. TypeOK'
    BY <1>16 DEF Cancel, Pcs, Outcomes
  <2>2. LockIsHeldByIssuer'
    BY <1>16 DEF Cancel, LockIsHeldByIssuer
  <2>3. CacheIsNewest'
    BY <1>16 DEF Cancel, CacheIsNewest, Valid
  <2>4. TokensAreReal'
    BY <1>16 DEF Cancel, TokensAreReal, Acting
  <2>5. IssuesArePaid'
    BY <1>16 DEF Cancel, IssuesArePaid, Valid
  <2> QED
    BY <2>1, <2>2, <2>3, <2>4, <2>5
<1>17. ASSUME Expire PROVE IssueInv'
  <2>1. TypeOK'
    <3>1. fresh' \in BOOLEAN
      BY <1>17 DEF Expire
    <3> QED
      BY <1>17, <3>1 DEF Expire, Pcs, Outcomes
  <2>2. LockIsHeldByIssuer'
    BY <1>17 DEF Expire, LockIsHeldByIssuer
  <2>3. CacheIsNewest'
    BY <1>17 DEF Expire, CacheIsNewest, Valid
  <2>4. TokensAreReal'
    BY <1>17 DEF Expire, TokensAreReal, Acting
  <2>5. IssuesArePaid'
    BY <1>17 DEF Expire, IssuesArePaid, Valid
  <2> QED
    BY <2>1, <2>2, <2>3, <2>4, <2>5
<1>18. ASSUME Revoke PROVE IssueInv'
  <2>1. TypeOK'
    BY <1>18 DEF Revoke, Pcs, Outcomes
  <2>2. LockIsHeldByIssuer'
    BY <1>18 DEF Revoke, LockIsHeldByIssuer
  <2>3. CacheIsNewest'
    BY <1>18 DEF Revoke, CacheIsNewest, Valid
  <2>4. TokensAreReal'
    BY <1>18 DEF Revoke, TokensAreReal, Acting
  <2>5. IssuesArePaid'
    BY <1>18 DEF Revoke, IssuesArePaid, Valid
  <2> QED
    BY <2>1, <2>2, <2>3, <2>4, <2>5
<1>19. ASSUME Ended PROVE IssueInv'
  <2>1. TypeOK'
    BY <1>19 DEF Ended, Pcs, Outcomes, vars
  <2>2. LockIsHeldByIssuer'
    BY <1>19 DEF Ended, LockIsHeldByIssuer, vars
  <2>3. CacheIsNewest'
    BY <1>19 DEF Ended, CacheIsNewest, Valid, vars
  <2>4. TokensAreReal'
    BY <1>19 DEF Ended, TokensAreReal, Acting, vars
  <2>5. IssuesArePaid'
    BY <1>19 DEF Ended, IssuesArePaid, Valid, vars
  <2> QED
    BY <2>1, <2>2, <2>3, <2>4, <2>5
<1>20. CASE UNCHANGED vars
  BY <1>20 DEF vars, TypeOK, LockIsHeldByIssuer, CacheIsNewest,
           TokensAreReal, IssuesArePaid, Pcs, Outcomes, Valid,
           Acting
<1> QED
  BY <1>1, <1>2, <1>3, <1>4, <1>5, <1>6, <1>7, <1>8, <1>9, <1>10, <1>11,
     <1>12, <1>13, <1>14, <1>15, <1>16, <1>17, <1>18, <1>19, <1>20
     DEF Next, Step

----------------------------------------------------------------------------
\* A request that has not begun carries nothing.
IdleIsClean ==
  \A r \in Requests :
    pc[r] = "idle" => token[r] = 0 /\ ~auth_retried[r] /\ sends[r] = 0 /\ outcome[r] = "none"

\* Every send is the first, or was allowed by a transient failure or the 401.
SendsAreCounted ==
  \A r \in Requests :
    sends[r] <= attempt[r] + (IF auth_retried[r] THEN 1 ELSE 0)
                  + (IF pc[r] \in {"sent", "done"} THEN 1 ELSE 0)

\* How often the accepted token has changed at least, since token t was the
\* newest: once for each token issued after it, and once more for a revocation.
ChangesAfter(t) == (issued - t) + (IF live = 0 /\ issued > t THEN 1 ELSE 0)

\* As much has happened since the request began as since it got its token.
ChangesAreCounted ==
  \A r \in Requests :
    /\ changes >= since[r]
    /\ token[r] # 0 => changes >= since[r] + ChangesAfter(token[r])

\* The service has already changed the token once before r got this one.
Renewed(r) ==
  /\ token[r] # 0
  /\ changes >= since[r] + 1 + (issued - token[r]) + (IF live = 0 THEN 1 ELSE 0)

\* After its 401 a request carries a renewed token, or it still has the
\* rejected one and will not be given that one again.
RetryIsRenewed ==
  \A r \in Requests :
    /\ auth_retried[r] /\ pc[r] \in {"send", "sent"} => Renewed(r)
    /\ auth_retried[r] /\ Fetching(r) =>
         \/ Renewed(r)
         \/ token[r] # 0 /\ (Valid \/ (\E q \in Requests : pc[q] = "issued")
                               => token[r] < issued)

RetryInv ==
  /\ IdleIsClean
  /\ SendsAreCounted
  /\ ChangesAreCounted
  /\ RetryIsRenewed
  /\ AuthFailureIsEarned

\* No step breaks the accounting of a request's sends and of the service's
\* changes, given the invariant of the token manager.
LEMMA RetryInductive == IssueInv /\ RetryInv /\ [Next]_vars => RetryInv'
<1> SUFFICES ASSUME IssueInv, RetryInv, [Next]_vars PROVE RetryInv'
  OBVIOUS
<1> USE RequestsAssumption, RetriesAssumption
<1> USE DEF IssueInv, RetryInv, TypeOK, Goto, Carry, Finish, request, manager, service
<1>1. ASSUME NEW r \in Requests, Begin(r) PROVE RetryInv'
  <2>1. IdleIsClean'
    BY <1>1 DEF Begin, IdleIsClean
  <2>2. SendsAreCounted'
    BY <1>1 DEF Begin, SendsAreCounted, IdleIsClean
  <2>3. ChangesAreCounted'
    BY <1>1 DEF Begin, ChangesAreCounted, ChangesAfter, IdleIsClean
  <2>4. RetryIsRenewed'
    BY <1>1 DEF Begin, RetryIsRenewed, Renewed, Fetching, Valid,
           IdleIsClean
  <2>5. AuthFailureIsEarned'
    BY <1>1 DEF Begin, AuthFailureIsEarned, IdleIsClean
  <2> QED
    BY <2>1, <2>2, <2>3, <2>4, <2>5
<1>2. ASSUME NEW r \in Requests, GetCached(r) PROVE RetryInv'
  <2>1. IdleIsClean'
    BY <1>2 DEF GetCached, IdleIsClean
  <2>2. SendsAreCounted'
    BY <1>2 DEF GetCached, SendsAreCounted
  <2>3. ChangesAreCounted'
    BY <1>2 DEF GetCached, ChangesAreCounted, ChangesAfter,
           CacheIsNewest, Valid
  <2>4. RetryIsRenewed'
    BY <1>2 DEF GetCached, RetryIsRenewed, Renewed, Fetching, Valid,
           CacheIsNewest, ChangesAreCounted, ChangesAfter,
           LockIsHeldByIssuer
  <2>5. AuthFailureIsEarned'
    BY <1>2 DEF GetCached, AuthFailureIsEarned
  <2> QED
    BY <2>1, <2>2, <2>3, <2>4, <2>5
<1>3. ASSUME NEW r \in Requests, WaitForLock(r) PROVE RetryInv'
  <2>1. IdleIsClean'
    BY <1>3 DEF WaitForLock, IdleIsClean
  <2>2. SendsAreCounted'
    BY <1>3 DEF WaitForLock, SendsAreCounted
  <2>3. ChangesAreCounted'
    BY <1>3 DEF WaitForLock, ChangesAreCounted, ChangesAfter
  <2>4. RetryIsRenewed'
    BY <1>3 DEF WaitForLock, RetryIsRenewed, Renewed, Fetching,
           Valid, LockIsHeldByIssuer, CacheIsNewest
  <2>5. AuthFailureIsEarned'
    BY <1>3 DEF WaitForLock, AuthFailureIsEarned
  <2> QED
    BY <2>1, <2>2, <2>3, <2>4, <2>5
<1>4. ASSUME NEW r \in Requests, Recheck(r) PROVE RetryInv'
  <2>1. IdleIsClean'
    BY <1>4 DEF Recheck, IdleIsClean
  <2>2. SendsAreCounted'
    BY <1>4 DEF Recheck, SendsAreCounted
  <2>3. ChangesAreCounted'
    BY <1>4 DEF Recheck, ChangesAreCounted, ChangesAfter,
           CacheIsNewest, Valid
  <2>4. RetryIsRenewed'
    BY <1>4 DEF Recheck, RetryIsRenewed, Renewed, Fetching, Valid,
           CacheIsNewest, ChangesAreCounted, ChangesAfter,
           LockIsHeldByIssuer
  <2>5. AuthFailureIsEarned'
    BY <1>4 DEF Recheck, AuthFailureIsEarned
  <2> QED
    BY <2>1, <2>2, <2>3, <2>4, <2>5
<1>5. ASSUME NEW r \in Requests, AskForToken(r) PROVE RetryInv'
  <2>1. IdleIsClean'
    BY <1>5 DEF AskForToken, IdleIsClean
  <2>2. SendsAreCounted'
    BY <1>5 DEF AskForToken, SendsAreCounted
  <2>3. ChangesAreCounted'
    BY <1>5 DEF AskForToken, ChangesAreCounted, ChangesAfter
  <2>4. RetryIsRenewed'
    BY <1>5 DEF AskForToken, RetryIsRenewed, Renewed, Fetching,
           Valid, LockIsHeldByIssuer, CacheIsNewest
  <2>5. AuthFailureIsEarned'
    BY <1>5 DEF AskForToken, AuthFailureIsEarned
  <2> QED
    BY <2>1, <2>2, <2>3, <2>4, <2>5
<1>6. ASSUME NEW r \in Requests, IssueToken(r) PROVE RetryInv'
  <2>1. IdleIsClean'
    BY <1>6 DEF IssueToken, IdleIsClean
  <2>2. SendsAreCounted'
    BY <1>6 DEF IssueToken, SendsAreCounted
  <2>3. ChangesAreCounted'
    BY <1>6 DEF IssueToken, ChangesAreCounted, ChangesAfter
  <2>4. RetryIsRenewed'
    BY <1>6 DEF IssueToken, RetryIsRenewed, Renewed, Fetching,
           Valid, LockIsHeldByIssuer, CacheIsNewest
  <2>5. AuthFailureIsEarned'
    BY <1>6 DEF IssueToken, AuthFailureIsEarned
  <2> QED
    BY <2>1, <2>2, <2>3, <2>4, <2>5
<1>7. ASSUME NEW r \in Requests, StoreToken(r) PROVE RetryInv'
  <2>1. IdleIsClean'
    BY <1>7 DEF StoreToken, IdleIsClean
  <2>2. SendsAreCounted'
    BY <1>7 DEF StoreToken, SendsAreCounted
  <2>3. ChangesAreCounted'
    BY <1>7 DEF StoreToken, ChangesAreCounted, ChangesAfter,
           CacheIsNewest, Valid
  <2>4. RetryIsRenewed'
    BY <1>7 DEF StoreToken, RetryIsRenewed, Renewed, Fetching,
           Valid, CacheIsNewest, ChangesAreCounted,
           ChangesAfter, LockIsHeldByIssuer
  <2>5. AuthFailureIsEarned'
    BY <1>7 DEF StoreToken, AuthFailureIsEarned
  <2> QED
    BY <2>1, <2>2, <2>3, <2>4, <2>5
<1>8. ASSUME NEW r \in Requests, Send(r) PROVE RetryInv'
  <2>1. IdleIsClean'
    BY <1>8 DEF Send, IdleIsClean
  <2>2. SendsAreCounted'
    BY <1>8 DEF Send, SendsAreCounted
  <2>3. ChangesAreCounted'
    BY <1>8 DEF Send, ChangesAreCounted, ChangesAfter
  <2>4. RetryIsRenewed'
    BY <1>8 DEF Send, RetryIsRenewed, Renewed, Fetching, Valid
  <2>5. AuthFailureIsEarned'
    BY <1>8 DEF Send, AuthFailureIsEarned
  <2> QED
    BY <2>1, <2>2, <2>3, <2>4, <2>5
<1>9. ASSUME NEW r \in Requests, AnswerOk(r) PROVE RetryInv'
  <2>1. IdleIsClean'
    BY <1>9 DEF AnswerOk, IdleIsClean
  <2>2. SendsAreCounted'
    BY <1>9 DEF AnswerOk, SendsAreCounted
  <2>3. ChangesAreCounted'
    BY <1>9 DEF AnswerOk, ChangesAreCounted, ChangesAfter
  <2>4. RetryIsRenewed'
    BY <1>9 DEF AnswerOk, RetryIsRenewed, Renewed, Fetching, Valid
  <2>5. AuthFailureIsEarned'
    BY <1>9 DEF AnswerOk, AuthFailureIsEarned
  <2> QED
    BY <2>1, <2>2, <2>3, <2>4, <2>5
<1>10. ASSUME NEW r \in Requests, Answer401(r) PROVE RetryInv'
  <2>1. IdleIsClean'
    BY <1>10 DEF Answer401, IdleIsClean
  <2>2. SendsAreCounted'
    BY <1>10 DEF Answer401, SendsAreCounted
  <2>3. ChangesAreCounted'
    BY <1>10 DEF Answer401, ChangesAreCounted, ChangesAfter
  <2>4. RetryIsRenewed'
    BY <1>10 DEF Answer401, RetryIsRenewed, Renewed, Fetching, Valid
  <2>5. AuthFailureIsEarned'
    BY <1>10 DEF Answer401, AuthFailureIsEarned
  <2> QED
    BY <2>1, <2>2, <2>3, <2>4, <2>5
<1>11. ASSUME NEW r \in Requests, AuthFails(r) PROVE RetryInv'
  <2>1. IdleIsClean'
    BY <1>11 DEF AuthFails, IdleIsClean
  <2>2. SendsAreCounted'
    BY <1>11 DEF AuthFails, SendsAreCounted
  <2>3. ChangesAreCounted'
    BY <1>11 DEF AuthFails, ChangesAreCounted, ChangesAfter
  <2>4. RetryIsRenewed'
    BY <1>11 DEF AuthFails, RetryIsRenewed, Renewed, Fetching, Valid
  <2>5. AuthFailureIsEarned'
    BY <1>11 DEF AuthFails, AuthFailureIsEarned, RetryIsRenewed,
           Renewed
  <2> QED
    BY <2>1, <2>2, <2>3, <2>4, <2>5
<1>12. ASSUME NEW r \in Requests, RetryTransient(r) PROVE RetryInv'
  <2>1. IdleIsClean'
    BY <1>12 DEF RetryTransient, IdleIsClean
  <2>2. SendsAreCounted'
    BY <1>12 DEF RetryTransient, SendsAreCounted
  <2>3. ChangesAreCounted'
    BY <1>12 DEF RetryTransient, ChangesAreCounted, ChangesAfter
  <2>4. RetryIsRenewed'
    BY <1>12 DEF RetryTransient, RetryIsRenewed, Renewed, Fetching,
           Valid
  <2>5. AuthFailureIsEarned'
    BY <1>12 DEF RetryTransient, AuthFailureIsEarned
  <2> QED
    BY <2>1, <2>2, <2>3, <2>4, <2>5
<1>13. ASSUME NEW r \in Requests, AnswerError(r) PROVE RetryInv'
  <2>1. IdleIsClean'
    BY <1>13 DEF AnswerError, IdleIsClean
  <2>2. SendsAreCounted'
    BY <1>13 DEF AnswerError, SendsAreCounted
  <2>3. ChangesAreCounted'
    BY <1>13 DEF AnswerError, ChangesAreCounted, ChangesAfter
  <2>4. RetryIsRenewed'
    BY <1>13 DEF AnswerError, RetryIsRenewed, Renewed, Fetching,
           Valid
  <2>5. AuthFailureIsEarned'
    BY <1>13 DEF AnswerError, AuthFailureIsEarned
  <2> QED
    BY <2>1, <2>2, <2>3, <2>4, <2>5
<1>14. ASSUME NEW r \in Requests, Invalidate(r) PROVE RetryInv'
  <2>1. IdleIsClean'
    BY <1>14 DEF Invalidate, IdleIsClean
  <2>2. SendsAreCounted'
    BY <1>14 DEF Invalidate, SendsAreCounted
  <2>3. ChangesAreCounted'
    BY <1>14 DEF Invalidate, ChangesAreCounted, ChangesAfter
  <2>4. RetryIsRenewed'
    BY <1>14 DEF Invalidate, RetryIsRenewed, Renewed, Fetching,
           Valid, LockIsHeldByIssuer, CacheIsNewest,
           TokensAreReal, Acting
  <2>5. AuthFailureIsEarned'
    BY <1>14 DEF Invalidate, AuthFailureIsEarned
  <2> QED
    BY <2>1, <2>2, <2>3, <2>4, <2>5
<1>15. ASSUME NEW r \in Requests, IssueFails(r) PROVE RetryInv'
  <2>1. IdleIsClean'
    BY <1>15 DEF IssueFails, IdleIsClean
  <2>2. SendsAreCounted'
    BY <1>15 DEF IssueFails, SendsAreCounted
  <2>3. ChangesAreCounted'
    BY <1>15 DEF IssueFails, ChangesAreCounted, ChangesAfter
  <2>4. RetryIsRenewed'
    BY <1>15 DEF IssueFails, RetryIsRenewed, Renewed, Fetching, Valid
  <2>5. AuthFailureIsEarned'
    BY <1>15 DEF IssueFails, AuthFailureIsEarned
  <2> QED
    BY <2>1, <2>2, <2>3, <2>4, <2>5
<1>16. ASSUME NEW r \in Requests, Cancel(r) PROVE RetryInv'
  <2>1. IdleIsClean'
    BY <1>16 DEF Cancel, IdleIsClean
  <2>2. SendsAreCounted'
    BY <1>16 DEF Cancel, SendsAreCounted
  <2>3. ChangesAreCounted'
    BY <1>16 DEF Cancel, ChangesAreCounted, ChangesAfter
  <2>4. RetryIsRenewed'
    BY <1>16 DEF Cancel, RetryIsRenewed, Renewed, Fetching, Valid
  <2>5. AuthFailureIsEarned'
    BY <1>16 DEF Cancel, AuthFailureIsEarned
  <2> QED
    BY <2>1, <2>2, <2>3, <2>4, <2>5
<1>17. ASSUME Expire PROVE RetryInv'
  <2>1. IdleIsClean'
    BY <1>17 DEF Expire, IdleIsClean
  <2>2. SendsAreCounted'
    BY <1>17 DEF Expire, SendsAreCounted
  <2>3. ChangesAreCounted'
    BY <1>17 DEF Expire, ChangesAreCounted, ChangesAfter
  <2>4. RetryIsRenewed'
    BY <1>17 DEF Expire, RetryIsRenewed, Renewed, Fetching, Valid
  <2>5. AuthFailureIsEarned'
    BY <1>17 DEF Expire, AuthFailureIsEarned
  <2> QED
    BY <2>1, <2>2, <2>3, <2>4, <2>5
<1>18. ASSUME Revoke PROVE RetryInv'
  <2>1. IdleIsClean'
    BY <1>18 DEF Revoke, IdleIsClean
  <2>2. SendsAreCounted'
    BY <1>18 DEF Revoke, SendsAreCounted
  <2>3. ChangesAreCounted'
    BY <1>18 DEF Revoke, ChangesAreCounted, ChangesAfter
  <2>4. RetryIsRenewed'
    BY <1>18 DEF Revoke, RetryIsRenewed, Renewed, Fetching, Valid,
           LockIsHeldByIssuer, CacheIsNewest
  <2>5. AuthFailureIsEarned'
    BY <1>18 DEF Revoke, AuthFailureIsEarned
  <2> QED
    BY <2>1, <2>2, <2>3, <2>4, <2>5
<1>19. ASSUME Ended PROVE RetryInv'
  <2>1. IdleIsClean'
    BY <1>19 DEF Ended, IdleIsClean, vars
  <2>2. SendsAreCounted'
    BY <1>19 DEF Ended, SendsAreCounted, vars
  <2>3. ChangesAreCounted'
    BY <1>19 DEF Ended, ChangesAreCounted, ChangesAfter, vars
  <2>4. RetryIsRenewed'
    BY <1>19 DEF Ended, RetryIsRenewed, Renewed, Fetching, Valid,
           vars
  <2>5. AuthFailureIsEarned'
    BY <1>19 DEF Ended, AuthFailureIsEarned, vars
  <2> QED
    BY <2>1, <2>2, <2>3, <2>4, <2>5
<1>20. CASE UNCHANGED vars
  BY <1>20 DEF vars, IdleIsClean, SendsAreCounted,
           ChangesAreCounted, RetryIsRenewed,
           AuthFailureIsEarned, ChangesAfter, Renewed,
           Fetching, Valid
<1> QED
  BY <1>1, <1>2, <1>3, <1>4, <1>5, <1>6, <1>7, <1>8, <1>9, <1>10, <1>11,
     <1>12, <1>13, <1>14, <1>15, <1>16, <1>17, <1>18, <1>19, <1>20
     DEF Next, Step

----------------------------------------------------------------------------
\* Both invariants hold from the start and are kept.
LEMMA TossInvariant == Spec => [](IssueInv /\ RetryInv)
<1>1. Init => IssueInv
  <2> SUFFICES ASSUME Init PROVE IssueInv
    OBVIOUS
  <2> USE DEF Init
  <2>1. TypeOK
    <3>1. fresh \in BOOLEAN
      BY Zenon
    <3>2. auth_retried \in [Requests -> BOOLEAN]
      OBVIOUS
    <3> QED
      BY <3>1, <3>2, RetriesAssumption DEF TypeOK, Pcs, Outcomes
  <2>2. LockIsHeldByIssuer
    BY RequestsAssumption DEF LockIsHeldByIssuer
  <2>3. CacheIsNewest /\ TokensAreReal /\ IssuesArePaid
    BY DEF CacheIsNewest, Valid, TokensAreReal, Acting, IssuesArePaid
  <2> QED
    BY <2>1, <2>2, <2>3 DEF IssueInv
<1>2. Init => RetryInv
  BY DEF Init, RetryInv, IdleIsClean, SendsAreCounted, ChangesAreCounted,
         RetryIsRenewed, AuthFailureIsEarned
<1> QED
  BY <1>1, <1>2, IssueInductive, RetryInductive, PTL DEF Spec

\* TokenManager.get: however many requests find the token missing, only the
\* holder of the lock asks the issuer, the lock is free again after every
\* exception and cancellation, and no more tokens are asked for than were lost.
THEOREM TokenIsIssuedOnce == Spec => []IssuingIsExclusive
<1>1. IssueInv => IssuingIsExclusive
  BY DEF IssueInv, IssuingIsExclusive, IssuesArePaid, NoRefreshStorm
<1> QED
  BY <1>1, TossInvariant, PTL

\* _request: the one renewal after a 401 is enough unless the service changed
\* the accepted token twice meanwhile, and no request is sent more often than
\* its retries allow.
THEOREM OneRenewalIsEnough == Spec => []RetriesAreEarned
<1>1. IssueInv /\ RetryInv => RetriesAreEarned
  <2> SUFFICES ASSUME IssueInv, RetryInv PROVE SendsAreBounded
    BY DEF RetriesAreEarned, RetryInv
  <2> SUFFICES ASSUME NEW r \in Requests PROVE sends[r] <= MaxRetries + 2
    BY DEF SendsAreBounded
  <2>1. attempt[r] \in 0..MaxRetries /\ sends[r] \in Nat
    BY DEF IssueInv, TypeOK
  <2>2. sends[r] <= attempt[r] + (IF auth_retried[r] THEN 1 ELSE 0)
                      + (IF pc[r] \in {"sent", "done"} THEN 1 ELSE 0)
    BY DEF RetryInv, SendsAreCounted
  <2> QED
    BY <2>1, <2>2, RetriesAssumption
<1> QED
  BY <1>1, TossInvariant, PTL

\* TokenManager.invalidate and the double check: no interleaving of late 401s
\* and renewals throws away a token that the service still accepts.
THEOREM AcceptedTokenSurvives == Spec => AcceptedTokenIsKept
<1>1. IssueInv /\ [Next]_vars => [cached' # cached /\ cached # 0 => cached # live]_vars
  <2> SUFFICES ASSUME IssueInv, Next, cached' # cached, cached # 0
               PROVE  cached # live
    OBVIOUS
  <2> USE DEF manager, service
  <2>1. ASSUME NEW r \in Requests, StoreToken(r) PROVE cached # live
    BY <2>1 DEF StoreToken, IssueInv, TypeOK, CacheIsNewest
  <2>2. ASSUME NEW r \in Requests, Invalidate(r) PROVE cached # live
    BY <2>2 DEF Invalidate, IssueInv, TokensAreReal
  <2> QED
    BY <2>1, <2>2
       DEF Next, Step, Begin, GetCached, WaitForLock, Recheck, AskForToken,
           IssueToken, Send, AnswerOk, Answer401, AuthFails, RetryTransient,
           AnswerError, IssueFails, Cancel, Expire, Revoke, Ended, vars
<1> QED
  BY <1>1, TossInvariant, PTL DEF Spec, AcceptedTokenIsKept
=============================================================================
