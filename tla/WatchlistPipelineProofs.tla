---------------------- MODULE WatchlistPipelineProofs ----------------------
(***************************************************************************)
(* Proofs about WatchlistPipeline for every set of requests and dates.     *)
(***************************************************************************)
EXTENDS WatchlistPipeline, TLAPS

(***************************************************************************)
(* What the row updates of repository.py make of a well-typed row.         *)
(***************************************************************************)

\* finish(SUCCEEDED) and finish(FAILED) keep a row well-typed.
LEMMA FinishType ==
  ASSUME NEW row \in ExecutionRows, NEW status \in Statuses, NEW s \in Stages,
         NEW error \in Errors, NEW screened \in BOOLEAN,
         NEW persisted \in 0..MaxItems
  PROVE  /\ [row EXCEPT !.status = status, !.stage = s, !.screened = screened,
                        !.persisted = persisted, !.error = error]
            \in ExecutionRows
         /\ [row EXCEPT !.status = status, !.stage = s, !.error = error]
            \in ExecutionRows
  BY DEF ExecutionRows

\* The stale mark of acquire() keeps the table well-typed.
LEMMA RecoveredType ==
  ASSUME NEW ex \in [Requests -> ExecutionRows], NEW q \in Requests
  PROVE  Recovered(ex, q) \in [Requests -> ExecutionRows]
  BY ZenonT(60) DEF Recovered, ExecutionRows, Statuses, Errors

\* The row acquire() inserts is well-typed.
LEMMA InsertedType ==
  ASSUME NEW n \in Nat
  PROVE  [NoExecution EXCEPT !.status = "running", !.started = n]
         \in ExecutionRows
<1>1. 0 \in 0..MaxItems
  BY ItemsAssumption
<1>2. NoExecution \in ExecutionRows
  BY <1>1 DEF NoExecution, ExecutionRows, Statuses, Errors, Stages
<1> QED
  BY <1>2 DEF ExecutionRows, Statuses

\* The first row of a query is a request, or Nobody when there is no row.
LEMMA FirstRowType ==
  ASSUME NEW d, NEW s, NEW q \in FirstRow(Rows(d, s))
  PROVE  q \in Requests \cup {Nobody}
<1>1. CASE Rows(d, s) = {}
  BY <1>1 DEF FirstRow
<1>2. CASE Rows(d, s) # {}
  <2>1. q \in Newest(Rows(d, s))
    BY <1>2 DEF FirstRow
  <2>2. q \in Rows(d, s)
    BY <2>1 DEF Newest
  <2> QED
    BY <2>2 DEF Rows
<1> QED
  BY <1>1, <1>2

\* Every variable keeps its type under every step of run() and its faults.
THEOREM TypeCorrect == Spec => []TypeOK
<1> USE RequestsAssumption, ItemsAssumption
<1>1. Init => TypeOK
  BY DEF Init, TypeOK, Pcs, WorkStages, Errors, Results, ExecutionRows,
         NoExecution, Statuses, Stages, MarketSync, DuplicateCheck
<1>2. TypeOK /\ [Next]_vars => TypeOK'
  <2> SUFFICES ASSUME TypeOK, [Next]_vars PROVE TypeOK'
    OBVIOUS
  <2> USE DEF Goto, Return, ReleaseAdvisory
  <2>1. ASSUME NEW r \in Requests, SkipWeekend(r) PROVE TypeOK'
    BY <2>1 DEF TypeOK, SkipWeekend, Pcs, EndPcs, Results
  <2>2. ASSUME NEW r \in Requests, Submit(r) PROVE TypeOK'
    BY <2>2 DEF TypeOK, Submit, Pcs
  <2>3. ASSUME NEW r \in Requests, LockDate(r) PROVE TypeOK'
    BY <2>3 DEF TypeOK, LockDate, Pcs, AcquirePcs
  <2>4. ASSUME NEW r \in Requests, ReadRunning(r) PROVE TypeOK'
    <3>1. PICK q \in Requests \cup {Nobody} : seen' = [seen EXCEPT ![r].running = q]
      BY <2>4, FirstRowType DEF ReadRunning
    <3>2. seen' \in [Requests -> [running: Requests \cup {Nobody},
                                   succeeded: Requests \cup {Nobody}]]
      BY <3>1 DEF TypeOK
    <3>3. /\ pc' \in [Requests -> Pcs]
          /\ UNCHANGED <<arg, stage, work, loaded, snapshot, result, execution,
                         watchlist, advisory, bars, inserted>>
      BY <2>4 DEF TypeOK, ReadRunning, Pcs, AcquirePcs
    <3> QED
      BY <3>2, <3>3 DEF TypeOK
  <2>5. ASSUME NEW r \in Requests, ReadSucceeded(r) PROVE TypeOK'
    <3>1. PICK q \in Requests \cup {Nobody} : seen' = [seen EXCEPT ![r].succeeded = q]
      BY <2>5, FirstRowType DEF ReadSucceeded, latest_succeeded
    <3>2. seen' \in [Requests -> [running: Requests \cup {Nobody},
                                   succeeded: Requests \cup {Nobody}]]
      BY <3>1, SMTT(60) DEF TypeOK
    <3>3. /\ pc' \in [Requests -> Pcs]
          /\ UNCHANGED <<arg, stage, work, loaded, snapshot, result, execution,
                         watchlist, advisory, bars, inserted>>
      BY <2>5 DEF TypeOK, ReadSucceeded, Pcs, AcquirePcs
    <3> QED
      BY <3>2, <3>3 DEF TypeOK
  <2>6. ASSUME NEW r \in Requests, RefuseIdle(r) PROVE TypeOK'
    BY <2>6 DEF TypeOK, RefuseIdle, Refusal, Pcs, EndPcs, Results
  <2>7. ASSUME NEW r \in Requests, RefuseRunning(r) PROVE TypeOK'
    BY <2>7 DEF TypeOK, RefuseRunning, Pcs, EndPcs, Results
  <2>8. ASSUME NEW r \in Requests, RecoverOnly(r) PROVE TypeOK'
    <3>1. execution' \in [Requests -> ExecutionRows]
      BY <2>8, RecoveredType DEF TypeOK, RecoverOnly, SeesStale
    <3> QED
      BY <2>8, <3>1 DEF TypeOK, RecoverOnly, Refusal, Pcs, EndPcs, Results
  <2>9. ASSUME NEW r \in Requests, Acquire(r) PROVE TypeOK'
    <3> DEFINE after == IF SeesStale(r) THEN Recovered(execution, seen[r].running)
                        ELSE execution
               row == [NoExecution EXCEPT !.status = "running",
                                          !.started = inserted + 1]
    <3>1. after \in [Requests -> ExecutionRows]
      BY RecoveredType DEF TypeOK, SeesStale
    <3>2. row \in ExecutionRows
      <4>1. inserted + 1 \in Nat
        BY DEF TypeOK
      <4> QED
        BY <4>1, InsertedType
    <3>3. execution' = [after EXCEPT ![r] = row]
      BY <2>9 DEF Acquire
    <3> HIDE DEF after, row
    <3>4. execution' \in [Requests -> ExecutionRows]
      BY <3>1, <3>2, <3>3
    <3> QED
      BY <2>9, <3>4 DEF TypeOK, Acquire, Pcs, OwnerPcs, WorkStages, MarketSync, Indicators
  <2>10. ASSUME NEW r \in Requests, SetStage(r) PROVE TypeOK'
    BY <2>10, ZenonT(60) DEF TypeOK, SetStage, Pcs, OwnerPcs, ExecutionRows, Stages
  <2>11. ASSUME NEW r \in Requests, stage[r] \in WorkStages, Advance(r)
         PROVE  /\ pc' \in [Requests -> Pcs]
                /\ stage' \in [Requests -> WorkStages \cup {Persistence}]
    BY <2>11 DEF TypeOK, Advance, NextStage, Pcs, OwnerPcs, WorkStages, MarketSync,
                 Indicators, Screening, Scanning, Ranking, Persistence
  <2>12. ASSUME NEW r \in Requests, Sync(r) PROVE TypeOK'
    BY <2>11, <2>12 DEF TypeOK, Sync, Advance, WorkStages
  <2>13. ASSUME NEW r \in Requests, Inputs(r) PROVE TypeOK'
    <3>1. stage[r] \in WorkStages /\ Advance(r) /\ UNCHANGED bars
      BY <2>13 DEF Inputs, WorkStages
    <3> DEFINE b == arg[r].date \in bars
    <3>2. b \in BOOLEAN /\ work' = [work EXCEPT ![r].screened = b]
      BY <2>13 DEF Inputs
    <3> HIDE DEF b
    <3>3. work' \in [Requests -> [screened: BOOLEAN, ranked: 0..MaxItems]]
      BY <3>2 DEF TypeOK
    <3> QED
      BY <2>11, <3>1, <3>3 DEF TypeOK, Advance
  <2>14. ASSUME NEW r \in Requests, Scan(r) PROVE TypeOK'
    BY <2>11, <2>14 DEF TypeOK, Scan, Advance, WorkStages
  <2>15. ASSUME NEW r \in Requests, Rank(r) PROVE TypeOK'
    <3>1. stage[r] \in WorkStages /\ Advance(r) /\ UNCHANGED bars
      BY <2>15 DEF Rank, WorkStages
    <3>2. work' \in [Requests -> [screened: BOOLEAN, ranked: 0..MaxItems]]
      BY <2>15 DEF TypeOK, Rank
    <3> QED
      BY <2>11, <3>1, <3>2 DEF TypeOK, Advance
  <2>16. ASSUME NEW r \in Requests, Raise(r) PROVE TypeOK'
    BY <2>16 DEF TypeOK, Raise, Pcs, OwnerPcs
  <2>17. ASSUME NEW r \in Requests, LoadRow(r) PROVE TypeOK'
    BY <2>17 DEF TypeOK, LoadRow, Pcs, OwnerPcs, ExecutionRows
  <2>18. ASSUME NEW r \in Requests, FlushFinish(r) PROVE TypeOK'
    BY <2>18 DEF TypeOK, FlushFinish, Pcs, OwnerPcs, InTxnPcs
  <2>19. ASSUME NEW r \in Requests, DeleteItems(r) PROVE TypeOK'
    BY <2>19 DEF TypeOK, DeleteItems, Pcs, OwnerPcs, InTxnPcs
  <2>20. ASSUME NEW r \in Requests, InsertItems(r) PROVE TypeOK'
    BY <2>20 DEF TypeOK, InsertItems, Pcs, OwnerPcs, InTxnPcs
  <2>21. ASSUME NEW r \in Requests, CollideSave(r) PROVE TypeOK'
    BY <2>21 DEF TypeOK, CollideSave, Pcs, OwnerPcs
  <2>22. ASSUME NEW r \in Requests, RollbackSave(r) PROVE TypeOK'
    BY <2>22 DEF TypeOK, RollbackSave, Pcs, OwnerPcs
  <2>23. ASSUME NEW r \in Requests, CommitSave(r) PROVE TypeOK'
    <3>1. ItemsOf(r, work[r].ranked) \subseteq Items
      BY DEF TypeOK, ItemsOf, Items
    <3>2. Finished(r) \in ExecutionRows
      <4>1. /\ execution[r] \in ExecutionRows /\ "succeeded" \in Statuses
            /\ Completed \in Stages
            /\ (IF loaded[r] = "none" THEN execution[r].error ELSE "none") \in Errors
            /\ work[r].screened \in BOOLEAN /\ work[r].ranked \in 0..MaxItems
        BY DEF TypeOK, ExecutionRows, Statuses, Stages, Errors
      <4> QED
        BY <4>1, FinishType, ZenonT(60) DEF Finished
    <3> QED
      BY <2>23, <3>1, <3>2 DEF TypeOK, CommitSave, Pcs, EndPcs, Results
  <2>24. ASSUME NEW r \in Requests, RecordFailure(r) PROVE TypeOK'
    <3> DEFINE row == [execution[r] EXCEPT !.status = "failed", !.stage = stage[r],
                                           !.error = stage[r]]
    <3>1. /\ execution[r] \in ExecutionRows /\ "failed" \in Statuses
          /\ stage[r] \in Stages /\ stage[r] \in Errors
      BY DEF TypeOK, Statuses, Stages, Errors
    <3>2. row \in ExecutionRows
      BY <3>1, FinishType DEF ExecutionRows
    <3>3. execution' = [execution EXCEPT ![r] = row]
      BY <2>24 DEF TypeOK, RecordFailure
    <3> HIDE DEF row
    <3> QED
      BY <2>24, <3>2, <3>3 DEF TypeOK, RecordFailure, Pcs, EndPcs, Results
  <2>25. ASSUME NEW r \in Requests, Crash(r) PROVE TypeOK'
    BY <2>25 DEF TypeOK, Crash, Pcs, EndPcs
  <2>26. ASSUME NEW r \in Requests, Expire(r) PROVE TypeOK'
    BY <2>26, ZenonT(60) DEF TypeOK, Expire, requestVars, ExecutionRows
  <2>27. CASE UNCHANGED vars
    BY <2>27 DEF TypeOK, vars
  <2> QED
    BY <2>1, <2>2, <2>3, <2>4, <2>5, <2>6, <2>7, <2>8, <2>9, <2>10, <2>12,
       <2>13, <2>14, <2>15, <2>16, <2>17, <2>18, <2>19, <2>20, <2>21, <2>22,
       <2>23, <2>24, <2>25, <2>26, <2>27
    DEF Next, RunStep, Ended
<1> QED
  BY <1>1, <1>2, PTL DEF Spec

----------------------------------------------------------------------------
(***************************************************************************)
(* The advisory lock.                                                      *)
(***************************************************************************)

\* A step of an owner that touches neither table nor lock: most of run().
Quiet(r) ==
  /\ pc[r] \in OwnerPcs
  /\ \E to \in OwnerPcs : pc' = [pc EXCEPT ![r] = to]
  /\ UNCHANGED <<arg, seen, result, execution, watchlist, advisory, inserted>>

\* The stages' work, an exception, and the persistence transaction up to its
\* commit are such steps.
LEMMA QuietSteps ==
  ASSUME NEW r \in Requests,
         \/ Sync(r) \/ Inputs(r) \/ Scan(r) \/ Rank(r) \/ Raise(r)
         \/ LoadRow(r) \/ FlushFinish(r) \/ DeleteItems(r) \/ InsertItems(r)
         \/ CollideSave(r) \/ RollbackSave(r)
  PROVE  Quiet(r)
<1> USE DEF Quiet, Goto, OwnerPcs, InTxnPcs
<1>1. CASE Sync(r) \/ Inputs(r) \/ Scan(r) \/ Rank(r)
  BY <1>1 DEF Sync, Inputs, Scan, Rank, Advance
<1>2. CASE Raise(r)
  BY <1>2 DEF Raise
<1>3. CASE LoadRow(r) \/ FlushFinish(r) \/ DeleteItems(r) \/ InsertItems(r)
  BY <1>3 DEF LoadRow, FlushFinish, DeleteItems, InsertItems
<1>4. CASE CollideSave(r) \/ RollbackSave(r)
  BY <1>4 DEF CollideSave, RollbackSave
<1> QED
  BY <1>1, <1>2, <1>3, <1>4

\* The status of every row after the stale mark.
LEMMA RecoveredStatus ==
  ASSUME TypeOK, NEW q \in Requests, NEW p \in Requests
  PROVE  /\ Recovered(execution, q)[p].status =
              IF p = q THEN "failed" ELSE execution[p].status
         /\ p # q => Recovered(execution, q)[p] = execution[p]
         /\ Recovered(execution, q)[p].stale = execution[p].stale
         /\ Recovered(execution, q)[p].started = execution[p].started
         /\ Recovered(execution, q)[p].persisted = execution[p].persisted
  BY DEF TypeOK, Recovered, ExecutionRows

\* The rows after acquire() has inserted r's.
LEMMA AcquiredRows ==
  ASSUME TypeOK, NEW r \in Requests, Acquire(r)
  PROVE  /\ execution'[r].status = "running" /\ ~execution'[r].stale
         /\ execution'[r].started = inserted + 1
         /\ \A p \in Requests \ {r} :
              /\ execution'[p].status =
                   IF SeesStale(r) /\ p = seen[r].running THEN "failed"
                   ELSE execution[p].status
              /\ ~(SeesStale(r) /\ p = seen[r].running) =>
                   execution'[p] = execution[p]
              /\ execution'[p].stale = execution[p].stale
              /\ execution'[p].started = execution[p].started
              /\ execution'[p].persisted = execution[p].persisted
<1> DEFINE after == IF SeesStale(r) THEN Recovered(execution, seen[r].running)
                    ELSE execution
           row == [NoExecution EXCEPT !.status = "running",
                                      !.started = inserted + 1]
<1>1. execution' = [after EXCEPT ![r] = row]
  BY DEF Acquire
<1>2. SeesStale(r) => seen[r].running \in Requests
  BY DEF TypeOK, SeesStale
<1>3. after \in [Requests -> ExecutionRows]
  BY <1>2, RecoveredType DEF TypeOK
<1>4. row.status = "running" /\ row.stale = FALSE /\ row.started = inserted + 1
  BY DEF NoExecution
<1>5. \A p \in Requests :
        /\ after[p].status = IF SeesStale(r) /\ p = seen[r].running THEN "failed"
                             ELSE execution[p].status
        /\ ~(SeesStale(r) /\ p = seen[r].running) => after[p] = execution[p]
        /\ after[p].stale = execution[p].stale
        /\ after[p].started = execution[p].started
        /\ after[p].persisted = execution[p].persisted
  BY <1>2, RecoveredStatus
<1> HIDE DEF after, row
<1> QED
  BY <1>1, <1>3, <1>4, <1>5

\* The UPDATE of an owner's own row leaves the other rows alone.
LEMMA OwnRowOnly ==
  ASSUME TypeOK, NEW r \in Requests,
         SetStage(r) \/ CommitSave(r) \/ RecordFailure(r)
  PROVE  /\ \A p \in Requests \ {r} : execution'[p] = execution[p]
         /\ execution'[r].stale = execution[r].stale
         /\ execution'[r].started = execution[r].started
         /\ SetStage(r) => execution'[r].status = execution[r].status
         /\ CommitSave(r) => /\ execution'[r].status = "succeeded"
                             /\ execution'[r].persisted = work[r].ranked
         /\ RecordFailure(r) => execution'[r].status = "failed"
<1>1. CASE SetStage(r)
  BY <1>1 DEF TypeOK, SetStage, ExecutionRows, CommitSave, RecordFailure
<1>2. CASE CommitSave(r)
  BY <1>2 DEF TypeOK, CommitSave, Finished, ExecutionRows, SetStage, RecordFailure
<1>3. CASE RecordFailure(r)
  BY <1>3 DEF TypeOK, RecordFailure, ExecutionRows, SetStage, CommitSave
<1> QED
  BY <1>1, <1>2, <1>3

\* AcquireInv is inductive.  The steps that can disturb it are the ones that
\* take or free the lock, read under it, or change a row's status.
LEMMA AcquireInductive == TypeOK /\ AcquireInv /\ [Next]_vars => AcquireInv'
<1> SUFFICES ASSUME TypeOK, AcquireInv, [Next]_vars PROVE AcquireInv'
  OBVIOUS
<1> USE RequestsAssumption
<1>t. /\ pc \in [Requests -> Pcs]
      /\ arg \in [Requests -> [date: Dates, force: BOOLEAN]]
      /\ seen \in [Requests -> [running: Requests \cup {Nobody},
                                succeeded: Requests \cup {Nobody}]]
      /\ advisory \in [Dates -> Requests \cup {Nobody}]
  BY DEF TypeOK
<1>1. ASSUME NEW r \in Requests, SkipWeekend(r) \/ Submit(r) PROVE AcquireInv'
  BY <1>t, <1>1 DEF AcquireInv, LockHeld, NoRowYet, ReadsTheRunningRow,
                    ReadsOfItsDate, OneRunningPerDate, SkipWeekend, Submit, Goto, Return,
                    AcquirePcs, BeforePcs, ReadPcs
<1>2. ASSUME NEW r \in Requests, LockDate(r) PROVE AcquireInv'
  BY <1>t, <1>2 DEF AcquireInv, LockHeld, NoRowYet, ReadsTheRunningRow,
                    ReadsOfItsDate, OneRunningPerDate, LockDate, Goto,
                    AcquirePcs, BeforePcs, ReadPcs
<1>3. ASSUME NEW r \in Requests, ReadRunning(r) PROVE AcquireInv'
  <2>1. PICK q \in FirstRow(Rows(arg[r].date, "running")) :
               seen' = [seen EXCEPT ![r].running = q]
    BY <1>3 DEF ReadRunning
  <2>2. \A p \in Requests :
          execution[p].status = "running" /\ arg[p].date = arg[r].date => p = q
    BY <2>1 DEF FirstRow, Newest, Rows, AcquireInv, OneRunningPerDate
  <2>3. q # Nobody => /\ q \in Requests /\ arg[q].date = arg[r].date
                      /\ execution[q].status = "running"
    BY <2>1 DEF FirstRow, Newest, Rows
  <2>4. \A p \in Requests : seen'[p].running = IF p = r THEN q ELSE seen[p].running
    BY <1>t, <2>1
  <2>5. pc' = [pc EXCEPT ![r] = "read_succeeded"] /\ pc[r] = "read_running"
        /\ UNCHANGED <<arg, execution, advisory>>
    BY <1>3 DEF ReadRunning, Goto
  <2> QED
    BY <1>t, <2>2, <2>3, <2>4, <2>5 DEF AcquireInv, LockHeld, NoRowYet, ReadsTheRunningRow,
                    ReadsOfItsDate, OneRunningPerDate,
                    AcquirePcs, BeforePcs, ReadPcs
<1>4. ASSUME NEW r \in Requests, ReadSucceeded(r) PROVE AcquireInv'
  <2>1. \A p \in Requests : seen'[p].running = seen[p].running
    BY <1>t, <1>4 DEF ReadSucceeded
  <2>2. pc' = [pc EXCEPT ![r] = "decide"] /\ pc[r] = "read_succeeded"
        /\ UNCHANGED <<arg, execution, advisory>>
    BY <1>4 DEF ReadSucceeded, Goto
  <2> QED
    BY <1>t, <2>1, <2>2 DEF AcquireInv, LockHeld, NoRowYet, ReadsTheRunningRow,
                    ReadsOfItsDate, OneRunningPerDate,
                    AcquirePcs, BeforePcs, ReadPcs
<1>5. ASSUME NEW r \in Requests, RefuseIdle(r) \/ RefuseRunning(r) PROVE AcquireInv'
  <2>1. /\ pc' = [pc EXCEPT ![r] = "done"] /\ pc[r] = "decide"
        /\ advisory' = [advisory EXCEPT ![arg[r].date] = Nobody]
        /\ UNCHANGED <<arg, execution, seen>>
    BY <1>5 DEF RefuseIdle, RefuseRunning, Goto, Return, ReleaseAdvisory
  <2> QED
    BY <1>t, <2>1 DEF AcquireInv, LockHeld, NoRowYet, ReadsTheRunningRow,
                    ReadsOfItsDate, OneRunningPerDate, AcquirePcs, BeforePcs, ReadPcs
<1>6. ASSUME NEW r \in Requests, RecoverOnly(r) PROVE AcquireInv'
  <2>1. /\ pc' = [pc EXCEPT ![r] = "done"] /\ pc[r] = "decide"
        /\ advisory' = [advisory EXCEPT ![arg[r].date] = Nobody]
        /\ UNCHANGED <<arg, seen>>
        /\ execution' = Recovered(execution, seen[r].running)
        /\ seen[r].running \in Requests
    BY <1>t, <1>6 DEF RecoverOnly, SeesStale, Goto, Return, ReleaseAdvisory
  <2>2. \A p \in Requests :
          execution'[p].status = IF p = seen[r].running THEN "failed"
                                 ELSE execution[p].status
    BY <2>1, RecoveredStatus
  <2>a. LockHeld'
    BY <1>t, <2>1, <2>2 DEF AcquireInv, LockHeld, AcquirePcs
  <2>b. NoRowYet'
    BY <1>t, <2>1, <2>2 DEF AcquireInv, NoRowYet, ReadsOfItsDate, BeforePcs, AcquirePcs, ReadPcs
  <2>c. ReadsTheRunningRow'
    BY <1>t, <2>1, <2>2 DEF AcquireInv, ReadsTheRunningRow, ReadPcs
  <2>d. ReadsOfItsDate'
    BY <1>t, <2>1, <2>2 DEF AcquireInv, ReadsOfItsDate, ReadPcs
  <2>e. OneRunningPerDate'
    BY <1>t, <2>1, <2>2 DEF AcquireInv, LockHeld, NoRowYet, ReadsTheRunningRow,
                    ReadsOfItsDate, OneRunningPerDate
  <2> QED
    BY <2>a, <2>b, <2>c, <2>d, <2>e DEF AcquireInv
<1>7. ASSUME NEW r \in Requests, Acquire(r) PROVE AcquireInv'
  <2>1. /\ pc' = [pc EXCEPT ![r] = "stage"] /\ pc[r] = "decide"
        /\ advisory' = [advisory EXCEPT ![arg[r].date] = Nobody]
        /\ UNCHANGED <<arg, seen>>
        /\ seen[r].running = Nobody \/ SeesStale(r)
    BY <1>7 DEF Acquire, Goto, ReleaseAdvisory
  <2>2. /\ execution'[r].status = "running"
        /\ \A p \in Requests \ {r} :
             execution'[p].status = IF SeesStale(r) /\ p = seen[r].running
                                    THEN "failed" ELSE execution[p].status
    BY <1>7, AcquiredRows
  <2>3. \A p \in Requests \ {r} :
          execution'[p].status = "running" => arg[p].date # arg[r].date
    BY <2>1, <2>2 DEF AcquireInv, ReadsTheRunningRow, ReadPcs
  <2>4. \A p \in Requests \ {r} : pc[p] \in AcquirePcs => arg[p].date # arg[r].date
    BY <2>1 DEF AcquireInv, LockHeld, AcquirePcs
  <2>a. LockHeld'
    BY <1>t, <2>1, <2>2, <2>3, <2>4 DEF AcquireInv, LockHeld, AcquirePcs
  <2>b. NoRowYet'
    BY <1>t, <2>1, <2>2, <2>3, <2>4 DEF AcquireInv, NoRowYet, ReadsOfItsDate, BeforePcs, AcquirePcs, ReadPcs
  <2>c. ReadsTheRunningRow'
    BY <1>t, <2>1, <2>2, <2>3, <2>4 DEF AcquireInv, ReadsTheRunningRow, ReadPcs, AcquirePcs
  <2>d. ReadsOfItsDate'
    BY <1>t, <2>1, <2>2, <2>3, <2>4 DEF AcquireInv, ReadsOfItsDate, ReadPcs
  <2>e. OneRunningPerDate'
    BY <1>t, <2>1, <2>2, <2>3, <2>4 DEF AcquireInv, LockHeld, NoRowYet, ReadsTheRunningRow,
                    ReadsOfItsDate, OneRunningPerDate
  <2> QED
    BY <2>a, <2>b, <2>c, <2>d, <2>e DEF AcquireInv
<1>8. ASSUME NEW r \in Requests, SetStage(r) \/ CommitSave(r) \/ RecordFailure(r)
      PROVE AcquireInv'
  <2>1. /\ pc[r] \notin BeforePcs /\ \E to \in Pcs \ BeforePcs : pc' = [pc EXCEPT ![r] = to]
        /\ UNCHANGED <<arg, seen, advisory>>
    BY <1>8 DEF SetStage, CommitSave, RecordFailure, Goto, Return, BeforePcs,
                AcquirePcs, Pcs, OwnerPcs, InTxnPcs, EndPcs
  <2>2. \A p \in Requests :
          /\ p # r => execution'[p].status = execution[p].status
          /\ execution'[r].status \in {execution[r].status, "succeeded", "failed"}
    BY <1>8, OwnRowOnly
  <2>a. LockHeld'
    BY <1>t, <2>1, <2>2 DEF AcquireInv, LockHeld, AcquirePcs, BeforePcs
  <2>b. NoRowYet'
    BY <1>t, <2>1, <2>2 DEF AcquireInv, NoRowYet, ReadsOfItsDate, BeforePcs, AcquirePcs, ReadPcs
  <2>c. ReadsTheRunningRow'
    BY <1>t, <2>1, <2>2 DEF AcquireInv, ReadsTheRunningRow, ReadPcs, BeforePcs, AcquirePcs
  <2>d. ReadsOfItsDate'
    BY <1>t, <2>1, <2>2 DEF AcquireInv, ReadsOfItsDate, ReadPcs, BeforePcs, AcquirePcs
  <2>e. OneRunningPerDate'
    BY <1>t, <2>1, <2>2 DEF AcquireInv, LockHeld, NoRowYet, ReadsTheRunningRow,
                    ReadsOfItsDate, OneRunningPerDate
  <2> QED
    BY <2>a, <2>b, <2>c, <2>d, <2>e DEF AcquireInv
<1>9. ASSUME NEW r \in Requests, Quiet(r) PROVE AcquireInv'
  BY <1>t, <1>9 DEF AcquireInv, LockHeld, NoRowYet, ReadsTheRunningRow,
                    ReadsOfItsDate, OneRunningPerDate, Quiet, AcquirePcs, BeforePcs,
                    ReadPcs, OwnerPcs, InTxnPcs
<1>10. ASSUME NEW r \in Requests, Crash(r) PROVE AcquireInv'
  BY <1>t, <1>10 DEF AcquireInv, LockHeld, NoRowYet, ReadsTheRunningRow,
                    ReadsOfItsDate, OneRunningPerDate, Crash, Goto, AcquirePcs,
                     BeforePcs, ReadPcs
<1>11. ASSUME NEW r \in Requests, Expire(r) PROVE AcquireInv'
  <2>1. \A p \in Requests : execution'[p].status = execution[p].status
    BY <1>11 DEF Expire, TypeOK, ExecutionRows
  <2> QED
    BY <1>11, <2>1 DEF Expire, requestVars, AcquireInv, LockHeld, NoRowYet,
                    ReadsTheRunningRow, ReadsOfItsDate, OneRunningPerDate
<1>12. CASE UNCHANGED vars
  BY <1>12 DEF vars, AcquireInv, LockHeld, NoRowYet, ReadsTheRunningRow,
                    ReadsOfItsDate, OneRunningPerDate
<1> QED
  BY <1>1, <1>2, <1>3, <1>4, <1>5, <1>6, <1>7, <1>8, <1>9, <1>10, <1>11, <1>12,
     QuietSteps
  DEF Next, RunStep, Ended

\* Without any assumption on the timeout: the advisory lock alone keeps the
\* executions table within the unique index on running rows.
THEOREM OneRunning == Spec => []OneRunningPerDate
<1>1. Init => AcquireInv
  BY DEF Init, AcquireInv, LockHeld, NoRowYet, ReadsTheRunningRow, ReadsOfItsDate,
         OneRunningPerDate, NoExecution, AcquirePcs, ReadPcs
<1>2. AcquireInv => OneRunningPerDate
  BY DEF AcquireInv
<1> QED
  BY <1>1, <1>2, AcquireInductive, TypeCorrect, PTL DEF Spec

----------------------------------------------------------------------------
(***************************************************************************)
(* One owner, as long as no live run outlives the stale timeout.           *)
(***************************************************************************)

\* OwnerInv is inductive given AcquireInv: the only row acquire() takes away
\* is a stale one, and its run is dead.
LEMMA OwnerInductive ==
  ASSUME ~Overrun
  PROVE  TypeOK /\ AcquireInv /\ OwnerInv /\ [Next]_vars => OwnerInv'
<1> SUFFICES ASSUME TypeOK, AcquireInv, OwnerInv, [Next]_vars PROVE OwnerInv'
  OBVIOUS
<1> USE RequestsAssumption
<1>t. /\ pc \in [Requests -> Pcs]
      /\ arg \in [Requests -> [date: Dates, force: BOOLEAN]]
      /\ seen \in [Requests -> [running: Requests \cup {Nobody},
                                succeeded: Requests \cup {Nobody}]]
  BY DEF TypeOK
<1>1. ASSUME NEW r \in Requests,
             SkipWeekend(r) \/ Submit(r) \/ LockDate(r) \/ RefuseIdle(r) \/ RefuseRunning(r)
      PROVE  OwnerInv'
  <2>1. /\ \E to \in Pcs \ (OwnerPcs \cup ReadPcs) : pc' = [pc EXCEPT ![r] = to]
        /\ pc[r] # "crashed"
        /\ UNCHANGED <<arg, seen, execution>>
    BY <1>1 DEF SkipWeekend, Submit, LockDate, RefuseIdle, RefuseRunning, Goto, Return,
                Pcs, AcquirePcs, OwnerPcs, InTxnPcs, EndPcs, ReadPcs
  <2> QED
    BY <1>t, <2>1 DEF OwnerInv, OwnerHasFreshRow, StaleIsDead, SeenStaleIsRunning, SeesStale
<1>2. ASSUME NEW r \in Requests, ReadRunning(r) PROVE OwnerInv'
  <2>1. PICK q \in FirstRow(Rows(arg[r].date, "running")) :
               seen' = [seen EXCEPT ![r].running = q]
    BY <1>2 DEF ReadRunning
  <2>2. q # Nobody => execution[q].status = "running"
    BY <2>1 DEF FirstRow, Newest, Rows
  <2>3. \A p \in Requests : seen'[p].running = IF p = r THEN q ELSE seen[p].running
    BY <1>t, <2>1
  <2>4. /\ pc' = [pc EXCEPT ![r] = "read_succeeded"] /\ pc[r] = "read_running"
        /\ UNCHANGED execution
    BY <1>2 DEF ReadRunning, Goto
  <2> QED
    BY <1>t, <2>2, <2>3, <2>4 DEF OwnerInv, OwnerHasFreshRow, StaleIsDead,
         SeenStaleIsRunning, SeesStale, OwnerPcs, InTxnPcs, ReadPcs
<1>3. ASSUME NEW r \in Requests, ReadSucceeded(r) PROVE OwnerInv'
  <2>1. \A p \in Requests : seen'[p].running = seen[p].running
    BY <1>t, <1>3 DEF ReadSucceeded
  <2>2. /\ pc' = [pc EXCEPT ![r] = "decide"] /\ pc[r] = "read_succeeded"
        /\ UNCHANGED execution
    BY <1>3 DEF ReadSucceeded, Goto
  <2> QED
    BY <1>t, <2>1, <2>2 DEF OwnerInv, OwnerHasFreshRow, StaleIsDead,
         SeenStaleIsRunning, SeesStale, OwnerPcs, InTxnPcs, ReadPcs
<1>4. ASSUME NEW r \in Requests, RecoverOnly(r) PROVE OwnerInv'
  <2>1. /\ pc' = [pc EXCEPT ![r] = "done"] /\ pc[r] = "decide"
        /\ UNCHANGED <<arg, seen>>
        /\ execution' = Recovered(execution, seen[r].running)
        /\ seen[r].running \in Requests /\ execution[seen[r].running].stale
    BY <1>t, <1>4 DEF RecoverOnly, SeesStale, Goto, Return
  <2>2. \A p \in Requests :
          /\ execution'[p].status = IF p = seen[r].running THEN "failed"
                                    ELSE execution[p].status
          /\ execution'[p].stale = execution[p].stale
    BY <2>1, RecoveredStatus
  <2>3. \A p \in Requests \ {r} :
          pc[p] \in ReadPcs /\ seen[p].running # Nobody => seen[p].running # seen[r].running
    BY <2>1 DEF AcquireInv, LockHeld, ReadsOfItsDate, ReadPcs, AcquirePcs
  <2>4. OwnerHasFreshRow'
    BY <1>t, <2>1, <2>2 DEF OwnerInv, OwnerHasFreshRow, StaleIsDead, OwnerPcs, InTxnPcs
  <2>5. StaleIsDead'
    BY <1>t, <2>1, <2>2 DEF OwnerInv, StaleIsDead
  <2>6. SeenStaleIsRunning'
    BY <1>t, <2>1, <2>2, <2>3 DEF OwnerInv, SeenStaleIsRunning, SeesStale, ReadPcs
  <2> QED
    BY <2>4, <2>5, <2>6 DEF OwnerInv
<1>5. ASSUME NEW r \in Requests, Acquire(r) PROVE OwnerInv'
  <2>1. /\ pc' = [pc EXCEPT ![r] = "stage"] /\ pc[r] = "decide"
        /\ UNCHANGED <<arg, seen>>
    BY <1>5 DEF Acquire, Goto
  <2>2. /\ execution'[r].status = "running" /\ ~execution'[r].stale
        /\ \A p \in Requests \ {r} :
             /\ execution'[p].status = IF SeesStale(r) /\ p = seen[r].running
                                       THEN "failed" ELSE execution[p].status
             /\ execution'[p].stale = execution[p].stale
    BY <1>5, AcquiredRows
  <2>3. \A p \in Requests \ {r} :
          pc[p] \in ReadPcs /\ seen[p].running # Nobody =>
            seen[p].running # seen[r].running /\ seen[p].running # r
    BY <2>1 DEF AcquireInv, LockHeld, NoRowYet, ReadsOfItsDate, ReadPcs, AcquirePcs,
                BeforePcs
  <2>4. OwnerHasFreshRow'
    BY <1>t, <2>1, <2>2 DEF OwnerInv, OwnerHasFreshRow, StaleIsDead, SeesStale,
                            OwnerPcs, InTxnPcs
  <2>5. StaleIsDead'
    BY <1>t, <2>1, <2>2 DEF OwnerInv, StaleIsDead
  <2>6. SeenStaleIsRunning'
    BY <1>t, <2>1, <2>2, <2>3 DEF OwnerInv, SeenStaleIsRunning, SeesStale, ReadPcs
  <2> QED
    BY <2>4, <2>5, <2>6 DEF OwnerInv
<1>6. ASSUME NEW r \in Requests, SetStage(r) \/ CommitSave(r) \/ RecordFailure(r)
      PROVE OwnerInv'
  <2>1. /\ pc[r] \in OwnerPcs
        /\ SetStage(r) => pc' \in {[pc EXCEPT ![r] = "persist"], [pc EXCEPT ![r] = "work"]}
        /\ CommitSave(r) \/ RecordFailure(r) => pc' = [pc EXCEPT ![r] = "done"]
        /\ UNCHANGED <<arg, seen>>
    BY <1>6 DEF SetStage, CommitSave, RecordFailure, Goto, Return, OwnerPcs, InTxnPcs
  <2>2. /\ \A p \in Requests \ {r} : execution'[p] = execution[p]
        /\ execution'[r].stale = execution[r].stale
        /\ SetStage(r) => execution'[r].status = execution[r].status
    BY <1>6, OwnRowOnly
  <2>3. ~execution[r].stale /\ execution[r].status = "running"
    BY <2>1 DEF OwnerInv, OwnerHasFreshRow
  <2>4. OwnerHasFreshRow'
    BY <1>t, <1>6, <2>1, <2>2, <2>3 DEF OwnerInv, OwnerHasFreshRow, OwnerPcs, InTxnPcs
  <2>5. StaleIsDead'
    BY <1>t, <1>6, <2>1, <2>2, <2>3 DEF OwnerInv, StaleIsDead
  <2>6. SeenStaleIsRunning'
    BY <1>t, <1>6, <2>1, <2>2, <2>3 DEF OwnerInv, SeenStaleIsRunning, SeesStale, ReadPcs
  <2> QED
    BY <2>4, <2>5, <2>6 DEF OwnerInv
<1>7. ASSUME NEW r \in Requests, Quiet(r) PROVE OwnerInv'
  BY <1>t, <1>7 DEF Quiet, OwnerInv, OwnerHasFreshRow, StaleIsDead, SeenStaleIsRunning,
                    SeesStale, OwnerPcs, InTxnPcs, ReadPcs
<1>8. ASSUME NEW r \in Requests, Crash(r) PROVE OwnerInv'
  BY <1>t, <1>8 DEF Crash, Goto, OwnerInv, OwnerHasFreshRow, StaleIsDead,
                    SeenStaleIsRunning, SeesStale, OwnerPcs, InTxnPcs, ReadPcs
<1>9. ASSUME NEW r \in Requests, Expire(r) PROVE OwnerInv'
  <2>1. /\ \A p \in Requests :
             /\ execution'[p].status = execution[p].status
             /\ p # r => execution'[p] = execution[p]
        /\ execution[r].status = "running" /\ pc[r] = "crashed"
        /\ UNCHANGED <<pc, seen>>
    BY <1>9 DEF Expire, requestVars, TypeOK, ExecutionRows
  <2>2. OwnerHasFreshRow' /\ StaleIsDead'
    BY <2>1 DEF OwnerInv, OwnerHasFreshRow, StaleIsDead, OwnerPcs, InTxnPcs
  <2>3. SeenStaleIsRunning'
    BY <1>t, <2>1 DEF OwnerInv, SeenStaleIsRunning, SeesStale
  <2> QED
    BY <2>2, <2>3 DEF OwnerInv
<1>10. CASE UNCHANGED vars
  BY <1>10 DEF vars, OwnerInv, OwnerHasFreshRow, StaleIsDead, SeenStaleIsRunning, SeesStale
<1> QED
  BY <1>1, <1>2, <1>3, <1>4, <1>5, <1>6, <1>7, <1>8, <1>9, <1>10, QuietSteps
  DEF Next, RunStep, Ended

\* The two invariants hold of every reachable state.
LEMMA OwnerInvariant ==
  ASSUME ~Overrun
  PROVE  Spec => [](TypeOK /\ AcquireInv /\ OwnerInv)
<1>1. Init => AcquireInv /\ OwnerInv
  BY DEF Init, AcquireInv, LockHeld, NoRowYet, ReadsTheRunningRow, ReadsOfItsDate,
         OneRunningPerDate, NoExecution, AcquirePcs, ReadPcs, OwnerInv,
         OwnerHasFreshRow, StaleIsDead, SeenStaleIsRunning, OwnerPcs, InTxnPcs
<1> QED
  BY <1>1, AcquireInductive, OwnerInductive, TypeCorrect, PTL DEF Spec

\* When no live run outlives the stale timeout, no two runs ever work on the
\* same date: the lock of a date passes on only when its owner has ended.
THEOREM OwnersExclude ==
  ASSUME ~Overrun
  PROVE  Spec => []OneOwner
<1>1. AcquireInv /\ OwnerInv => OneOwner
  BY DEF AcquireInv, OneRunningPerDate, OwnerInv, OwnerHasFreshRow, OneOwner
<1> QED
  BY <1>1, OwnerInvariant, PTL

\* What each step does to the rows: only a running row is ever rewritten, and
\* only an owner's commit makes a success.
RowStep ==
  /\ \A p \in Requests :
       execution[p].status \in {"succeeded", "failed"} => execution'[p] = execution[p]
  /\ \A p \in Requests :
       execution'[p].status = "succeeded" =>
         execution[p].status = "succeeded" \/ CommitSave(p)

\* Every step changes rows in that way only.
LEMMA RowSteps ==
  ASSUME ~Overrun
  PROVE  TypeOK /\ AcquireInv /\ OwnerInv /\ [Next]_vars => RowStep
<1> SUFFICES ASSUME TypeOK, AcquireInv, OwnerInv, [Next]_vars PROVE RowStep
  OBVIOUS
<1> USE RequestsAssumption
<1>1. ASSUME UNCHANGED execution PROVE RowStep
  BY <1>1 DEF RowStep
<1>2. ASSUME NEW r \in Requests,
             \/ SkipWeekend(r) \/ Submit(r) \/ LockDate(r) \/ ReadRunning(r)
             \/ ReadSucceeded(r) \/ RefuseIdle(r) \/ RefuseRunning(r) \/ Crash(r)
      PROVE  RowStep
  BY <1>1, <1>2 DEF SkipWeekend, Submit, LockDate, ReadRunning, ReadSucceeded,
                    RefuseIdle, RefuseRunning, Crash
<1>3. ASSUME NEW r \in Requests, Quiet(r) PROVE RowStep
  BY <1>1, <1>3 DEF Quiet
<1>4. ASSUME NEW r \in Requests, RecoverOnly(r) PROVE RowStep
  <2>1. /\ pc[r] = "decide" /\ SeesStale(r) /\ seen[r].running \in Requests
        /\ execution' = Recovered(execution, seen[r].running)
    BY <1>4 DEF RecoverOnly, SeesStale, TypeOK
  <2>2. execution[seen[r].running].status = "running"
    BY <2>1 DEF OwnerInv, SeenStaleIsRunning, ReadPcs
  <2> QED
    BY <2>1, <2>2, RecoveredStatus DEF RowStep
<1>5. ASSUME NEW r \in Requests, Acquire(r) PROVE RowStep
  <2>1. pc[r] = "decide"
    BY <1>5 DEF Acquire
  <2>2. execution[r].status = "absent"
    BY <2>1 DEF AcquireInv, NoRowYet, BeforePcs, AcquirePcs
  <2>3. SeesStale(r) => execution[seen[r].running].status = "running"
    BY <2>1 DEF OwnerInv, SeenStaleIsRunning, ReadPcs
  <2> QED
    BY <1>5, <2>2, <2>3, AcquiredRows DEF RowStep
<1>6. ASSUME NEW r \in Requests, SetStage(r) \/ CommitSave(r) \/ RecordFailure(r)
      PROVE  RowStep
  <2>1. execution[r].status = "running"
    BY <1>6 DEF OwnerInv, OwnerHasFreshRow, SetStage, CommitSave, RecordFailure,
                OwnerPcs, InTxnPcs
  <2> QED
    BY <1>6, <2>1, OwnRowOnly DEF RowStep
<1>7. ASSUME NEW r \in Requests, Expire(r) PROVE RowStep
  BY <1>7 DEF Expire, RowStep, TypeOK, ExecutionRows
<1>8. CASE UNCHANGED vars
  BY <1>1, <1>8 DEF vars
<1> QED
  BY <1>2, <1>3, <1>4, <1>5, <1>6, <1>7, <1>8, QuietSteps DEF Next, RunStep, Ended

\* When no live run outlives the stale timeout, the history of executions is
\* append-only: an outcome once recorded is never rewritten.
THEOREM HistoryIsFinal ==
  ASSUME ~Overrun
  PROVE  Spec => TerminalIsFinal
<1>1. TypeOK /\ AcquireInv /\ OwnerInv /\ [Next]_vars =>
        [\A r \in Requests :
           execution[r].status \in {"succeeded", "failed"} =>
             execution'[r] = execution[r]]_vars
  BY RowSteps DEF RowStep
<1> QED
  BY <1>1, OwnerInvariant, PTL DEF Spec, TerminalIsFinal

----------------------------------------------------------------------------
(***************************************************************************)
(* Publication.                                                            *)
(***************************************************************************)

\* A step that is not a commit leaves the successes and the watchlists alone.
Frame ==
  /\ UNCHANGED <<arg, watchlist>>
  /\ \A p \in Requests :
       /\ execution'[p].status = "succeeded" <=> execution[p].status = "succeeded"
       /\ execution[p].status = "succeeded" => execution'[p] = execution[p]

\* Every step is such a frame step or the commit of one request.
LEMMA FrameOrCommit ==
  ASSUME ~Overrun
  PROVE  TypeOK /\ AcquireInv /\ OwnerInv /\ [Next]_vars =>
           Frame \/ \E r \in Requests : CommitSave(r)
<1> SUFFICES ASSUME TypeOK, AcquireInv, OwnerInv, [Next]_vars,
                    ~ \E r \in Requests : CommitSave(r)
             PROVE  Frame
  OBVIOUS
<1>1. UNCHANGED <<arg, watchlist>>
  <2>1. ASSUME NEW r \in Requests, Quiet(r) PROVE UNCHANGED <<arg, watchlist>>
    BY <2>1 DEF Quiet
  <2> QED
    BY <2>1, QuietSteps DEF Next, RunStep, Ended, vars, SkipWeekend, Submit, LockDate, ReadRunning,
       ReadSucceeded, RefuseIdle, RefuseRunning, RecoverOnly, Acquire, SetStage,
       RecordFailure, Crash, Expire, requestVars
<1>2. RowStep
  BY RowSteps
<1> QED
  BY <1>1, <1>2 DEF RowStep, Frame

\* In a framed step a date has the same successes and the same newest one.
LEMMA FrameRows ==
  ASSUME Frame
  PROVE  \A d : /\ Rows(d, "succeeded")' = Rows(d, "succeeded")
                /\ latest_succeeded(d)' = latest_succeeded(d)
                /\ Successful(d)' <=> Successful(d)
<1> TAKE d
<1>1. Rows(d, "succeeded")' = Rows(d, "succeeded")
  BY DEF Frame, Rows
<1>2. \A p \in Rows(d, "succeeded") : execution'[p] = execution[p]
  BY DEF Frame, Rows
<1>3. latest_succeeded(d)' = latest_succeeded(d)
  BY <1>1, <1>2 DEF latest_succeeded, FirstRow, Newest
<1>4. Successful(d)' <=> Successful(d)
  BY DEF Frame, Successful
<1> QED
  BY <1>1, <1>3, <1>4

\* What a commit does: r's row becomes a success, the newest of its date, and
\* the date's watchlist becomes exactly r's output.
LEMMA CommitEffect ==
  ASSUME TypeOK, AcquireInv, OwnerInv, PublishInv, NEW r \in Requests, CommitSave(r)
  PROVE  /\ execution[r].status = "running"
         /\ execution'[r].status = "succeeded"
         /\ execution'[r].persisted = work[r].ranked
         /\ execution'[r].started = execution[r].started
         /\ \A p \in Requests \ {r} : execution'[p] = execution[p]
         /\ \A p \in Requests \ {r} : pc[p] \in OwnerPcs => arg[p].date # arg[r].date
         /\ pc' = [pc EXCEPT ![r] = "done"] /\ pc[r] = "written"
         /\ watchlist' = [watchlist EXCEPT ![arg[r].date] = ItemsOf(r, work[r].ranked)]
         /\ arg[r].date \in Dates
         /\ snapshot' = [snapshot EXCEPT ![r] = {}]
         /\ UNCHANGED <<arg, seen, inserted>>
<1>1. pc[r] = "written" /\ pc[r] \in OwnerPcs
  BY DEF CommitSave, OwnerPcs, InTxnPcs
<1>2. execution[r].status = "running"
  BY <1>1 DEF OwnerInv, OwnerHasFreshRow
<1>3. \A p \in Requests \ {r} : pc[p] \in OwnerPcs => arg[p].date # arg[r].date
  BY <1>1, <1>2 DEF AcquireInv, OneRunningPerDate, OwnerInv, OwnerHasFreshRow
<1>4. arg[r].date \in Dates
  BY DEF TypeOK
<1>5. snapshot[r] = watchlist[arg[r].date]
  BY <1>1 DEF PublishInv, SnapshotIsCurrent
<1>6. watchlist' = [watchlist EXCEPT ![arg[r].date] = ItemsOf(r, work[r].ranked)]
  <2>1. watchlist' = [watchlist EXCEPT ![arg[r].date] =
                        (watchlist[arg[r].date] \ snapshot[r]) \cup ItemsOf(r, work[r].ranked)]
    BY <1>4 DEF CommitSave, TypeOK
  <2>2. (watchlist[arg[r].date] \ snapshot[r]) \cup ItemsOf(r, work[r].ranked)
          = ItemsOf(r, work[r].ranked)
    BY <1>5
  <2> QED
    BY <2>1, <2>2
<1>7. /\ pc' = [pc EXCEPT ![r] = "done"]
      /\ snapshot' = [snapshot EXCEPT ![r] = {}]
      /\ UNCHANGED <<arg, seen, inserted>>
  BY DEF CommitSave, Goto, Return
<1> QED
  BY <1>1, <1>2, <1>3, <1>4, <1>6, <1>7, OwnRowOnly

\* PublishInv is preserved by a commit.
LEMMA PublishCommit ==
  ASSUME TypeOK, AcquireInv, OwnerInv, PublishInv, NEW r \in Requests, CommitSave(r)
  PROVE  PublishInv'
<1> USE RequestsAssumption
<1>t. /\ pc \in [Requests -> Pcs] /\ arg \in [Requests -> [date: Dates, force: BOOLEAN]]
      /\ watchlist \in [Dates -> SUBSET Items] /\ snapshot \in [Requests -> SUBSET Items]
      /\ execution \in [Requests -> ExecutionRows]
      /\ \A p \in Requests : execution[p].started \in Nat
  BY DEF TypeOK, ExecutionRows
<1>e. /\ execution[r].status = "running"
      /\ execution'[r].status = "succeeded"
      /\ execution'[r].persisted = work[r].ranked
      /\ execution'[r].started = execution[r].started
      /\ \A p \in Requests \ {r} : execution'[p] = execution[p]
      /\ \A p \in Requests \ {r} : pc[p] \in OwnerPcs => arg[p].date # arg[r].date
      /\ pc' = [pc EXCEPT ![r] = "done"] /\ pc[r] = "written"
      /\ watchlist' = [watchlist EXCEPT ![arg[r].date] = ItemsOf(r, work[r].ranked)]
      /\ arg[r].date \in Dates
      /\ snapshot' = [snapshot EXCEPT ![r] = {}]
      /\ UNCHANGED <<arg, seen, inserted>>
  BY CommitEffect
<1>1. InsertedBounds'
  BY <1>e DEF PublishInv, InsertedBounds
<1>2. OwnerIsNewest'
  BY <1>t, <1>e DEF PublishInv, OwnerIsNewest, OwnerPcs, InTxnPcs
<1>3. OwnerForcedRight'
  BY <1>t, <1>e DEF PublishInv, OwnerForcedRight, Successful, OwnerPcs, InTxnPcs
<1>4. SeesSuccess'
  <2> SUFFICES ASSUME NEW q \in Requests, pc'[q] = "decide",
                      seen[q].running # Nobody =>
                        execution'[seen[q].running].status = "running"
               PROVE  seen[q].succeeded # Nobody <=> Successful(arg[q].date)'
    BY <1>e DEF SeesSuccess
  <2>1. q # r /\ pc[q] = "decide"
    BY <1>t, <1>e
  <2>2. arg[q].date # arg[r].date
    <3> SUFFICES ASSUME arg[q].date = arg[r].date PROVE FALSE
      OBVIOUS
    <3>1. r = seen[q].running
      BY <1>e, <2>1 DEF AcquireInv, ReadsTheRunningRow, ReadPcs
    <3> QED
      BY <1>e, <3>1
  <2>3. Successful(arg[q].date)' <=> Successful(arg[q].date)
    BY <1>e, <2>2 DEF Successful
  <2>4. seen[q].running # Nobody => execution[seen[q].running].status = "running"
    <3>1. seen[q].running \in Requests \cup {Nobody}
      BY DEF TypeOK
    <3> QED
      BY <1>e, <3>1
  <2> QED
    BY <2>1, <2>3, <2>4 DEF PublishInv, SeesSuccess
<1>5. SnapshotIsCurrent'
  BY <1>t, <1>e DEF PublishInv, SnapshotIsCurrent, OwnerPcs, InTxnPcs
<1>6. PublishedIsNewestSuccess'
  <2> SUFFICES ASSUME NEW d \in Dates, NEW q \in latest_succeeded(d)'
               PROVE  watchlist'[d] = IF q = Nobody THEN {}
                                      ELSE ItemsOf(q, execution'[q].persisted)
    BY DEF PublishedIsNewestSuccess, ItemsOf
  <2>1. CASE d = arg[r].date
    <3>1. r \in Rows(d, "succeeded")'
      BY <1>e, <2>1 DEF Rows
    <3>2. q \in Rows(d, "succeeded")' /\ execution'[r].started <= execution'[q].started
      BY <3>1 DEF latest_succeeded, FirstRow, Newest
    <3>3. \A p \in Requests \ {r} :
            execution[p].status = "succeeded" /\ arg[p].date = d =>
              execution[p].started < execution[r].started
      BY <1>e, <2>1 DEF PublishInv, OwnerIsNewest, OwnerPcs, InTxnPcs
    <3>4. q = r
      <4>1. q \in Requests /\ execution'[q].status = "succeeded" /\ arg[q].date = d
        BY <1>e, <3>2 DEF Rows
      <4> QED
        BY <1>t, <1>e, <3>2, <3>3, <4>1
    <3> QED
      BY <1>t, <1>e, <2>1, <3>4
  <2>2. CASE d # arg[r].date
    <3>1. Rows(d, "succeeded")' = Rows(d, "succeeded")
      BY <1>e, <2>2 DEF Rows
    <3>2. \A p \in Rows(d, "succeeded") : execution'[p] = execution[p]
      BY <1>e, <2>2 DEF Rows
    <3>3. q \in latest_succeeded(d)
      BY <3>1, <3>2 DEF latest_succeeded, FirstRow, Newest
    <3>4. q # Nobody => q \in Rows(d, "succeeded")
      BY <3>3 DEF latest_succeeded, FirstRow, Newest
    <3>5. watchlist'[d] = watchlist[d]
      BY <1>t, <1>e, <2>2
    <3> QED
      BY <3>2, <3>3, <3>4, <3>5 DEF PublishInv, PublishedIsNewestSuccess
  <2> QED
    BY <2>1, <2>2
<1> QED
  BY <1>1, <1>2, <1>3, <1>4, <1>5, <1>6 DEF PublishInv

\* A step that neither commits nor acquires keeps the owners, their rows'
\* start, and what acquire() has read: it is steady.
Steady ==
  /\ \A p \in Requests :
       /\ pc'[p] \in OwnerPcs => pc[p] \in OwnerPcs
       /\ execution'[p].started = execution[p].started
       /\ execution'[p].status = "running" => execution[p].status = "running"
       /\ pc'[p] = "decide" => \/ pc[p] = "decide" /\ seen'[p] = seen[p]
                               \/ ReadSucceeded(p)
       /\ pc'[p] \in {"deleting", "written"} =>
            \/ snapshot'[p] = watchlist[arg[p].date]
            \/ pc[p] \in {"deleting", "written"} /\ snapshot'[p] = snapshot[p]
  /\ UNCHANGED inserted

\* Every step but the INSERT of acquire() and a commit is such a step.
LEMMA SteadySteps ==
  ASSUME TypeOK, [Next]_vars,
         ~ \E r \in Requests : CommitSave(r) \/ Acquire(r)
  PROVE  Steady
<1> USE RequestsAssumption
<1>t. /\ pc \in [Requests -> Pcs]
      /\ seen \in [Requests -> [running: Requests \cup {Nobody},
                                succeeded: Requests \cup {Nobody}]]
      /\ snapshot \in [Requests -> SUBSET Items]
  BY DEF TypeOK
<1>1. ASSUME NEW r \in Requests,
             \/ SkipWeekend(r) \/ Submit(r) \/ LockDate(r)
             \/ RefuseIdle(r) \/ RefuseRunning(r) \/ Crash(r)
      PROVE  Steady
  <2>1. /\ \E to \in Pcs \ (OwnerPcs \cup {"decide"}) : pc' = [pc EXCEPT ![r] = to]
        /\ UNCHANGED <<seen, execution, inserted>>
        /\ UNCHANGED snapshot \/ snapshot' = [snapshot EXCEPT ![r] = {}]
    BY <1>1 DEF SkipWeekend, Submit, LockDate, RefuseIdle, RefuseRunning, Crash, Goto,
                Return, Pcs, AcquirePcs, OwnerPcs, InTxnPcs, EndPcs
  <2> QED
    BY <1>t, <2>1 DEF Steady, OwnerPcs, InTxnPcs
<1>2. ASSUME NEW r \in Requests, ReadRunning(r) PROVE Steady
  <2>1. \A p \in Requests \ {r} : seen'[p] = seen[p]
    BY <1>t, <1>2 DEF ReadRunning
  <2>2. /\ pc' = [pc EXCEPT ![r] = "read_succeeded"]
        /\ UNCHANGED <<execution, snapshot, inserted>>
    BY <1>2 DEF ReadRunning, Goto
  <2> QED
    BY <1>t, <2>1, <2>2 DEF Steady, OwnerPcs, InTxnPcs
<1>3. ASSUME NEW r \in Requests, ReadSucceeded(r) PROVE Steady
  <2>1. \A p \in Requests \ {r} : seen'[p] = seen[p]
    BY <1>t, <1>3 DEF ReadSucceeded
  <2>2. /\ pc' = [pc EXCEPT ![r] = "decide"]
        /\ UNCHANGED <<execution, snapshot, inserted>>
    BY <1>3 DEF ReadSucceeded, Goto
  <2> QED
    BY <1>t, <1>3, <2>1, <2>2 DEF Steady, OwnerPcs, InTxnPcs
<1>4. ASSUME NEW r \in Requests, RecoverOnly(r) PROVE Steady
  <2>1. /\ pc' = [pc EXCEPT ![r] = "done"]
        /\ UNCHANGED <<seen, snapshot, inserted>>
        /\ execution' = Recovered(execution, seen[r].running)
        /\ seen[r].running \in Requests
    BY <1>t, <1>4 DEF RecoverOnly, SeesStale, Goto, Return
  <2>2. \A p \in Requests :
          /\ execution'[p].started = execution[p].started
          /\ execution'[p].status = "running" => execution[p].status = "running"
    BY <2>1, RecoveredStatus
  <2> QED
    BY <1>t, <2>1, <2>2 DEF Steady, OwnerPcs, InTxnPcs
<1>5. ASSUME NEW r \in Requests, SetStage(r) \/ RecordFailure(r) PROVE Steady
  <2>1. /\ pc[r] \in {"stage", "failing"}
        /\ \E to \in {"persist", "work", "done"} : pc' = [pc EXCEPT ![r] = to]
        /\ UNCHANGED <<seen, snapshot, inserted>>
    BY <1>5 DEF SetStage, RecordFailure, Goto, Return
  <2>2. \A p \in Requests :
          /\ execution'[p].started = execution[p].started
          /\ execution'[p].status = "running" => execution[p].status = "running"
    BY <1>5, OwnRowOnly
  <2> QED
    BY <1>t, <2>1, <2>2 DEF Steady, OwnerPcs, InTxnPcs
<1>6. ASSUME NEW r \in Requests, DeleteItems(r) PROVE Steady
  BY <1>t, <1>6 DEF DeleteItems, Goto, Steady, OwnerPcs, InTxnPcs
<1>7. ASSUME NEW r \in Requests, InsertItems(r) PROVE Steady
  BY <1>t, <1>7 DEF InsertItems, Goto, Steady, OwnerPcs, InTxnPcs
<1>8. ASSUME NEW r \in Requests,
             \/ Sync(r) \/ Inputs(r) \/ Scan(r) \/ Rank(r) \/ Raise(r)
             \/ LoadRow(r) \/ FlushFinish(r) \/ CollideSave(r) \/ RollbackSave(r)
      PROVE  Steady
  <2>1. /\ pc[r] \in OwnerPcs
        /\ \E to \in OwnerPcs \ {"deleting", "written"} : pc' = [pc EXCEPT ![r] = to]
        /\ UNCHANGED <<seen, execution, inserted>>
        /\ UNCHANGED snapshot \/ snapshot' = [snapshot EXCEPT ![r] = {}]
    <3>1. CASE Sync(r) \/ Inputs(r) \/ Scan(r) \/ Rank(r)
      BY <3>1 DEF Sync, Inputs, Scan, Rank, Advance, Goto, OwnerPcs, InTxnPcs
    <3>2. CASE Raise(r) \/ LoadRow(r) \/ FlushFinish(r) \/ CollideSave(r) \/ RollbackSave(r)
      BY <3>2 DEF Raise, LoadRow, FlushFinish, CollideSave, RollbackSave, Goto,
                  OwnerPcs, InTxnPcs
    <3> QED
      BY <1>8, <3>1, <3>2
  <2> QED
    BY <1>t, <2>1 DEF Steady, OwnerPcs, InTxnPcs
<1>9. ASSUME NEW r \in Requests, Expire(r) PROVE Steady
  BY <1>9 DEF Expire, requestVars, Steady, TypeOK, ExecutionRows
<1>10. CASE UNCHANGED vars
  BY <1>10 DEF vars, Steady
<1> QED
  BY <1>1, <1>2, <1>3, <1>4, <1>5, <1>6, <1>7, <1>8, <1>9, <1>10
  DEF Next, RunStep, Ended

\* PublishInv is preserved by every other step.
LEMMA PublishFrame ==
  ASSUME TypeOK, AcquireInv, OwnerInv, PublishInv, Frame,
         Steady \/ \E r \in Requests : Acquire(r)
  PROVE  PublishInv'
<1> USE RequestsAssumption
<1>t. /\ pc \in [Requests -> Pcs] /\ arg \in [Requests -> [date: Dates, force: BOOLEAN]]
      /\ seen \in [Requests -> [running: Requests \cup {Nobody},
                                succeeded: Requests \cup {Nobody}]]
      /\ inserted \in Nat /\ \A p \in Requests : execution[p].started \in Nat
  BY DEF TypeOK, ExecutionRows
<1>1. PublishedIsNewestSuccess'
  <2> SUFFICES ASSUME NEW d \in Dates, NEW q \in latest_succeeded(d)'
               PROVE  watchlist'[d] = IF q = Nobody THEN {}
                                      ELSE ItemsOf(q, execution'[q].persisted)
    BY DEF PublishedIsNewestSuccess, ItemsOf
  <2>1. q \in latest_succeeded(d)
    BY FrameRows
  <2>2. q # Nobody => execution'[q] = execution[q]
    BY <2>1 DEF latest_succeeded, FirstRow, Newest, Rows, Frame
  <2> QED
    BY <2>1, <2>2 DEF PublishInv, PublishedIsNewestSuccess, Frame
<1>2. CASE Steady
  <2>1. InsertedBounds'
    BY <1>2 DEF Steady, PublishInv, InsertedBounds
  <2>2. OwnerIsNewest'
    BY <1>2 DEF Steady, Frame, PublishInv, OwnerIsNewest
  <2>3. OwnerForcedRight'
    BY <1>2, FrameRows DEF Steady, Frame, PublishInv, OwnerForcedRight
  <2>4. SeesSuccess'
    <3> SUFFICES ASSUME NEW q \in Requests, pc'[q] = "decide",
                        seen'[q].running # Nobody =>
                          execution'[seen'[q].running].status = "running"
                 PROVE  seen'[q].succeeded # Nobody <=> Successful(arg[q].date)'
      BY DEF SeesSuccess, Frame
    <3>0. Successful(arg[q].date)' <=> Successful(arg[q].date)
      BY DEF Frame, Successful
    <3>1. CASE ReadSucceeded(q)
      <4>1. PICK p \in FirstRow(Rows(arg[q].date, "succeeded")) :
                   seen' = [seen EXCEPT ![q].succeeded = p]
        BY <3>1 DEF ReadSucceeded, latest_succeeded
      <4>2. p # Nobody <=> Successful(arg[q].date)
        <5>1. CASE Rows(arg[q].date, "succeeded") = {}
          BY <4>1, <5>1 DEF FirstRow, Rows, Successful
        <5>2. CASE Rows(arg[q].date, "succeeded") # {}
          BY <4>1, <5>2 DEF FirstRow, Newest, Rows, Successful
        <5> QED
          BY <5>1, <5>2
      <4>3. seen'[q].succeeded = p
        BY <1>t, <4>1
      <4> QED
        BY <3>0, <4>2, <4>3
    <3>2. CASE pc[q] = "decide" /\ seen'[q] = seen[q]
      <4>1. seen[q].running # Nobody => execution[seen[q].running].status = "running"
        BY <1>t, <1>2, <3>2 DEF Steady
      <4> QED
        BY <3>0, <3>2, <4>1 DEF PublishInv, SeesSuccess
    <3> QED
      BY <1>2, <3>1, <3>2 DEF Steady
  <2>5. SnapshotIsCurrent'
    BY <1>2 DEF Steady, Frame, PublishInv, SnapshotIsCurrent
  <2> QED
    BY <1>1, <2>1, <2>2, <2>3, <2>4, <2>5 DEF PublishInv
<1>3. ASSUME NEW r \in Requests, Acquire(r) PROVE PublishInv'
  <2>1. /\ pc' = [pc EXCEPT ![r] = "stage"] /\ pc[r] = "decide"
        /\ inserted' = inserted + 1
        /\ UNCHANGED <<arg, seen, snapshot, watchlist>>
        /\ seen[r].running = Nobody \/ SeesStale(r)
        /\ Refusal(r) = "none"
    BY <1>3 DEF Acquire, Goto
  <2>2. /\ execution'[r].started = inserted + 1
        /\ \A p \in Requests \ {r} : execution'[p].started = execution[p].started
        /\ \A p \in Requests \ {r} :
             execution'[p].status = "running" => execution[p].status = "running"
    BY <1>3, AcquiredRows
  <2>3. InsertedBounds'
    BY <1>t, <2>1, <2>2 DEF PublishInv, InsertedBounds
  <2>4. OwnerIsNewest'
    <3> SUFFICES ASSUME NEW p \in Requests, NEW q \in Requests, pc'[p] \in OwnerPcs,
                        execution'[q].status = "succeeded", arg[q].date = arg[p].date
                 PROVE  execution'[q].started < execution'[p].started
      BY <2>1 DEF OwnerIsNewest
    <3>1. execution[q].status = "succeeded" /\ execution'[q].started = execution[q].started
      BY DEF Frame
    <3>2. CASE p = r
      BY <1>t, <2>2, <3>1, <3>2 DEF PublishInv, InsertedBounds
    <3>3. CASE p # r
      BY <1>t, <2>1, <2>2, <3>1, <3>3 DEF PublishInv, OwnerIsNewest
    <3> QED
      BY <3>2, <3>3
  <2>5. OwnerForcedRight'
    <3>1. seen[r].running # Nobody => execution[seen[r].running].status = "running"
      BY <2>1 DEF OwnerInv, SeenStaleIsRunning, ReadPcs
    <3>2. seen[r].succeeded # Nobody <=> Successful(arg[r].date)
      BY <2>1, <3>1 DEF PublishInv, SeesSuccess
    <3>3. arg[r].force <=> seen[r].succeeded # Nobody
      BY <1>t, <2>1 DEF Refusal
    <3>4. \A p \in Requests : pc'[p] \in OwnerPcs => p = r \/ pc[p] \in OwnerPcs
      BY <1>t, <2>1
    <3> QED
      BY <2>1, <3>2, <3>3, <3>4, FrameRows DEF PublishInv, OwnerForcedRight
  <2>6. SeesSuccess'
    <3> SUFFICES ASSUME NEW q \in Requests, pc'[q] = "decide",
                        seen[q].running # Nobody =>
                          execution'[seen[q].running].status = "running"
                 PROVE  seen[q].succeeded # Nobody <=> Successful(arg[q].date)'
      BY <2>1 DEF SeesSuccess
    <3>1. q # r /\ pc[q] = "decide"
      BY <1>t, <2>1
    <3>2. seen[q].running # r
      BY <2>1, <3>1 DEF AcquireInv, NoRowYet, ReadsOfItsDate, ReadPcs, BeforePcs, AcquirePcs
    <3>3. seen[q].running # Nobody => execution[seen[q].running].status = "running"
      BY <1>t, <2>2, <3>2
    <3>4. Successful(arg[q].date)' <=> Successful(arg[q].date)
      BY DEF Frame, Successful
    <3> QED
      BY <3>1, <3>3, <3>4 DEF PublishInv, SeesSuccess
  <2>7. SnapshotIsCurrent'
    BY <1>t, <2>1 DEF PublishInv, SnapshotIsCurrent
  <2> QED
    BY <1>1, <2>3, <2>4, <2>5, <2>6, <2>7 DEF PublishInv
<1> QED
  BY <1>2, <1>3

\* The conjunction of the three is an inductive invariant of Spec.
LEMMA PublishInvariant ==
  ASSUME ~Overrun
  PROVE  Spec => [](TypeOK /\ AcquireInv /\ OwnerInv /\ PublishInv)
<1>1. Init => PublishInv
  <2> SUFFICES ASSUME Init PROVE PublishInv
    OBVIOUS
  <2>1. \A q \in Requests : /\ execution[q].status = "absent"
                            /\ execution[q].started = 0
                            /\ pc[q] = "idle"
    BY DEF Init, NoExecution
  <2>2. PublishedIsNewestSuccess
    <3>1. \A d \in Dates : latest_succeeded(d) = {Nobody}
      BY <2>1 DEF latest_succeeded, FirstRow, Rows
    <3>2. \A d \in Dates : watchlist[d] = {}
      BY DEF Init
    <3> QED
      BY <3>1, <3>2 DEF PublishedIsNewestSuccess
  <2> QED
    BY <2>1, <2>2 DEF Init, PublishInv, InsertedBounds, OwnerIsNewest, OwnerForcedRight,
                      SeesSuccess, SnapshotIsCurrent, OwnerPcs, InTxnPcs
<1>2. TypeOK /\ AcquireInv /\ OwnerInv /\ PublishInv /\ [Next]_vars => PublishInv'
  <2> SUFFICES ASSUME TypeOK, AcquireInv, OwnerInv, PublishInv, [Next]_vars
               PROVE  PublishInv'
    OBVIOUS
  <2>1. CASE \E r \in Requests : CommitSave(r)
    BY <2>1, PublishCommit
  <2>2. CASE ~ \E r \in Requests : CommitSave(r)
    <3>1. Frame
      BY <2>2, FrameOrCommit
    <3>2. Steady \/ \E r \in Requests : Acquire(r)
      BY <2>2, SteadySteps
    <3> QED
      BY <3>1, <3>2, PublishFrame
  <2> QED
    BY <2>1, <2>2
<1> QED
  BY <1>1, <1>2, OwnerInvariant, PTL DEF Spec

\* When no live run outlives the stale timeout, what the readers of a date
\* see is at all times exactly the output of its newest successful execution.
THEOREM NewestIsPublished ==
  ASSUME ~Overrun
  PROVE  Spec => []PublishedIsNewestSuccess
<1>1. PublishInv => PublishedIsNewestSuccess
  BY DEF PublishInv
<1> QED
  BY <1>1, PublishInvariant, PTL

\* The success rows of a date as the abstract history.
History == [d \in Dates |-> {[by |-> q, count |-> execution[q].persisted] :
                               q \in Rows(d, "succeeded")}]

\* When no live run outlives the stale timeout, the pipeline with its locks,
\* transactions, failures and crashes implements WatchlistPublishing.
THEOREM PipelineImplementsPublishing ==
  ASSUME ~Overrun
  PROVE  Spec => ImplementsPublishing
<1> USE RequestsAssumption
<1>1. Init => Publishing!Init
  <2> SUFFICES ASSUME Init PROVE Publishing!Init
    OBVIOUS
  <2>1. \A d \in Dates : Rows(d, "succeeded") = {}
    BY DEF Init, NoExecution, Rows
  <2> QED
    BY <2>1 DEF Init, Publishing!Init
<1>2. TypeOK /\ AcquireInv /\ OwnerInv /\ PublishInv /\ [Next]_vars =>
        [Publishing!Next]_(Publishing!vars)
  <2> SUFFICES ASSUME TypeOK, AcquireInv, OwnerInv, PublishInv, [Next]_vars
               PROVE  [Publishing!Next]_(Publishing!vars)
    OBVIOUS
  <2>1. CASE \E r \in Requests : CommitSave(r)
    <3>1. PICK r \in Requests : CommitSave(r)
      BY <2>1
    <3> DEFINE d == arg[r].date
               n == work[r].ranked
    <3>e. /\ execution[r].status = "running"
          /\ execution'[r].status = "succeeded"
          /\ execution'[r].persisted = n
          /\ \A p \in Requests \ {r} : execution'[p] = execution[p]
          /\ pc[r] = "written"
          /\ watchlist' = [watchlist EXCEPT ![d] = ItemsOf(r, n)]
          /\ d \in Dates
          /\ UNCHANGED arg
      BY <3>1, CommitEffect
    <3>2. n \in 0..MaxItems
      BY DEF TypeOK
    <3>3. arg[r].force <=> History[d] # {}
      <4>1. arg[r].force <=> Successful(d)
        BY <3>e DEF PublishInv, OwnerForcedRight, OwnerPcs, InTxnPcs
      <4>2. Successful(d) <=> Rows(d, "succeeded") # {}
        BY DEF Successful, Rows
      <4> QED
        BY <3>e, <4>1, <4>2 DEF History
    <3>4. \A h \in History[d] : h.by # r
      BY <3>e DEF History, Rows
    <3>5. History' = [History EXCEPT ![d] = @ \cup {[by |-> r, count |-> n]}]
      <4>1. ASSUME NEW c \in Dates, c # d PROVE History'[c] = History[c]
        <5>1. Rows(c, "succeeded")' = Rows(c, "succeeded")
          BY <3>e, <4>1 DEF Rows
        <5>2. \A q \in Rows(c, "succeeded") : execution'[q] = execution[q]
          BY <3>e DEF Rows
        <5> QED
          BY <5>1, <5>2 DEF History
      <4>2. Rows(d, "succeeded")' = Rows(d, "succeeded") \cup {r}
        BY <3>e DEF Rows
      <4>3. r \notin Rows(d, "succeeded")
        BY <3>e DEF Rows
      <4>4. History'[d] = {[by |-> q, count |-> execution'[q].persisted] :
                             q \in Rows(d, "succeeded") \cup {r}}
        BY <3>e, <4>2 DEF History
      <4>5. \A q \in Rows(d, "succeeded") : execution'[q] = execution[q]
        BY <3>e, <4>3 DEF Rows
      <4>6. History'[d] = History[d] \cup {[by |-> r, count |-> n]}
        BY <3>e, <4>4, <4>5 DEF History
      <4>7. /\ History \in [Dates -> {History[c] : c \in Dates}]
            /\ History' \in [Dates -> {History'[c] : c \in Dates}]
        BY DEF History
      <4> QED
        BY <3>e, <4>1, <4>6, <4>7
    <3>6. Publishing!Publish(r, n)
      BY <3>e, <3>3, <3>4, <3>5 DEF Publishing!Publish, History, ItemsOf
    <3>7. Publishing!Next
      BY <3>2, <3>6 DEF Publishing!Next, Publishing!Publish
    <3> QED
      BY <3>7
  <2>2. CASE ~ \E r \in Requests : CommitSave(r)
    <3>1. Frame
      BY <2>2, FrameOrCommit
    <3>2. History' = History
      <4>1. \A d \in Dates : Rows(d, "succeeded")' = Rows(d, "succeeded")
        BY <3>1, FrameRows
      <4>2. \A d \in Dates : \A q \in Rows(d, "succeeded") : execution'[q] = execution[q]
        BY <3>1 DEF Frame, Rows
      <4> QED
        BY <4>1, <4>2 DEF History
    <3> QED
      BY <3>1, <3>2 DEF Frame, History, Publishing!vars
  <2> QED
    BY <2>1, <2>2
<1> QED
  BY <1>1, <1>2, PublishInvariant, PTL DEF Spec, ImplementsPublishing, Publishing!Spec

----------------------------------------------------------------------------
(***************************************************************************)
(* Outcomes.                                                               *)
(***************************************************************************)

\* The row of a run at work is the latest of its date, whatever became of the
\* others.
OwnerIsLatest ==
  \A p, q \in Requests :
    /\ pc[p] \in OwnerPcs /\ q # p
    /\ execution[q].status # "absent" /\ arg[q].date = arg[p].date
    => execution[q].started < execution[p].started

OutcomeInv == OwnerIsLatest /\ ReplacementIsForced /\ ReportMatchesRow

\* Only acquire() makes a row: every other step updates rows that exist.
LEMMA RowsAppear ==
  ASSUME TypeOK, AcquireInv, OwnerInv, [Next]_vars, NEW p \in Requests,
         execution[p].status = "absent"
  PROVE  execution'[p] = execution[p] \/ Acquire(p)
<1> USE RequestsAssumption
<1>1. ASSUME NEW r \in Requests, RecoverOnly(r) PROVE execution'[p] = execution[p]
  <2>1. /\ pc[r] = "decide" /\ SeesStale(r) /\ seen[r].running \in Requests
        /\ execution' = Recovered(execution, seen[r].running)
    BY <1>1 DEF RecoverOnly, SeesStale, TypeOK
  <2>2. execution[seen[r].running].status = "running"
    BY <2>1 DEF OwnerInv, SeenStaleIsRunning, ReadPcs
  <2> QED
    BY <2>1, <2>2, RecoveredStatus
<1>2. ASSUME NEW r \in Requests, Acquire(r), r # p PROVE execution'[p] = execution[p]
  <2>1. pc[r] = "decide"
    BY <1>2 DEF Acquire
  <2>2. SeesStale(r) => execution[seen[r].running].status = "running"
    BY <2>1 DEF OwnerInv, SeenStaleIsRunning, ReadPcs
  <2> QED
    BY <1>2, <2>2, AcquiredRows
<1>3. ASSUME NEW r \in Requests, SetStage(r) \/ CommitSave(r) \/ RecordFailure(r)
      PROVE  execution'[p] = execution[p]
  <2>1. execution[r].status = "running"
    BY <1>3 DEF OwnerInv, OwnerHasFreshRow, SetStage, CommitSave, RecordFailure,
                OwnerPcs, InTxnPcs
  <2> QED
    BY <1>3, <2>1, OwnRowOnly
<1>4. ASSUME NEW r \in Requests, Expire(r) PROVE execution'[p] = execution[p]
  BY <1>4 DEF Expire, TypeOK
<1>5. ASSUME NEW r \in Requests, Quiet(r) PROVE execution'[p] = execution[p]
  BY <1>5 DEF Quiet
<1> QED
  BY <1>1, <1>2, <1>3, <1>4, <1>5, QuietSteps
  DEF Next, RunStep, Ended, vars, SkipWeekend, Submit, LockDate, ReadRunning,
      ReadSucceeded, RefuseIdle, RefuseRunning, Crash

\* What run() returns of an outcome is what the step wrote to its own row.
LEMMA ReportSteps ==
  ASSUME TypeOK, [Next]_vars, NEW p \in Requests,
         result'[p] \in {"succeeded", "failed"}
  PROVE  result'[p] = result[p] \/ execution'[p].status = result'[p]
<1>t. result \in [Requests -> Results]
  BY DEF TypeOK
<1>1. ASSUME NEW r \in Requests, CommitSave(r) \/ RecordFailure(r)
      PROVE  result'[p] = result[p] \/ execution'[p].status = result'[p]
  <2>1. /\ CommitSave(r) => result' = [result EXCEPT ![r] = "succeeded"]
        /\ RecordFailure(r) => result' = [result EXCEPT ![r] = "failed"]
    BY DEF CommitSave, RecordFailure, Return
  <2> QED
    BY <1>t, <1>1, <2>1, OwnRowOnly
<1>2. ASSUME NEW r \in Requests,
             SkipWeekend(r) \/ RefuseIdle(r) \/ RefuseRunning(r) \/ RecoverOnly(r)
      PROVE  result'[p] = result[p]
  <2>1. \E outcome \in Results \ {"succeeded", "failed"} :
          result' = [result EXCEPT ![r] = outcome]
    BY <1>2 DEF SkipWeekend, RefuseIdle, RefuseRunning, RecoverOnly, Refusal, Return, Results
  <2> QED
    BY <1>t, <1>2, <2>1
<1>3. ASSUME NEW r \in Requests, Quiet(r) PROVE result'[p] = result[p]
  BY <1>3 DEF Quiet
<1> QED
  BY <1>1, <1>2, <1>3, QuietSteps
  DEF Next, RunStep, Ended, vars, requestVars, Submit, LockDate, ReadRunning,
      ReadSucceeded, Acquire, SetStage, Crash, Expire

\* The earlier successes of a row are the same as long as successes and
\* starting times are.
Earlier(r) == {q \in Rows(arg[r].date, "succeeded") :
                 execution[q].started < execution[r].started}

\* OutcomeInv is preserved by a commit: the new success is later than every
\* other row of its date, so it is an earlier success of none.
LEMMA OutcomeCommit ==
  ASSUME TypeOK, AcquireInv, OwnerInv, PublishInv, OwnerIsLatest, ReplacementIsForced,
         NEW r \in Requests, CommitSave(r)
  PROVE  OwnerIsLatest' /\ ReplacementIsForced'
<1>t. /\ pc \in [Requests -> Pcs] /\ arg \in [Requests -> [date: Dates, force: BOOLEAN]]
      /\ \A p \in Requests : execution[p].started \in Nat
  BY DEF TypeOK, ExecutionRows
<1>e. /\ execution[r].status = "running"
      /\ execution'[r].status = "succeeded"
      /\ execution'[r].started = execution[r].started
      /\ \A p \in Requests \ {r} : execution'[p] = execution[p]
      /\ pc' = [pc EXCEPT ![r] = "done"] /\ pc[r] = "written"
      /\ UNCHANGED arg
  BY CommitEffect
<1>1. OwnerIsLatest'
  BY <1>t, <1>e DEF OwnerIsLatest, OwnerPcs, InTxnPcs
<1>2. ASSUME NEW p \in Requests, execution'[p].status # "absent"
      PROVE  Earlier(p)' = Earlier(p)
  <2>1. p # r /\ arg[p].date = arg[r].date => execution[p].started < execution[r].started
    BY <1>e, <1>2 DEF OwnerIsLatest, OwnerPcs, InTxnPcs
  <2>2. execution'[p].started = execution[p].started
    BY <1>e
  <2>3. r \notin Earlier(p)' /\ r \notin Earlier(p)
    BY <1>t, <1>e, <2>1, <2>2 DEF Earlier, Rows
  <2>4. \A q \in Requests \ {r} : q \in Earlier(p)' <=> q \in Earlier(p)
    BY <1>e, <2>2 DEF Earlier, Rows
  <2>5. Earlier(p) \subseteq Requests /\ Earlier(p)' \subseteq Requests
    BY DEF Earlier, Rows
  <2> QED
    BY <2>3, <2>4, <2>5
<1>3. ReplacementIsForced'
  <2> SUFFICES ASSUME NEW p \in Requests, execution'[p].status # "absent"
               PROVE  arg[p].force <=> Earlier(p)' # {}
    BY <1>e DEF ReplacementIsForced, Earlier, Rows
  <2>1. execution[p].status # "absent"
    BY <1>e
  <2> QED
    BY <1>2, <2>1 DEF ReplacementIsForced, Earlier
<1> QED
  BY <1>1, <1>3

\* OutcomeInv is preserved by every other step: the successes are the same, and
\* a new row starts after all of them, forced exactly when there is one.
LEMMA OutcomeFrame ==
  ASSUME TypeOK, AcquireInv, OwnerInv, PublishInv, PublishInv', OneOwner',
         OwnerIsLatest, ReplacementIsForced, [Next]_vars, Frame,
         Steady \/ \E r \in Requests : Acquire(r)
  PROVE  OwnerIsLatest' /\ ReplacementIsForced'
<1>t. /\ pc \in [Requests -> Pcs] /\ arg \in [Requests -> [date: Dates, force: BOOLEAN]]
      /\ inserted \in Nat /\ \A p \in Requests : execution[p].started \in Nat
  BY DEF TypeOK, ExecutionRows
<1>1. \A p \in Requests : execution[p].status = "absent" =>
         execution'[p] = execution[p] \/ Acquire(p)
  BY RowsAppear
<1>2. ASSUME NEW p \in Requests, execution'[p].started = execution[p].started
      PROVE  Earlier(p)' = Earlier(p)
  <2>1. Rows(arg[p].date, "succeeded")' = Rows(arg[p].date, "succeeded")
    BY DEF Frame, Rows
  <2>2. \A q \in Rows(arg[p].date, "succeeded") : execution'[q] = execution[q]
    BY DEF Frame, Rows
  <2> QED
    BY <1>2, <2>1, <2>2 DEF Earlier, Frame
<1>3. ASSUME \A p \in Requests : execution'[p].status # "absent" =>
                /\ execution[p].status # "absent" /\ execution'[p].started = execution[p].started
      PROVE  ReplacementIsForced'
  BY <1>2, <1>3 DEF ReplacementIsForced, Earlier, Frame
<1>4. CASE Steady
  <2>1. \A p \in Requests : ~Acquire(p)
    BY <1>4, <1>t DEF Steady, Acquire
  <2>2. \A p \in Requests : /\ execution'[p].started = execution[p].started
                            /\ pc'[p] \in OwnerPcs => pc[p] \in OwnerPcs
                            /\ execution[p].status = "absent" => execution'[p] = execution[p]
    BY <1>1, <1>4, <2>1 DEF Steady
  <2>3. OwnerIsLatest'
    BY <2>2 DEF OwnerIsLatest, Frame
  <2> QED
    BY <1>3, <2>2, <2>3
<1>5. ASSUME NEW r \in Requests, Acquire(r)
      PROVE  OwnerIsLatest' /\ ReplacementIsForced'
  <2>0. /\ execution'[r].started = inserted + 1
        /\ \A p \in Requests \ {r} : execution'[p].started = execution[p].started
    BY <1>5, AcquiredRows
  <2>1. /\ pc' = [pc EXCEPT ![r] = "stage"] /\ UNCHANGED arg
        /\ execution'[r].started = inserted + 1
        /\ \A p \in Requests \ {r} : execution'[p].started = execution[p].started
    BY <1>5, <2>0 DEF Acquire, Goto
  <2>2. ASSUME NEW p \in Requests \ {r}
        PROVE  execution'[p].status # "absent" => execution[p].status # "absent"
    <3>1. Acquire(p) => pc' = [pc EXCEPT ![p] = "stage"] /\ pc[p] = "decide"
      BY DEF Acquire, Goto
    <3>2. ~Acquire(p)
      BY <1>t, <2>1, <3>1
    <3> QED
      BY <1>1, <3>2
  <2>3. \A p \in Requests : execution[p].started <= inserted
    BY DEF PublishInv, InsertedBounds
  <2>4. OwnerIsLatest'
    <3> SUFFICES ASSUME NEW p \in Requests, NEW q \in Requests, pc'[p] \in OwnerPcs, q # p,
                        execution'[q].status # "absent", arg[q].date = arg[p].date
                 PROVE  execution'[q].started < execution'[p].started
      BY <2>1 DEF OwnerIsLatest
    <3>1. CASE p = r
      BY <1>t, <2>1, <2>3, <3>1
    <3>2. CASE p # r /\ q # r
      BY <1>t, <2>1, <2>2, <3>2 DEF OwnerIsLatest
    <3>3. CASE q = r
      <4>1. pc'[r] \in OwnerPcs
        BY <1>t, <2>1 DEF OwnerPcs
      <4> QED
        BY <2>1, <3>3, <4>1 DEF OneOwner
    <3> QED
      BY <3>1, <3>2, <3>3
  <2>5. ReplacementIsForced'
    <3> SUFFICES ASSUME NEW p \in Requests, execution'[p].status # "absent"
                 PROVE  arg[p].force <=> Earlier(p)' # {}
      BY <2>1 DEF ReplacementIsForced, Earlier, Rows
    <3>1. CASE p # r
      BY <1>2, <2>1, <2>2, <3>1 DEF ReplacementIsForced, Earlier
    <3>2. CASE p = r
      <4>1. pc'[r] \in OwnerPcs
        BY <1>t, <2>1 DEF OwnerPcs
      <4>2. arg[r].force <=> Successful(arg[r].date)'
        BY <2>1, <4>1 DEF PublishInv, OwnerForcedRight
      <4>3. \A q \in Requests : execution'[q].status = "succeeded" =>
               execution'[q].started < execution'[r].started
        BY <1>t, <2>1, <2>3 DEF Frame
      <4>4. Successful(arg[r].date)' <=> Earlier(r)' # {}
        BY <2>1, <4>3 DEF Successful, Earlier, Rows
      <4> QED
        BY <3>2, <4>2, <4>4
    <3> QED
      BY <3>1, <3>2
  <2> QED
    BY <2>4, <2>5
<1> QED
  BY <1>4, <1>5

\* When no live run outlives the stale timeout, a success replaces an earlier
\* one exactly when it was forced, and run() returns what its row says.
THEOREM OutcomesHaveReasons ==
  ASSUME ~Overrun
  PROVE  Spec => []OutcomesAreJustified
<1>1. Init => OutcomeInv
  BY DEF Init, NoExecution, OutcomeInv, OwnerIsLatest, ReplacementIsForced, ReportMatchesRow,
         OwnerPcs, InTxnPcs
<1>2. AcquireInv /\ OwnerInv => OneOwner
  BY DEF AcquireInv, OneRunningPerDate, OwnerInv, OwnerHasFreshRow, OneOwner
<1>3. /\ TypeOK /\ AcquireInv /\ OwnerInv /\ PublishInv
      /\ (AcquireInv /\ OwnerInv /\ PublishInv)'
      /\ OutcomeInv /\ [Next]_vars
      => OutcomeInv'
  <2> SUFFICES ASSUME TypeOK, AcquireInv, OwnerInv, PublishInv,
                      AcquireInv', OwnerInv', PublishInv', OutcomeInv, [Next]_vars
               PROVE  OutcomeInv'
    OBVIOUS
  <2>1. OneOwner'
    BY DEF AcquireInv, OneRunningPerDate, OwnerInv, OwnerHasFreshRow, OneOwner
  <2>2. OwnerIsLatest' /\ ReplacementIsForced'
    <3>1. CASE \E r \in Requests : CommitSave(r)
      BY <3>1, OutcomeCommit DEF OutcomeInv
    <3>2. CASE ~ \E r \in Requests : CommitSave(r)
      <4>1. Frame
        BY <3>2, FrameOrCommit
      <4>2. Steady \/ \E r \in Requests : Acquire(r)
        BY <3>2, SteadySteps
      <4> QED
        BY <2>1, <4>1, <4>2, OutcomeFrame DEF OutcomeInv
    <3> QED
      BY <3>1, <3>2
  <2>3. ReportMatchesRow'
    <3> SUFFICES ASSUME NEW p \in Requests, result'[p] \in {"succeeded", "failed"},
                        execution'[p].status # result'[p]
                 PROVE  FALSE
      BY DEF ReportMatchesRow
    <3>1. result'[p] = result[p]
      BY ReportSteps
    <3>2. execution[p].status = result[p]
      BY <3>1 DEF OutcomeInv, ReportMatchesRow
    <3> QED
      BY <3>1, <3>2, RowSteps DEF RowStep
  <2> QED
    BY <2>2, <2>3 DEF OutcomeInv
<1>4. OutcomeInv => OutcomesAreJustified
  BY DEF OutcomeInv, OutcomesAreJustified
<1> QED
  BY <1>1, <1>3, <1>4, PublishInvariant, PTL DEF Spec
=============================================================================
