------------------------ MODULE WebApplicationProofs ------------------------
(***************************************************************************)
(* What holds of the server's requests and of the pages for any number of  *)
(* dates, requests, bars, providers, symbols and tabs: the notifications   *)
(* of a run, the readers of the watchlist, the life of a backtest run, the *)
(* paging of a chart, the sign-in sessions, the pages, and last each of    *)
(* these carried over to WebSpec, the specification the runs check.        *)
(***************************************************************************)
EXTENDS WebApplication, FiniteSetTheorems, NaturalsInduction,
        WellFoundedInduction, TLAPS

-----------------------------------------------------------------------------
(***************************************************************************)
(* Notifications.                                                          *)
(***************************************************************************)

\* What one delivery has to satisfy, whichever step it took: the attempts that
\* left its message open are behind it, a sleeping one has attempts left, one
\* given up has none, and nothing moves before the run has an event.
DeliveryRecord == [state: {"idle", "posting", "sleeping"} \cup Ended, attempt: 0..MaxRetries,
                   posted: 0..(MaxRetries + 1), unsure: 0..(MaxRetries + 1)]

Sound(d, outcome, back) ==
  /\ d \in DeliveryRecord
  /\ IF d.state = "delivered" THEN d.posted >= 1 /\ d.posted <= d.unsure + 1 /\ d.unsure <= d.attempt
     ELSE d.posted <= d.unsure /\ d.unsure <= d.attempt + 1
  /\ d.state \in {"idle", "posting"} => d.unsure <= d.attempt
  /\ d.state = "sleeping" => d.attempt < MaxRetries
  /\ d.state = "exhausted" => d.attempt = MaxRetries
  /\ outcome \in {"none", "skipped"} => d.state = "idle"
  /\ back /\ outcome # "skipped" => d.state \in Ended

NotifyInv ==
  /\ ran \in {"none", "succeeded", "failed", "skipped"} /\ returned \in BOOLEAN
  /\ ran = "none" => ~returned
  /\ delivery \in [Providers -> DeliveryRecord]
  /\ \A p \in Providers : Sound(delivery[p], ran, returned)

\* What the invariant says of the run.
LEMMA NotifyKept == NotifyInv => NotifyTypeOK /\ NotifiedOnce
<1> SUFFICES ASSUME NotifyInv PROVE NotifyTypeOK /\ NotifiedOnce
  OBVIOUS
<1>1. NotifyTypeOK
  BY DEF NotifyInv, NotifyTypeOK, DeliveryRecord
<1>2. ASSUME NEW p \in Providers
      PROVE  /\ delivery[p].attempt \in Nat /\ delivery[p].posted \in Nat /\ delivery[p].unsure \in Nat
             /\ Sound(delivery[p], ran, returned)
  BY NotificationsAssumption DEF NotifyInv, DeliveryRecord
<1>3. MessagesAreAccounted
  BY <1>2 DEF MessagesAreAccounted, Sound
<1>4. MissingHasACause
  BY <1>2 DEF MissingHasACause, Sound, Ended
<1> QED
  BY <1>1, <1>3, <1>4 DEF NotifiedOnce

\* A step of one delivery keeps the others.
LEMMA MovesFacts ==
  ASSUME NotifyInv, NEW p \in Providers, NEW d, Moves(p, d), Sound(d, ran, returned)
  PROVE  NotifyInv'
<1>1. /\ delivery \in [Providers -> DeliveryRecord] /\ d \in DeliveryRecord
      /\ \A q \in Providers : Sound(delivery[q], ran, returned)
      /\ ran \in {"none", "succeeded", "failed", "skipped"} /\ returned \in BOOLEAN
      /\ ran = "none" => ~returned
  BY DEF NotifyInv, Sound
<1>2. delivery' = [delivery EXCEPT ![p] = d] /\ ran' = ran /\ returned' = returned
  BY DEF Moves
<1>3. /\ delivery' \in [Providers -> DeliveryRecord]
      /\ \A q \in Providers : delivery'[q] = IF q = p THEN d ELSE delivery[q]
  BY <1>1, <1>2
<1>4. \A q \in Providers : Sound(delivery'[q], ran', returned')
  BY <1>1, <1>2, <1>3
<1> QED
  BY <1>1, <1>2, <1>3, <1>4 DEF NotifyInv

\* No step breaks the invariant of the notifications.
LEMMA NotifyInductive == NotifyInv /\ [NotifyNext]_notifyVars => NotifyInv'
<1> SUFFICES ASSUME NotifyInv, [NotifyNext]_notifyVars PROVE NotifyInv'
  OBVIOUS
<1>0. /\ delivery \in [Providers -> DeliveryRecord]
      /\ \A q \in Providers : Sound(delivery[q], ran, returned) /\ delivery[q] \in DeliveryRecord
      /\ ran \in {"none", "succeeded", "failed", "skipped"} /\ returned \in BOOLEAN
      /\ ran = "none" => ~returned
  BY DEF NotifyInv
<1> USE NotificationsAssumption
<1>1. ASSUME NEW outcome \in {"succeeded", "failed", "skipped"}, RunReturns(outcome) PROVE NotifyInv'
  <2>1. /\ ran = "none" /\ ran' = outcome /\ returned' = (outcome = "skipped") /\ ~returned
    BY <1>0, <1>1 DEF RunReturns
  <2>2. returned' \in BOOLEAN
    BY <2>1, Zenon
  <2>3. ASSUME NEW p \in Providers
        PROVE  LET d == [delivery[p] EXCEPT !.state = "posting"]
               IN d \in DeliveryRecord /\ (outcome # "skipped" => Sound(d, outcome, FALSE))
    BY <1>0, <2>1 DEF Sound, DeliveryRecord, Ended
  <2>4. /\ delivery' \in [Providers -> DeliveryRecord]
        /\ \A p \in Providers : Sound(delivery'[p], ran', returned')
    <3>1. CASE outcome = "skipped"
      BY <1>0, <1>1, <2>1, <3>1 DEF RunReturns, Sound
    <3>2. CASE outcome # "skipped"
      <4>1. delivery' = [p \in Providers |-> [delivery[p] EXCEPT !.state = "posting"]]
        BY <1>1, <3>2 DEF RunReturns
      <4> QED
        BY <2>1, <2>3, <3>2, <4>1
    <3> QED
      BY <3>1, <3>2
  <2> QED
    BY <2>1, <2>2, <2>4 DEF NotifyInv
<1>2. ASSUME NEW p \in Providers, delivery[p].state = "posting"
      PROVE  /\ delivery[p] \in DeliveryRecord /\ ran \notin {"none", "skipped"} /\ ~returned
             /\ delivery[p].attempt \in 0..MaxRetries /\ delivery[p].unsure \in 0..delivery[p].attempt
             /\ delivery[p].posted \in 0..delivery[p].unsure
             /\ AfterFailure(delivery[p]) \in {"sleeping", "exhausted"}
  <2>1. delivery[p] \in DeliveryRecord /\ Sound(delivery[p], ran, returned)
    BY <1>0, <1>2
  <2> QED
    BY <1>0, <1>2, <2>1 DEF Sound, DeliveryRecord, Ended, AfterFailure
<1>3. ASSUME NEW p \in Providers, PostSucceeds(p) PROVE NotifyInv'
  <2> DEFINE d == [delivery[p] EXCEPT !.state = "delivered", !.posted = @ + 1]
  <2>1. Moves(p, d) /\ delivery[p].state = "posting"
    BY <1>3 DEF PostSucceeds
  <2>2. PICK n \in 0..(MaxRetries + 1) : n = delivery[p].posted + 1
    BY <1>2, <2>1
  <2>3. /\ d \in DeliveryRecord /\ d.state = "delivered" /\ d.attempt = delivery[p].attempt
        /\ d.posted = delivery[p].posted + 1 /\ d.unsure = delivery[p].unsure
    <3>1. d = [delivery[p] EXCEPT !.state = "delivered", !.posted = n]
      BY <1>2, <2>1, <2>2 DEF DeliveryRecord
    <3> HIDE DEF d
    <3> QED
      BY <1>2, <2>1, <2>2, <3>1 DEF Ended, DeliveryRecord
  <2> HIDE DEF d
  <2>4. Sound(d, ran, returned)
    BY <1>0, <1>2, <2>1, <2>3 DEF Sound, Ended
  <2> QED
    BY <2>1, <2>4, MovesFacts
<1>4. ASSUME NEW p \in Providers, NEW s \in {"sleeping", "exhausted", "refused"},
             delivery[p].state = "posting", Moves(p, [delivery[p] EXCEPT !.state = s]),
             s # "refused" => s = AfterFailure(delivery[p])
      PROVE  NotifyInv'
  <2> DEFINE d == [delivery[p] EXCEPT !.state = s]
  <2>1. /\ d \in DeliveryRecord /\ d.state = s /\ d.attempt = delivery[p].attempt
        /\ d.posted = delivery[p].posted /\ d.unsure = delivery[p].unsure
    BY <1>2, <1>4 DEF DeliveryRecord, Ended
  <2> HIDE DEF d
  <2>2. Sound(d, ran, returned)
    BY <1>0, <1>2, <1>4, <2>1 DEF Sound, Ended, AfterFailure
  <2>3. Moves(p, d)
    BY <1>4 DEF d
  <2> QED
    BY <2>2, <2>3, MovesFacts
<1>5. ASSUME NEW p \in Providers, NEW arrived \in BOOLEAN, NEW s \in {"sleeping", "exhausted", "broken"},
             delivery[p].state = "posting", Moves(p, Unsure(delivery[p], arrived, s)),
             s # "broken" => s = AfterFailure(delivery[p])
      PROVE  NotifyInv'
  <2> DEFINE d == Unsure(delivery[p], arrived, s)
  <2>1. PICK n \in 0..(MaxRetries + 1) : n = IF arrived THEN delivery[p].posted + 1 ELSE delivery[p].posted
    BY <1>2, <1>5
  <2>2. PICK u \in 0..(MaxRetries + 1) : u = delivery[p].unsure + 1
    BY <1>2, <1>5
  <2>3. /\ d \in DeliveryRecord /\ d.state = s /\ d.attempt = delivery[p].attempt
        /\ d.posted = n /\ d.unsure = delivery[p].unsure + 1
    <3>1. d = [delivery[p] EXCEPT !.state = s, !.posted = n, !.unsure = u]
      BY <1>2, <1>5, <2>1, <2>2 DEF DeliveryRecord, Unsure
    <3> HIDE DEF d
    <3> QED
      BY <1>2, <1>5, <2>1, <2>2, <3>1 DEF Ended, DeliveryRecord
  <2> HIDE DEF d
  <2>4. Sound(d, ran, returned)
    BY <1>0, <1>2, <1>5, <2>1, <2>3 DEF Sound, Ended, AfterFailure
  <2>5. Moves(p, d)
    BY <1>5 DEF d
  <2> QED
    BY <2>4, <2>5, MovesFacts
<1>6. ASSUME NEW p \in Providers, RetryPost(p) PROVE NotifyInv'
  <2> DEFINE d == [delivery[p] EXCEPT !.state = "posting", !.attempt = @ + 1]
  <2>1. Moves(p, d) /\ delivery[p].state = "sleeping"
    BY <1>6 DEF RetryPost
  <2>2. /\ delivery[p] \in DeliveryRecord /\ delivery[p].attempt \in 0..(MaxRetries - 1)
        /\ delivery[p].unsure \in 0..(delivery[p].attempt + 1)
        /\ delivery[p].posted \in 0..delivery[p].unsure
    BY <1>0, <2>1 DEF DeliveryRecord, Sound
  <2>3. PICK a \in 0..MaxRetries : a = delivery[p].attempt + 1
    BY <2>2
  <2>4. /\ d \in DeliveryRecord /\ d.state = "posting" /\ d.attempt = delivery[p].attempt + 1
        /\ d.posted = delivery[p].posted /\ d.unsure = delivery[p].unsure
    <3>1. d = [delivery[p] EXCEPT !.state = "posting", !.attempt = a]
      BY <2>2, <2>3 DEF DeliveryRecord
    <3> HIDE DEF d
    <3> QED
      BY <2>2, <2>3, <3>1 DEF DeliveryRecord
  <2> HIDE DEF d
  <2>5. ran \notin {"none", "skipped"} /\ ~returned
    BY <1>0, <2>1 DEF Sound, Ended
  <2>6. Sound(d, ran, returned)
    BY <1>0, <2>2, <2>4, <2>5 DEF Sound, Ended
  <2> QED
    BY <2>1, <2>6, MovesFacts
<1>7. ASSUME PublishReturns PROVE NotifyInv'
  BY <1>0, <1>7 DEF PublishReturns, NotifyInv, Sound
<1>8. CASE UNCHANGED notifyVars
  BY <1>8 DEF notifyVars, NotifyInv
<1>9. ASSUME NEW p \in Providers, NotifyStep(p) PROVE NotifyInv'
  <2>1. CASE PostSucceeds(p)
    BY <1>3, <2>1
  <2>2. CASE PostRefused(p)
    BY <1>4, <2>2 DEF PostRefused
  <2>3. CASE PostThrottled(p)
    BY <1>2, <1>4, <2>3 DEF PostThrottled
  <2>4. ASSUME NEW arrived \in BOOLEAN, PostBreaks(p, arrived) PROVE NotifyInv'
    BY <1>5, <2>4 DEF PostBreaks
  <2>5. ASSUME NEW arrived \in BOOLEAN, PostFails(p, arrived) PROVE NotifyInv'
    BY <1>2, <1>5, <2>5 DEF PostFails
  <2>6. CASE RetryPost(p)
    BY <1>6, <2>6
  <2> QED
    BY <1>9, <2>1, <2>2, <2>3, <2>4, <2>5, <2>6 DEF NotifyStep
<1> QED
  BY <1>1, <1>7, <1>8, <1>9 DEF NotifyNext

\* The run starts in the invariant of the notifications.
LEMMA NotifyInitially == NotifyInit => NotifyInv
<1> SUFFICES ASSUME NotifyInit PROVE NotifyInv
  OBVIOUS
<1> DEFINE d == [state |-> "idle", attempt |-> 0, posted |-> 0, unsure |-> 0]
<1>1. d \in DeliveryRecord /\ Sound(d, "none", FALSE)
  BY NotificationsAssumption DEF DeliveryRecord, Sound
<1>2. returned \in BOOLEAN
  BY DEF NotifyInit
<1> HIDE DEF d
<1> QED
  BY <1>1, <1>2 DEF NotifyInit, NotifyInv, d

\* A channel shows the message of a run once, or never when its delivery was
\* given up, but for at most one more for every attempt of publish()
\* (notifications/slack.py) without a conclusive answer; and when run() gives
\* its result, a channel without the message was refused it, lost its
\* connection or failed every attempt.
THEOREM RunIsAnnouncedOnce ==
  NotifyInit /\ [][NotifyNext]_notifyVars => [](NotifyTypeOK /\ NotifiedOnce)
  BY NotifyKept, NotifyInitially, NotifyInductive, PTL

-----------------------------------------------------------------------------
(***************************************************************************)
(* Paging of a chart.                                                      *)
(***************************************************************************)

BarMaps == UNION {[S -> 0..MaxRevisions] : S \in SUBSET ChartDays}
ChartRecord == [phase: {"idle", "invalid", "paging", "done", "malformed", "failed"},
                start: ChartDays \cup {End}, end: ChartDays \cup {End}, before: ChartDays \cup {End},
                cursors: SUBSET ChartDays, bars: BarMaps]

\* The types, and what a call has not read before it is made.
ChartIsSound ==
  /\ chart \in ChartRecord
  /\ listing \in BarMaps
  /\ \A d \in DOMAIN listing : listing[d] <= revised
  /\ revised \in 0..MaxRevisions
  /\ regular \in BOOLEAN
  /\ chart.phase = "paging" => chart.before \in ChartDays
  /\ chart.phase = "idle" => DOMAIN chart.bars = {}

\* The trading days of the range.
Wanted == {d \in DOMAIN listing : chart.start <= d /\ d <= chart.end}

\* While the provider leaves no bar out, every wanted day after the cursor has
\* been read, and no other day.
PagesAreCovered ==
  /\ chart.phase = "paging" =>
       /\ DOMAIN chart.bars \subseteq Wanted
       /\ regular => \A d \in Wanted : d > chart.before => d \in DOMAIN chart.bars
  /\ revised = 0 => chart.bars = Restrict(listing, DOMAIN chart.bars)

ChartsInv == ChartIsSound /\ PagesAreCovered /\ ChartIsWhole

\* A set of numbers has a least element, which is the one Min picks.
LEMMA LeastOf ==
  ASSUME NEW T, T \subseteq Nat, T # {}
  PROVE  Min(T) \in T /\ \A y \in T : Min(T) <= y
<1>1. PICK x \in T : \A y \in T : ~(<<y, x>> \in OpToRel(<, Nat))
  BY NatLessThanWellFounded, WFMin, Zenon
<1>2. \A y \in T : ~(y < x)
  BY <1>1 DEF OpToRel
<1>3. \A y \in T : x <= y
  BY <1>2
<1> QED
  BY <1>3 DEF Min

\* A page holds the newest bars up to its cursor: what it leaves out is older
\* than everything on it.
LEMMA PageIsNewest ==
  ASSUME DOMAIN listing \subseteq Nat, NEW cursor \in Nat,
         NEW d \in DOMAIN listing, d <= cursor, d \notin Page(cursor),
         NEW e \in Page(cursor)
  PROVE  d < e
<1> SUFFICES ASSUME e <= d PROVE FALSE
  BY DEF Page
<1> DEFINE upTo == {x \in DOMAIN listing : x <= cursor}
           Newer(x) == {y \in upTo : y > x}
<1>1. upTo \subseteq 0..cursor /\ IsFiniteSet(0..cursor)
  BY FS_Interval
<1>2. IsFiniteSet(upTo)
  BY <1>1, FS_Subset
<1>3. IsFiniteSet(Newer(e)) /\ IsFiniteSet(Newer(d))
  BY <1>2, FS_Subset
<1>4. Newer(d) \subseteq Newer(e)
  BY DEF Page
<1>5. Cardinality(Newer(d)) <= Cardinality(Newer(e))
  BY <1>3, <1>4, FS_Subset
<1>6. Cardinality(Newer(d)) \in Nat /\ Cardinality(Newer(e)) \in Nat
  BY <1>3, FS_CardinalityType
<1>7. Cardinality(Newer(e)) < MaxCandles
  BY DEF Page
<1>8. ~(Cardinality(Newer(d)) < MaxCandles)
  BY DEF Page
<1> QED
  BY <1>5, <1>6, <1>7, <1>8, ChartsAssumption

\* The days of the call and of the listing are numbers.
LEMMA ChartNumbers ==
  ASSUME ChartIsSound
  PROVE  /\ DOMAIN listing \subseteq ChartDays /\ ChartDays \subseteq Nat
         /\ DOMAIN chart.bars \subseteq ChartDays
         /\ chart.before \in Nat /\ chart.start \in Nat /\ chart.end \in Nat
<1>1. DOMAIN listing \subseteq ChartDays /\ DOMAIN chart.bars \subseteq ChartDays
  BY DEF ChartIsSound, BarMaps, ChartRecord
<1>2. /\ chart.before \in ChartDays \cup {0} /\ chart.start \in ChartDays \cup {0}
      /\ chart.end \in ChartDays \cup {0}
  BY DEF ChartIsSound, ChartRecord, End
<1>3. ChartDays \subseteq Nat /\ ChartDays \cup {0} \subseteq Nat
  BY ChartsAssumption
<1> QED
  BY <1>1, <1>2, <1>3, Zenon

\* What a call has kept after a page, and what the next cursor leaves.
LEMMA PageLeaves ==
  ASSUME ChartIsSound, NEW next \in ChartDays \cup {End}, chart.phase = "paging",
         Proper(chart.before, next), NEW d \in Wanted, d <= chart.before, d \notin Page(chart.before)
  PROVE  /\ next # End /\ d <= next
         /\ ~Reached(Page(chart.before))
<1>1. /\ DOMAIN listing \subseteq Nat /\ chart.before \in Nat /\ d \in DOMAIN listing
      /\ chart.start <= d /\ chart.start \in Nat /\ d \in Nat
  <2>1. d \in DOMAIN listing /\ chart.start <= d
    BY DEF Wanted
  <2> QED
    BY <2>1, ChartNumbers
<1>2. next # End /\ d <= next
  BY <1>1 DEF Proper
<1>3. ASSUME Page(chart.before) # {} PROVE ~(Min(Page(chart.before)) <= chart.start)
  <2>1. Page(chart.before) \subseteq Nat
    BY <1>1 DEF Page
  <2>2. PICK m \in Page(chart.before) : m = Min(Page(chart.before))
    BY <1>3, <2>1, LeastOf
  <2>3. PICK b \in Nat : b = chart.before
    BY <1>1
  <2>4. d < m
    BY <1>1, <2>2, <2>3, PageIsNewest
  <2> QED
    BY <1>1, <2>1, <2>2, <2>4
<1> QED
  BY <1>2, <1>3 DEF Reached

\* A new value of the call's record, field by field.
LEMMA ChartFields ==
  ASSUME chart \in ChartRecord, NEW ph, NEW bf, NEW cs, NEW bs,
         chart' = [chart EXCEPT !.phase = ph, !.before = bf, !.cursors = cs, !.bars = bs],
         ph \in {"idle", "invalid", "paging", "done", "malformed", "failed"},
         bf \in ChartDays \cup {End}, cs \in SUBSET ChartDays, bs \in BarMaps
  PROVE  /\ chart' \in ChartRecord
         /\ chart'.phase = ph /\ chart'.before = bf /\ chart'.cursors = cs /\ chart'.bars = bs
         /\ chart'.start = chart.start /\ chart'.end = chart.end
  BY DEF ChartRecord

\* A page keeps the invariant.
LEMMA ReadPageKeeps ==
  ASSUME ChartsInv, NEW next \in ChartDays \cup {End}, ReadPage(next)
  PROVE  ChartsInv'
<1> DEFINE rows == Page(chart.before)
           kept == {d \in rows : chart.start <= d /\ d <= chart.end}
           conflict == \E d \in kept \cap DOMAIN chart.bars : chart.bars[d] # listing[d]
           done == Reached(rows) \/ next = End
           ph == IF conflict THEN "malformed" ELSE IF done THEN "done" ELSE "paging"
           merged == [d \in DOMAIN chart.bars \cup kept |-> IF d \in kept THEN listing[d] ELSE chart.bars[d]]
           bs == IF conflict THEN chart.bars ELSE merged
           cs == chart.cursors \cup {chart.before}
<1>1. /\ chart.phase = "paging" /\ listing' = listing /\ revised' = revised
      /\ chart' = [chart EXCEPT !.phase = ph, !.before = next, !.cursors = cs, !.bars = bs]
      /\ regular' = (regular /\ Proper(chart.before, next))
  BY DEF ReadPage
<1>2. ChartIsSound /\ PagesAreCovered /\ ChartIsWhole
  BY DEF ChartsInv
<1>3. kept = {d \in Wanted : d \in rows} /\ kept \subseteq ChartDays
  BY <1>2, ChartNumbers DEF Page, Wanted
<1>4. /\ chart \in ChartRecord /\ chart.bars \in BarMaps /\ listing \in BarMaps
      /\ chart.cursors \in SUBSET ChartDays /\ chart.before \in ChartDays
      /\ \A d \in DOMAIN listing : listing[d] \in 0..MaxRevisions /\ listing[d] <= revised
      /\ \A d \in DOMAIN chart.bars : chart.bars[d] \in 0..MaxRevisions
      /\ revised \in 0..MaxRevisions /\ regular \in BOOLEAN
  BY <1>1, <1>2 DEF ChartIsSound, ChartRecord, BarMaps
<1>5. DOMAIN chart.bars \subseteq Wanted
  BY <1>1, <1>2 DEF PagesAreCovered
<1>6. merged \in BarMaps
  <2>1. DOMAIN chart.bars \cup kept \in SUBSET ChartDays
    BY <1>2, <1>3, ChartNumbers
  <2>2. merged \in [DOMAIN chart.bars \cup kept -> 0..MaxRevisions]
    BY <1>3, <1>4 DEF Wanted
  <2> HIDE DEF kept, merged
  <2> QED
    BY <2>1, <2>2 DEF BarMaps
<1>7. DOMAIN merged = DOMAIN chart.bars \cup kept
  OBVIOUS
<1>8. revised = 0 => merged = Restrict(listing, DOMAIN chart.bars \cup kept)
  <2>1. revised = 0 => chart.bars = Restrict(listing, DOMAIN chart.bars)
    BY <1>2 DEF PagesAreCovered
  <2>2. ASSUME revised = 0, NEW d \in DOMAIN chart.bars PROVE chart.bars[d] = listing[d]
    BY <2>1, <2>2 DEF Restrict
  <2> QED
    BY <2>2 DEF Restrict
<1>9. revised = 0 => bs = Restrict(listing, DOMAIN bs)
  BY <1>2, <1>7, <1>8 DEF PagesAreCovered
<1>10. /\ bs \in BarMaps /\ DOMAIN bs \subseteq Wanted
       /\ ~conflict => DOMAIN bs = DOMAIN chart.bars \cup kept
  BY <1>3, <1>4, <1>5, <1>6, <1>7
<1>11. ph \in {"malformed", "done", "paging"} /\ cs \in SUBSET ChartDays
       /\ (ph # "malformed" => ~conflict) /\ (ph = "paging" => next # End) /\ (ph = "done" => done)
  BY <1>4
<1>12. regular' \in BOOLEAN /\ (regular' => regular /\ Proper(chart.before, next))
  <2>1. regular' \in BOOLEAN
    BY <1>1, Zenon
  <2> QED
    BY <1>1, <2>1
<1>13. ASSUME regular', ph # "malformed", NEW d \in Wanted, d \notin DOMAIN bs
       PROVE  next # End /\ d <= next /\ ~Reached(rows)
  <2>1. d \notin DOMAIN chart.bars /\ d \notin rows
    BY <1>3, <1>10, <1>11, <1>13
  <2>2. ~(d > chart.before)
    BY <1>1, <1>2, <1>12, <1>13, <2>1 DEF PagesAreCovered
  <2>3. d \in Nat /\ chart.before \in Nat
    BY <1>2, ChartNumbers DEF Wanted
  <2>4. d <= chart.before
    BY <2>2, <2>3
  <2> QED
    BY <1>1, <1>2, <1>12, <1>13, <2>1, <2>4, PageLeaves
<1> HIDE DEF ph, bs, cs, merged, kept, conflict
<1>14. /\ chart' \in ChartRecord /\ chart'.phase = ph /\ chart'.before = next /\ chart'.bars = bs
       /\ chart'.start = chart.start /\ chart'.end = chart.end
  BY <1>1, <1>4, <1>10, <1>11, ChartFields
<1>15. Wanted' = Wanted
  BY <1>1, <1>14 DEF Wanted
<1>16. ChartIsSound'
  <2>1. chart'.phase = "paging" => chart'.before \in ChartDays
    BY <1>11, <1>14
  <2>2. chart'.phase # "idle"
    BY <1>11, <1>14
  <2> QED
    BY <1>1, <1>4, <1>12, <1>14, <2>1, <2>2 DEF ChartIsSound
<1>17. PagesAreCovered'
  <2>1. ASSUME regular', ph = "paging", NEW d \in Wanted, d > next PROVE d \in DOMAIN bs
    <3>1. d \in Nat /\ next \in Nat
      BY <1>2, <2>1, ChartNumbers DEF Wanted, End
    <3> QED
      BY <1>13, <2>1, <3>1
  <2> QED
    BY <1>1, <1>9, <1>10, <1>14, <1>15, <2>1 DEF PagesAreCovered
<1>18. ChartIsWhole'
  <2>1. ASSUME regular', ph = "done" PROVE DOMAIN bs = Wanted
    BY <1>10, <1>11, <1>13, <2>1
  <2>2. Wanted = {d \in DOMAIN listing : chart.start <= d /\ d <= chart.end}
    BY DEF Wanted
  <2> QED
    BY <1>1, <1>9, <1>14, <2>1, <2>2 DEF ChartIsWhole
<1> QED
  BY <1>16, <1>17, <1>18 DEF ChartsInv

\* The call ends without another bar.
LEMMA EndKeeps ==
  ASSUME ChartsInv, NEW ph \in {"malformed", "failed"}, chart' = [chart EXCEPT !.phase = ph],
         UNCHANGED <<listing, revised, regular>>
  PROVE  ChartsInv'
<1>1. /\ chart' \in ChartRecord /\ chart'.phase = ph /\ chart'.bars = chart.bars
  BY DEF ChartsInv, ChartIsSound, ChartRecord
<1> QED
  BY <1>1 DEF ChartsInv, ChartIsSound, PagesAreCovered, ChartIsWhole

\* No step breaks the invariant of the call.
LEMMA ChartsInductive == ChartsInv /\ [ChartsNext]_chartVars => ChartsInv'
<1> SUFFICES ASSUME ChartsInv, [ChartsNext]_chartVars PROVE ChartsInv'
  OBVIOUS
<1>0. ChartIsSound /\ PagesAreCovered /\ ChartIsWhole
  BY DEF ChartsInv
<1>1. ASSUME NEW start \in ChartDays, NEW end \in ChartDays, AskDailyBars(start, end) PROVE ChartsInv'
  <2>1. PICK ph \in {"invalid", "paging"} : ph = IF start > end THEN "invalid" ELSE "paging"
    OBVIOUS
  <2>2. chart' = [chart EXCEPT !.phase = ph, !.start = start, !.end = end, !.before = end]
        /\ chart.phase = "idle" /\ UNCHANGED <<listing, revised, regular>>
    BY <1>1, <2>1 DEF AskDailyBars
  <2>3. /\ chart' \in ChartRecord /\ chart'.phase = ph /\ chart'.bars = chart.bars
        /\ chart'.before = end /\ chart'.start = start /\ chart'.end = end
    BY <1>0, <2>2 DEF ChartIsSound, ChartRecord
  <2>4. \A d \in Wanted' : ~(d > end)
    <3>1. DOMAIN listing \subseteq Nat /\ end \in Nat
      BY <1>0, ChartNumbers
    <3> QED
      BY <2>2, <2>3, <3>1 DEF Wanted
  <2>5. DOMAIN chart.bars = {}
    BY <1>0, <2>2 DEF ChartIsSound
  <2>6. ChartIsSound'
    BY <1>0, <2>2, <2>3, <2>5 DEF ChartIsSound
  <2>7. PagesAreCovered'
    BY <1>0, <2>2, <2>3, <2>4, <2>5 DEF PagesAreCovered
  <2> QED
    BY <2>3, <2>6, <2>7 DEF ChartsInv, ChartIsWhole
<1>2. ASSUME NEW next \in ChartDays \cup {End}, ReadPage(next) PROVE ChartsInv'
  BY <1>2, ReadPageKeeps
<1>3. ASSUME CursorRepeats PROVE ChartsInv'
  BY <1>3, EndKeeps DEF CursorRepeats
<1>4. ASSUME ChartFails PROVE ChartsInv'
  BY <1>4, EndKeeps DEF ChartFails
<1>5. ASSUME NEW d \in DOMAIN listing, ReviseBar(d) PROVE ChartsInv'
  <2>1. /\ chart' = chart /\ regular' = regular /\ chart.phase = "paging" /\ revised < MaxRevisions
        /\ revised' = revised + 1 /\ listing' = [listing EXCEPT ![d] = @ + 1]
    BY <1>5 DEF ReviseBar
  <2>2. revised \in Nat /\ revised' \in 0..MaxRevisions /\ revised' # 0
    BY <1>0, <2>1, ChartsAssumption DEF ChartIsSound
  <2>3. PICK S \in SUBSET ChartDays : listing \in [S -> 0..MaxRevisions]
    BY <1>0 DEF ChartIsSound, BarMaps
  <2>4. \A e \in S : listing[e] \in Nat /\ listing[e] <= revised
    BY <1>0, <2>3 DEF ChartIsSound
  <2>5. listing[d] + 1 \in 0..MaxRevisions /\ listing[d] + 1 <= revised'
    <3>1. d \in S
      BY <2>3
    <3>2. listing[d] \in Nat /\ listing[d] <= revised
      BY <2>4, <3>1
    <3>3. MaxRevisions \in Nat /\ revised < MaxRevisions /\ revised' = revised + 1
      BY <2>1, ChartsAssumption
    <3> QED
      BY <2>2, <3>2, <3>3
  <2>6. DOMAIN listing' = S /\ listing' \in [S -> 0..MaxRevisions]
    BY <2>1, <2>3, <2>5
  <2>7. \A e \in S : listing'[e] <= revised'
    BY <2>1, <2>2, <2>3, <2>4, <2>5
  <2>8. ChartIsSound'
    BY <1>0, <2>1, <2>2, <2>6, <2>7 DEF ChartIsSound, BarMaps
  <2>9. Wanted' = Wanted
    BY <2>1, <2>3, <2>6 DEF Wanted
  <2>10. PagesAreCovered'
    BY <1>0, <2>1, <2>2, <2>9 DEF PagesAreCovered
  <2> QED
    BY <2>1, <2>8, <2>10 DEF ChartsInv, ChartIsWhole
<1>6. CASE UNCHANGED chartVars
  BY <1>6 DEF chartVars, ChartsInv, ChartIsSound, PagesAreCovered, ChartIsWhole, Wanted
<1> QED
  BY <1>1, <1>2, <1>3, <1>4, <1>5, <1>6 DEF ChartsNext, ChartStep

\* A call begins in its invariant.
LEMMA ChartsInitially == ChartsInit => ChartsInv
<1> SUFFICES ASSUME ChartsInit PROVE ChartsInv
  OBVIOUS
<1>1. PICK days \in SUBSET ChartDays : listing = [d \in days |-> 0]
  BY DEF ChartsInit
<1>2. listing \in [days -> 0..MaxRevisions] /\ \A d \in DOMAIN listing : listing[d] <= 0
  BY <1>1, ChartsAssumption
<1>3. listing \in BarMaps
  BY <1>2 DEF BarMaps
<1>4. DOMAIN Resting.bars = {} /\ Resting.bars \in [{} -> 0..MaxRevisions]
  BY DEF Resting
<1>5. Resting.bars \in BarMaps
  <2>1. {} \in SUBSET ChartDays
    OBVIOUS
  <2> QED
    BY <1>4, <2>1 DEF BarMaps
<1>6. chart = Resting /\ revised = 0 /\ regular = TRUE
  BY DEF ChartsInit
<1>7. Resting \in ChartRecord
  <2>1. PICK b \in BarMaps : b = Resting.bars
    BY <1>5
  <2>2. Resting = [phase |-> "idle", start |-> End, end |-> End, before |-> End, cursors |-> {}, bars |-> b]
    BY <2>1 DEF Resting
  <2> QED
    BY <2>2 DEF ChartRecord
<1>8. ChartIsSound
  <2>1. revised \in 0..MaxRevisions
    BY <1>6, ChartsAssumption
  <2>2. chart.phase = "idle"
    BY <1>6 DEF Resting
  <2> QED
    BY <1>2, <1>3, <1>4, <1>6, <1>7, <2>1, <2>2 DEF ChartIsSound
<1>9. Resting.bars = Restrict(listing, DOMAIN Resting.bars)
  BY <1>4 DEF Restrict
<1> QED
  BY <1>6, <1>8, <1>9 DEF ChartsInv, PagesAreCovered, ChartIsWhole, Resting

\* Whatever pages the provider cuts the history into, a call that ends holds
\* every trading day of its range and no other, with the provider's bars when
\* none was revised: for any number of days and any size of a page.
THEOREM ChartHasEveryDay ==
  ChartsInit /\ [][ChartsNext]_chartVars => [](ChartsTypeOK /\ ChartIsWhole)
<1>1. ChartsInv => ChartsTypeOK /\ ChartIsWhole
  <2> SUFFICES ASSUME ChartsInv PROVE ChartsTypeOK
    BY DEF ChartsInv
  <2>1. ChartIsSound
    BY DEF ChartsInv
  <2>2. \A d \in DOMAIN listing : listing[d] \in 0..MaxRevisions
    BY <2>1 DEF ChartIsSound, BarMaps
  <2>3. /\ chart.phase \in {"idle", "invalid", "paging", "done", "malformed", "failed"}
        /\ chart.cursors \subseteq ChartDays
    BY <2>1 DEF ChartIsSound, ChartRecord
  <2> QED
    BY <2>1, <2>2, <2>3, ChartNumbers DEF ChartsTypeOK, ChartIsSound
<1> QED
  BY <1>1, ChartsInitially, ChartsInductive, PTL

-----------------------------------------------------------------------------
(***************************************************************************)
(* The life of a backtest run.                                             *)
(***************************************************************************)

\* A row without a result and without child rows.
Bare(row) == row.result = "none" /\ row.failure = "none" /\ ~row.trades /\ ~row.snapshots

\* A row that may be committed: completed with everything, or failed with a
\* code; b says what broke.
Whole(row, b) ==
  \/ /\ row.status = "completed" /\ row.result = row.mode /\ row.failure = "none"
     /\ row.trades /\ row.snapshots = (row.mode = "portfolio")
  \/ /\ row.status = "failed" /\ row.result = "none" /\ row.failure # "none"
     /\ row.trades = (b = "metrics") /\ ~row.snapshots

PostRecord == [step: {"new", "pending", "running", "executed", "failing", "respond", "over"},
               row: RunRow, sized: BOOLEAN, failure: Failures \cup {"none"},
               poisoned: BOOLEAN, broken: {"none", "read", "flush", "metrics"},
               end: {"open", "201", "422", "500", "aborted"}]

\* What the transaction t of a request holds at each step; kept says that its
\* run is committed, as the row r.
InOrder(t, kept, r) ==
  /\ t.step # "over" => t.end = "open" /\ ~kept
  /\ t.step \in {"pending", "running"} => Bare(t.row)
  /\ t.step \in {"pending", "running", "executed"} => ~t.poisoned
  /\ t.step = "executed" =>
       /\ t.row.result = "none" /\ t.row.failure = "none"
       /\ t.row.trades /\ t.row.snapshots = (t.row.mode = "portfolio")
  /\ t.step = "failing" =>
       /\ t.failure # "none" /\ t.row.result = "none" /\ t.row.failure = "none"
       /\ t.row.trades = (t.broken = "metrics") /\ ~t.row.snapshots
       /\ t.poisoned => t.broken = "read" \/ (t.broken = "flush" /\ t.row.mode = "portfolio")
  /\ t.step = "respond" => Whole(t.row, t.broken)
  /\ kept => Readable(r) /\ Whole(r, t.broken)
  /\ t.end = "201" => kept
  /\ t.end = "500" => \/ ~Readable(t.row)
                      \/ t.broken = "read"
                      \/ t.broken = "flush" /\ t.row.mode = "portfolio"

RunsInv ==
  /\ RunsTypeOK
  /\ \A p \in Posts : InOrder(post[p], p \in DOMAIN stored, stored[p])

\* The invariant gives the types.
LEMMA RunsTyped ==
  ASSUME RunsInv
  PROVE  /\ post \in [Posts -> PostRecord] /\ DOMAIN stored \subseteq Posts
         /\ \A p \in DOMAIN stored : stored[p] \in RunRow
         /\ \A p \in Posts : InOrder(post[p], p \in DOMAIN stored, stored[p])
  BY DEF RunsInv, RunsTypeOK, PostRecord

\* A request moves on and commits nothing: only its own transaction matters.
LEMMA RequestMoves ==
  ASSUME RunsInv, NEW p \in Posts, NEW t \in PostRecord, post' = [post EXCEPT ![p] = t],
         stored' = stored, InOrder(t, p \in DOMAIN stored, stored[p])
  PROVE  RunsInv'
<1>1. /\ post \in [Posts -> PostRecord] /\ DOMAIN stored \subseteq Posts
      /\ \A q \in DOMAIN stored : stored[q] \in RunRow
      /\ \A q \in Posts : InOrder(post[q], q \in DOMAIN stored, stored[q])
  BY RunsTyped
<1>2. /\ post' \in [Posts -> PostRecord]
      /\ \A q \in Posts : post'[q] = IF q = p THEN t ELSE post[q]
  BY <1>1
<1>3. \A q \in Posts : InOrder(post'[q], q \in DOMAIN stored', stored'[q])
  BY <1>1, <1>2
<1> QED
  BY <1>1, <1>2, <1>3 DEF RunsInv, RunsTypeOK, PostRecord

\* No step of a request breaks the invariant of the runs.
LEMMA RunsInductive == RunsInv /\ [RunsNext]_runVars => RunsInv'
<1> SUFFICES ASSUME RunsInv, [RunsNext]_runVars PROVE RunsInv'
  OBVIOUS
<1>0. /\ post \in [Posts -> PostRecord] /\ DOMAIN stored \subseteq Posts
      /\ \A q \in DOMAIN stored : stored[q] \in RunRow
      /\ \A q \in Posts : InOrder(post[q], q \in DOMAIN stored, stored[q])
  BY RunsTyped
<1>1. ASSUME NEW p \in Posts, NEW field \in FieldChoices, NEW key \in KeyChoices,
             NEW sized \in BOOLEAN, NEW valid \in BOOLEAN, NEW rangeOk \in BOOLEAN,
             CreateRun(p, field, key, sized, valid, rangeOk)
      PROVE RunsInv'
  <2>1. PICK m \in Modes \cup {"other"} : m = StoredMode(field, key)
    BY <1>1 DEF StoredMode, FieldChoices, KeyChoices, Modes
  <2>2. PICK n \in RunRow : n = [NoRow EXCEPT !.status = "pending", !.mode = m]
    BY DEF RunRow, NoRow
  <2>3. /\ [Fresh EXCEPT !.step = "pending", !.sized = sized, !.row = n] \in PostRecord
        /\ [Fresh EXCEPT !.step = "over", !.end = "422"] \in PostRecord
    BY <1>1 DEF PostRecord, Fresh, NoRow, RunRow, Modes
  <2>4. PICK u \in PostRecord : u = IF SchemaAccepts(field, sized, valid) /\ rangeOk
                                   THEN [Fresh EXCEPT !.step = "pending", !.sized = sized, !.row = n]
                                   ELSE [Fresh EXCEPT !.step = "over", !.end = "422"]
    BY <2>3
  <2>5. post' = [post EXCEPT ![p] = u] /\ stored' = stored /\ post[p].step = "new"
    BY <1>1, <2>1, <2>2, <2>4 DEF CreateRun
  <2>6. p \notin DOMAIN stored
    BY <1>0, <2>5 DEF InOrder
  <2>7. InOrder(u, p \in DOMAIN stored, stored[p])
    BY <2>2, <2>4, <2>6 DEF InOrder, Bare, NoRow, Fresh
  <2> QED
    BY <1>1, <2>5, <2>7, RequestMoves
<1>2. ASSUME NEW p \in Posts, StartRun(p) PROVE RunsInv'
  <2>1. PICK t \in PostRecord : t = post[p]
    BY <1>0
  <2>2. PICK r \in RunRow : r = t.row
    BY <2>1 DEF PostRecord
  <2>3. t.step = "pending" /\ InOrder(t, p \in DOMAIN stored, stored[p]) /\ stored' = stored
    BY <1>0, <1>2, <2>1, <2>2 DEF StartRun
  <2>4. r.trades \in BOOLEAN /\ r.snapshots \in BOOLEAN
    BY DEF RunRow
  <2>5. PICK n \in RunRow : n = [r EXCEPT !.status = "running"]
    BY DEF RunRow
  <2>6. /\ n.status = "running" /\ n.mode = r.mode /\ n.result = r.result
       /\ n.failure = r.failure /\ n.trades = r.trades /\ n.snapshots = r.snapshots
    BY <2>5 DEF RunRow
  <2>7. PICK u \in PostRecord : u = [t EXCEPT !.step = "running", !.row = n]
    BY <1>2 DEF PostRecord
  <2>8. /\ u.step = "running" /\ u.row = n /\ u.sized = t.sized
       /\ u.failure = t.failure /\ u.poisoned = t.poisoned /\ u.broken = t.broken /\ u.end = t.end
    BY <2>7 DEF PostRecord
  <2>9. post' = [post EXCEPT ![p].step = "running", ![p].row.status = "running"]
    BY <1>2, <2>1, <2>2, <2>3 DEF StartRun
  <2>10. post' = [q0 \in Posts |-> IF q0 = p THEN [post[p] EXCEPT !.step = "running", !.row.status = "running"] ELSE post[q0]]
    BY <1>0, <1>2, <2>9 DEF PostRecord
  <2>11. [post[p] EXCEPT !.step = "running", !.row.status = "running"] = u
    BY <2>1, <2>2, <2>5, <2>7 DEF PostRecord
  <2>12. post' = [post EXCEPT ![p] = u]
    BY <1>0, <2>10, <2>11
  <2>13. InOrder(u, p \in DOMAIN stored, stored[p])
    BY <1>2, <2>2, <2>3, <2>4, <2>6, <2>8 DEF InOrder, Bare, Whole
  <2> QED
    BY <1>2, <2>12, <2>3, <2>13, RequestMoves
<1>3. ASSUME NEW p \in Posts, NEW failure \in Failures, NEW database \in BOOLEAN,
             ExecuteFails(p, failure, database)
      PROVE RunsInv'
  <2>1. PICK t \in PostRecord : t = post[p]
    BY <1>0
  <2>2. PICK r \in RunRow : r = t.row
    BY <2>1 DEF PostRecord
  <2>3. t.step = "running" /\ InOrder(t, p \in DOMAIN stored, stored[p]) /\ stored' = stored
    BY <1>0, <1>3, <2>1, <2>2 DEF ExecuteFails
  <2>4. r.trades \in BOOLEAN /\ r.snapshots \in BOOLEAN
    BY DEF RunRow
  <2>5. PICK b \in {"none", "read"} : b = IF database THEN "read" ELSE "none"
    OBVIOUS
  <2>6. PICK u \in PostRecord : u = [t EXCEPT !.step = "failing", !.failure = failure, !.poisoned = database, !.broken = b]
    BY <1>3, <2>5 DEF PostRecord
  <2>7. /\ u.step = "failing" /\ u.row = t.row /\ u.sized = t.sized
       /\ u.failure = failure /\ u.poisoned = database /\ u.broken = b /\ u.end = t.end
    BY <2>6 DEF PostRecord
  <2>8. post' = [post EXCEPT ![p].step = "failing", ![p].failure = failure, ![p].poisoned = database, ![p].broken = b]
    BY <1>3, <2>1, <2>2, <2>3, <2>5 DEF ExecuteFails
  <2>9. post' = [q0 \in Posts |-> IF q0 = p THEN [post[p] EXCEPT !.step = "failing", !.failure = failure, !.poisoned = database, !.broken = b] ELSE post[q0]]
    BY <1>0, <1>3, <2>8 DEF PostRecord
  <2>10. [post[p] EXCEPT !.step = "failing", !.failure = failure, !.poisoned = database, !.broken = b] = u
    BY <2>1, <2>2, <2>6 DEF PostRecord
  <2>11. post' = [post EXCEPT ![p] = u]
    BY <1>0, <2>9, <2>10
  <2>12. InOrder(u, p \in DOMAIN stored, stored[p])
    BY <1>3, <2>2, <2>3, <2>4, <2>5, <2>7 DEF InOrder, Bare, Whole, Failures
  <2> QED
    BY <1>3, <2>11, <2>3, <2>12, RequestMoves
<1>4. ASSUME NEW p \in Posts, StoreRows(p) PROVE RunsInv'
  <2>1. PICK t \in PostRecord : t = post[p]
    BY <1>0
  <2>2. PICK r \in RunRow : r = t.row
    BY <2>1 DEF PostRecord
  <2>3. t.step = "running" /\ InOrder(t, p \in DOMAIN stored, stored[p]) /\ stored' = stored
    BY <1>0, <1>4, <2>1, <2>2 DEF StoreRows
  <2>4. r.trades \in BOOLEAN /\ r.snapshots \in BOOLEAN
    BY DEF RunRow
  <2>5. PICK q \in BOOLEAN : q = (r.mode = "portfolio")
    OBVIOUS
  <2>6. PICK n \in RunRow : n = [r EXCEPT !.trades = TRUE, !.snapshots = q]
    BY <2>5 DEF RunRow
  <2>7. /\ n.status = r.status /\ n.mode = r.mode /\ n.result = r.result
       /\ n.failure = r.failure /\ n.trades = TRUE /\ n.snapshots = q
    BY <2>6 DEF RunRow
  <2>8. PICK u \in PostRecord : u = [t EXCEPT !.step = "executed", !.row = n]
    BY <1>4, <2>5 DEF PostRecord
  <2>9. /\ u.step = "executed" /\ u.row = n /\ u.sized = t.sized
       /\ u.failure = t.failure /\ u.poisoned = t.poisoned /\ u.broken = t.broken /\ u.end = t.end
    BY <2>8 DEF PostRecord
  <2>10. post' = [post EXCEPT ![p].step = "executed", ![p].row.trades = TRUE, ![p].row.snapshots = q]
    BY <1>4, <2>1, <2>2, <2>3, <2>5 DEF StoreRows
  <2>11. post' = [q0 \in Posts |-> IF q0 = p THEN [post[p] EXCEPT !.step = "executed", !.row.trades = TRUE, !.row.snapshots = q] ELSE post[q0]]
    BY <1>0, <1>4, <2>10 DEF PostRecord
  <2>12. n = [post[p].row EXCEPT !.trades = TRUE, !.snapshots = q]
    BY <2>1, <2>2, <2>6
  <2>13. u = [post[p] EXCEPT !.step = "executed", !.row = n] /\ post[p] \in PostRecord
    BY <2>1, <2>8
  <2>14. [post[p] EXCEPT !.step = "executed", !.row.trades = TRUE, !.row.snapshots = q] = u
    BY <2>12, <2>13 DEF PostRecord
  <2>15. post' = [post EXCEPT ![p] = u]
    BY <1>0, <2>11, <2>14
  <2>16. InOrder(u, p \in DOMAIN stored, stored[p])
    BY <1>4, <2>2, <2>3, <2>4, <2>5, <2>7, <2>9 DEF InOrder, Bare, Whole
  <2> QED
    BY <1>4, <2>15, <2>3, <2>16, RequestMoves
<1>5. ASSUME NEW p \in Posts, StoreRowsFails(p) PROVE RunsInv'
  <2>1. PICK t \in PostRecord : t = post[p]
    BY <1>0
  <2>2. PICK r \in RunRow : r = t.row
    BY <2>1 DEF PostRecord
  <2>3. t.step = "running" /\ InOrder(t, p \in DOMAIN stored, stored[p]) /\ stored' = stored
    BY <1>0, <1>5, <2>1, <2>2 DEF StoreRowsFails
  <2>4. r.trades \in BOOLEAN /\ r.snapshots \in BOOLEAN
    BY DEF RunRow
  <2>5. PICK q \in BOOLEAN : q = (r.mode = "portfolio")
    OBVIOUS
  <2>6. PICK u \in PostRecord : u = [t EXCEPT !.step = "failing", !.failure = "EXECUTION_FAILED", !.poisoned = q, !.broken = "flush"]
    BY <1>5, <2>5 DEF PostRecord, Failures
  <2>7. /\ u.step = "failing" /\ u.row = t.row /\ u.sized = t.sized
       /\ u.failure = "EXECUTION_FAILED" /\ u.poisoned = q /\ u.broken = "flush" /\ u.end = t.end
    BY <2>6 DEF PostRecord
  <2>8. post' = [post EXCEPT ![p].step = "failing", ![p].failure = "EXECUTION_FAILED", ![p].poisoned = q, ![p].broken = "flush"]
    BY <1>5, <2>1, <2>2, <2>3, <2>5 DEF StoreRowsFails
  <2>9. post' = [q0 \in Posts |-> IF q0 = p THEN [post[p] EXCEPT !.step = "failing", !.failure = "EXECUTION_FAILED", !.poisoned = q, !.broken = "flush"] ELSE post[q0]]
    BY <1>0, <1>5, <2>8 DEF PostRecord
  <2>10. [post[p] EXCEPT !.step = "failing", !.failure = "EXECUTION_FAILED", !.poisoned = q, !.broken = "flush"] = u
    BY <2>1, <2>2, <2>6 DEF PostRecord
  <2>11. post' = [post EXCEPT ![p] = u]
    BY <1>0, <2>9, <2>10
  <2>12. InOrder(u, p \in DOMAIN stored, stored[p])
    BY <1>5, <2>2, <2>3, <2>4, <2>5, <2>7 DEF InOrder, Bare, Whole
  <2> QED
    BY <1>5, <2>11, <2>3, <2>12, RequestMoves
<1>6. ASSUME NEW p \in Posts, MetricsFail(p) PROVE RunsInv'
  <2>1. PICK t \in PostRecord : t = post[p]
    BY <1>0
  <2>2. PICK r \in RunRow : r = t.row
    BY <2>1 DEF PostRecord
  <2>3. t.step = "executed" /\ r.mode = "independent" /\ InOrder(t, p \in DOMAIN stored, stored[p]) /\ stored' = stored
    BY <1>0, <1>6, <2>1, <2>2 DEF MetricsFail
  <2>4. r.trades \in BOOLEAN /\ r.snapshots \in BOOLEAN
    BY DEF RunRow
  <2>5. PICK u \in PostRecord : u = [t EXCEPT !.step = "failing", !.failure = "EXECUTION_FAILED", !.broken = "metrics"]
    BY <1>6 DEF PostRecord, Failures
  <2>6. /\ u.step = "failing" /\ u.row = t.row /\ u.sized = t.sized
       /\ u.failure = "EXECUTION_FAILED" /\ u.poisoned = t.poisoned /\ u.broken = "metrics" /\ u.end = t.end
    BY <2>5 DEF PostRecord
  <2>7. post' = [post EXCEPT ![p].step = "failing", ![p].failure = "EXECUTION_FAILED", ![p].broken = "metrics"]
    BY <1>6, <2>1, <2>2, <2>3 DEF MetricsFail
  <2>8. post' = [q0 \in Posts |-> IF q0 = p THEN [post[p] EXCEPT !.step = "failing", !.failure = "EXECUTION_FAILED", !.broken = "metrics"] ELSE post[q0]]
    BY <1>0, <1>6, <2>7 DEF PostRecord
  <2>9. [post[p] EXCEPT !.step = "failing", !.failure = "EXECUTION_FAILED", !.broken = "metrics"] = u
    BY <2>1, <2>2, <2>5 DEF PostRecord
  <2>10. post' = [post EXCEPT ![p] = u]
    BY <1>0, <2>8, <2>9
  <2>11. InOrder(u, p \in DOMAIN stored, stored[p])
    BY <1>6, <2>2, <2>3, <2>4, <2>6 DEF InOrder, Bare, Whole
  <2> QED
    BY <1>6, <2>10, <2>3, <2>11, RequestMoves
<1>7. ASSUME NEW p \in Posts, CompleteRun(p) PROVE RunsInv'
  <2>1. PICK t \in PostRecord : t = post[p]
    BY <1>0
  <2>2. PICK r \in RunRow : r = t.row
    BY <2>1 DEF PostRecord
  <2>3. t.step = "executed" /\ InOrder(t, p \in DOMAIN stored, stored[p]) /\ stored' = stored
    BY <1>0, <1>7, <2>1, <2>2 DEF CompleteRun
  <2>4. r.trades \in BOOLEAN /\ r.snapshots \in BOOLEAN
    BY DEF RunRow
  <2>5. PICK m \in Modes \cup {"other"} : m = r.mode
    BY <2>1, <2>2 DEF PostRecord, RunRow
  <2>6. PICK n \in RunRow : n = [r EXCEPT !.status = "completed", !.result = m]
    BY <2>5 DEF RunRow
  <2>7. /\ n.status = "completed" /\ n.mode = r.mode /\ n.result = m
       /\ n.failure = r.failure /\ n.trades = r.trades /\ n.snapshots = r.snapshots
    BY <2>6 DEF RunRow
  <2>8. PICK u \in PostRecord : u = [t EXCEPT !.step = "respond", !.row = n]
    BY <1>7, <2>5 DEF PostRecord
  <2>9. /\ u.step = "respond" /\ u.row = n /\ u.sized = t.sized
       /\ u.failure = t.failure /\ u.poisoned = t.poisoned /\ u.broken = t.broken /\ u.end = t.end
    BY <2>8 DEF PostRecord
  <2>10. post' = [post EXCEPT ![p].step = "respond", ![p].row.status = "completed", ![p].row.result = m]
    BY <1>7, <2>1, <2>2, <2>3, <2>5 DEF CompleteRun
  <2>11. post' = [q0 \in Posts |-> IF q0 = p THEN [post[p] EXCEPT !.step = "respond", !.row.status = "completed", !.row.result = m] ELSE post[q0]]
    BY <1>0, <1>7, <2>10 DEF PostRecord
  <2>12. n = [post[p].row EXCEPT !.status = "completed", !.result = m]
    BY <2>1, <2>2, <2>6
  <2>13. u = [post[p] EXCEPT !.step = "respond", !.row = n] /\ post[p] \in PostRecord
    BY <2>1, <2>8
  <2>14. [post[p] EXCEPT !.step = "respond", !.row.status = "completed", !.row.result = m] = u
    BY <2>12, <2>13 DEF PostRecord
  <2>15. post' = [post EXCEPT ![p] = u]
    BY <1>0, <2>11, <2>14
  <2>16. InOrder(u, p \in DOMAIN stored, stored[p])
    BY <1>7, <2>2, <2>3, <2>4, <2>5, <2>7, <2>9 DEF InOrder, Bare, Whole
  <2> QED
    BY <1>7, <2>15, <2>3, <2>16, RequestMoves
<1>8. ASSUME NEW p \in Posts, FailRun(p) PROVE RunsInv'
  <2>1. CASE post[p].poisoned
    <3>1. PICK t \in PostRecord : t = post[p]
      BY <1>0
    <3>2. PICK r \in RunRow : r = t.row
      BY <3>1 DEF PostRecord
    <3>3. t.step = "failing" /\ t.poisoned /\ InOrder(t, p \in DOMAIN stored, stored[p]) /\ stored' = stored
      BY <1>0, <1>8, <2>1, <3>1, <3>2 DEF FailRun
    <3>4. r.trades \in BOOLEAN /\ r.snapshots \in BOOLEAN
      BY DEF RunRow
    <3>5. PICK u \in PostRecord : u = [t EXCEPT !.step = "over", !.end = "500"]
      BY <1>8 DEF PostRecord
    <3>6. /\ u.step = "over" /\ u.row = t.row /\ u.sized = t.sized
         /\ u.failure = t.failure /\ u.poisoned = t.poisoned /\ u.broken = t.broken /\ u.end = "500"
      BY <3>5 DEF PostRecord
    <3>7. post' = [post EXCEPT ![p].step = "over", ![p].end = "500"]
      BY <1>8, <2>1, <3>1, <3>2, <3>3 DEF FailRun
    <3>8. post' = [q0 \in Posts |-> IF q0 = p THEN [post[p] EXCEPT !.step = "over", !.end = "500"] ELSE post[q0]]
      BY <1>0, <1>8, <3>7 DEF PostRecord
    <3>9. [post[p] EXCEPT !.step = "over", !.end = "500"] = u
      BY <3>1, <3>2, <3>5 DEF PostRecord
    <3>10. post' = [post EXCEPT ![p] = u]
      BY <1>0, <3>8, <3>9
    <3>11. InOrder(u, p \in DOMAIN stored, stored[p])
      BY <1>8, <3>2, <3>3, <3>4, <3>6 DEF InOrder, Bare, Whole
    <3> QED
      BY <1>8, <2>1, <3>10, <3>3, <3>11, RequestMoves
  <2>2. CASE ~post[p].poisoned
    <3>1. PICK t \in PostRecord : t = post[p]
      BY <1>0
    <3>2. PICK r \in RunRow : r = t.row
      BY <3>1 DEF PostRecord
    <3>3. t.step = "failing" /\ InOrder(t, p \in DOMAIN stored, stored[p]) /\ stored' = stored
      BY <1>0, <1>8, <2>2, <3>1, <3>2 DEF FailRun
    <3>4. r.trades \in BOOLEAN /\ r.snapshots \in BOOLEAN
      BY DEF RunRow
    <3>5. PICK c \in Failures \cup {"none"} : c = t.failure
      BY <3>1, <3>2 DEF PostRecord, RunRow
    <3>6. PICK n \in RunRow : n = [r EXCEPT !.status = "failed", !.failure = c]
      BY <3>5 DEF RunRow
    <3>7. /\ n.status = "failed" /\ n.mode = r.mode /\ n.result = r.result
         /\ n.failure = c /\ n.trades = r.trades /\ n.snapshots = r.snapshots
      BY <3>6 DEF RunRow
    <3>8. PICK u \in PostRecord : u = [t EXCEPT !.step = "respond", !.row = n]
      BY <1>8, <3>5 DEF PostRecord
    <3>9. /\ u.step = "respond" /\ u.row = n /\ u.sized = t.sized
         /\ u.failure = t.failure /\ u.poisoned = t.poisoned /\ u.broken = t.broken /\ u.end = t.end
      BY <3>8 DEF PostRecord
    <3>10. post' = [post EXCEPT ![p].step = "respond", ![p].row.status = "failed", ![p].row.failure = c]
      BY <1>8, <2>2, <3>1, <3>2, <3>3, <3>5 DEF FailRun
    <3>11. post' = [q0 \in Posts |-> IF q0 = p THEN [post[p] EXCEPT !.step = "respond", !.row.status = "failed", !.row.failure = c] ELSE post[q0]]
      BY <1>0, <1>8, <3>10 DEF PostRecord
    <3>12. n = [post[p].row EXCEPT !.status = "failed", !.failure = c]
      BY <3>1, <3>2, <3>6
    <3>13. u = [post[p] EXCEPT !.step = "respond", !.row = n] /\ post[p] \in PostRecord
      BY <3>1, <3>8
    <3>14. [post[p] EXCEPT !.step = "respond", !.row.status = "failed", !.row.failure = c] = u
      BY <3>12, <3>13 DEF PostRecord
    <3>15. post' = [post EXCEPT ![p] = u]
      BY <1>0, <3>11, <3>14
    <3>16. InOrder(u, p \in DOMAIN stored, stored[p])
      BY <1>8, <3>2, <3>3, <3>4, <3>5, <3>7, <3>9 DEF InOrder, Bare, Whole
    <3> QED
      BY <1>8, <2>2, <3>15, <3>3, <3>16, RequestMoves
  <2> QED
    BY <2>1, <2>2
<1>9. ASSUME NEW p \in Posts, Respond(p) PROVE RunsInv'
  <2>1. CASE Readable(post[p].row)
    <3>1. PICK t \in PostRecord : t = post[p]
      BY <1>0
    <3>2. PICK r \in RunRow : r = t.row
      BY <3>1 DEF PostRecord
    <3>3. t.step = "respond" /\ InOrder(t, p \in DOMAIN stored, stored[p])
      BY <1>0, <1>9, <3>1 DEF Respond
    <3>4. PICK u \in PostRecord : u = [t EXCEPT !.step = "over", !.end = "201"]
      BY DEF PostRecord
    <3>5. u.step = "over" /\ u.end = "201" /\ u.broken = t.broken /\ u.row = r
      BY <3>2, <3>4 DEF PostRecord
    <3>6. /\ post' = [post EXCEPT ![p].step = "over", ![p].end = "201"]
          /\ stored' = [q \in DOMAIN stored \cup {p} |-> IF q = p THEN r ELSE stored[q]]
      BY <1>9, <2>1, <3>1, <3>2 DEF Respond
    <3>7. post' = [post EXCEPT ![p] = u]
      <4>1. post' = [q0 \in Posts |-> IF q0 = p THEN [post[p] EXCEPT !.step = "over", !.end = "201"] ELSE post[q0]]
        BY <1>0, <1>9, <3>6 DEF PostRecord
      <4> QED
        BY <1>0, <3>1, <3>4, <4>1
    <3>8. /\ post' \in [Posts -> PostRecord]
          /\ \A q \in Posts : post'[q] = IF q = p THEN u ELSE post[q]
      BY <1>0, <3>7
    <3>9. /\ DOMAIN stored' \subseteq Posts /\ \A q \in DOMAIN stored' : stored'[q] \in RunRow
          /\ \A q \in DOMAIN stored : q # p => q \in DOMAIN stored' /\ stored'[q] = stored[q]
          /\ \A q \in DOMAIN stored' : q # p => q \in DOMAIN stored
          /\ p \in DOMAIN stored' /\ stored'[p] = r
      BY <1>0, <3>6
    <3>10. InOrder(u, TRUE, r)
      BY <2>1, <3>1, <3>2, <3>3, <3>5 DEF InOrder
    <3>11. ASSUME NEW q \in Posts PROVE InOrder(post'[q], q \in DOMAIN stored', stored'[q])
      <4>1. CASE q = p
        BY <3>8, <3>9, <3>10, <3>11, <4>1 DEF InOrder
      <4>2. CASE q # p /\ q \in DOMAIN stored
        <5>1. post'[q] = post[q]
          BY <3>8, <3>11, <4>2
        <5>2. q \in DOMAIN stored' /\ stored'[q] = stored[q]
          BY <3>9, <3>11, <4>2
        <5> QED
          BY <1>0, <3>11, <4>2, <5>1, <5>2 DEF InOrder
      <4>3. CASE q # p /\ q \notin DOMAIN stored
        <5>1. post'[q] = post[q]
          BY <3>8, <3>11, <4>3
        <5>2. q \notin DOMAIN stored'
          BY <3>9, <3>11, <4>3
        <5> QED
          BY <1>0, <3>11, <4>3, <5>1, <5>2 DEF InOrder
      <4> QED
        BY <4>1, <4>2, <4>3
    <3> QED
      BY <3>8, <3>9, <3>11 DEF RunsInv, RunsTypeOK, PostRecord
  <2>2. CASE ~Readable(post[p].row)
    <3>1. PICK t \in PostRecord : t = post[p]
      BY <1>0
    <3>2. PICK r \in RunRow : r = t.row
      BY <3>1 DEF PostRecord
    <3>3. t.step = "respond" /\ ~Readable(r) /\ InOrder(t, p \in DOMAIN stored, stored[p]) /\ stored' = stored
      BY <1>0, <1>9, <2>2, <3>1, <3>2 DEF Respond
    <3>4. r.trades \in BOOLEAN /\ r.snapshots \in BOOLEAN
      BY DEF RunRow
    <3>5. PICK u \in PostRecord : u = [t EXCEPT !.step = "over", !.end = "500"]
      BY <1>9 DEF PostRecord
    <3>6. /\ u.step = "over" /\ u.row = t.row /\ u.sized = t.sized
         /\ u.failure = t.failure /\ u.poisoned = t.poisoned /\ u.broken = t.broken /\ u.end = "500"
      BY <3>5 DEF PostRecord
    <3>7. post' = [post EXCEPT ![p].step = "over", ![p].end = "500"]
      BY <1>9, <2>2, <3>1, <3>2, <3>3 DEF Respond
    <3>8. post' = [q0 \in Posts |-> IF q0 = p THEN [post[p] EXCEPT !.step = "over", !.end = "500"] ELSE post[q0]]
      BY <1>0, <1>9, <3>7 DEF PostRecord
    <3>9. [post[p] EXCEPT !.step = "over", !.end = "500"] = u
      BY <3>1, <3>2, <3>5 DEF PostRecord
    <3>10. post' = [post EXCEPT ![p] = u]
      BY <1>0, <3>8, <3>9
    <3>11. InOrder(u, p \in DOMAIN stored, stored[p])
      BY <1>9, <3>2, <3>3, <3>4, <3>6 DEF InOrder, Bare, Whole
    <3> QED
      BY <1>9, <2>2, <3>10, <3>3, <3>11, RequestMoves
  <2> QED
    BY <2>1, <2>2
<1>10. ASSUME NEW p \in Posts, AbortRun(p) PROVE RunsInv'
  <2>1. PICK t \in PostRecord : t = post[p]
    BY <1>0
  <2>2. PICK r \in RunRow : r = t.row
    BY <2>1 DEF PostRecord
  <2>3. t.step \notin {"new", "over"} /\ InOrder(t, p \in DOMAIN stored, stored[p]) /\ stored' = stored
    BY <1>0, <1>10, <2>1, <2>2 DEF AbortRun
  <2>4. r.trades \in BOOLEAN /\ r.snapshots \in BOOLEAN
    BY DEF RunRow
  <2>5. PICK u \in PostRecord : u = [t EXCEPT !.step = "over", !.end = "aborted"]
    BY <1>10 DEF PostRecord
  <2>6. /\ u.step = "over" /\ u.row = t.row /\ u.sized = t.sized
       /\ u.failure = t.failure /\ u.poisoned = t.poisoned /\ u.broken = t.broken /\ u.end = "aborted"
    BY <2>5 DEF PostRecord
  <2>7. post' = [post EXCEPT ![p].step = "over", ![p].end = "aborted"]
    BY <1>10, <2>1, <2>2, <2>3 DEF AbortRun
  <2>8. post' = [q0 \in Posts |-> IF q0 = p THEN [post[p] EXCEPT !.step = "over", !.end = "aborted"] ELSE post[q0]]
    BY <1>0, <1>10, <2>7 DEF PostRecord
  <2>9. [post[p] EXCEPT !.step = "over", !.end = "aborted"] = u
    BY <2>1, <2>2, <2>5 DEF PostRecord
  <2>10. post' = [post EXCEPT ![p] = u]
    BY <1>0, <2>8, <2>9
  <2>11. InOrder(u, p \in DOMAIN stored, stored[p])
    BY <1>10, <2>2, <2>3, <2>4, <2>6 DEF InOrder, Bare, Whole
  <2> QED
    BY <1>10, <2>10, <2>3, <2>11, RequestMoves
<1>11. CASE UNCHANGED runVars
  BY <1>11 DEF runVars, RunsInv, RunsTypeOK
<1> QED
  BY <1>1, <1>2, <1>3, <1>4, <1>5, <1>6, <1>7, <1>8, <1>9, <1>10, <1>11 DEF RunsNext

\* No request has been made at first.
LEMMA RunsInitially == RunsInit => RunsInv
<1> SUFFICES ASSUME RunsInit PROVE RunsInv
  OBVIOUS
<1>1. Fresh \in PostRecord
  BY DEF Fresh, NoRow, PostRecord, RunRow, Modes
<1>2. DOMAIN stored = {}
  BY DEF RunsInit
<1>3. post \in [Posts -> PostRecord] /\ \A p \in Posts : post[p] = Fresh
  BY <1>1 DEF RunsInit
<1>4. \A p \in Posts : InOrder(post[p], p \in DOMAIN stored, stored[p])
  BY <1>2, <1>3 DEF InOrder, Fresh
<1> QED
  BY <1>2, <1>3, <1>4 DEF RunsInv, RunsTypeOK, PostRecord

\* No reader of the runs ever sees half a run, a failure is recorded on its run
\* unless the transaction itself is lost, and every endpoint can serve what is
\* stored: for any number of concurrent requests.
THEOREM RunsAreStoredWhole ==
  RunsInit /\ [][RunsNext]_runVars => [](RunsTypeOK /\ StoredRunsAreSound)
<1>1. RunsInv => RunsTypeOK /\ StoredRunsAreSound
  <2> SUFFICES ASSUME RunsInv PROVE StoredRunsAreSound
    BY DEF RunsInv
  <2>1. StoredRunsAreWhole
    BY RunsTyped DEF StoredRunsAreWhole, InOrder, Whole
  <2>2. FailuresAreRecorded
    BY RunsTyped DEF FailuresAreRecorded, InOrder
  <2>3. StoredRunsAreServed
    <3>1. ListAnswer = "200"
      BY RunsTyped DEF ListAnswer, InOrder
    <3>2. ASSUME NEW p \in Posts PROVE AnalyzeAnswer(p) = "200" => stored[p].trades
      BY RunsTyped DEF AnalyzeAnswer, InOrder, Whole
    <3>3. ASSUME NEW p \in Posts PROVE PortfolioAnswer(p) = "200" => stored[p].snapshots
      BY RunsTyped DEF PortfolioAnswer, InOrder, Whole
    <3>4. ASSUME NEW p \in Posts PROVE post[p].end = "201" => p \in DOMAIN stored
      BY RunsTyped DEF InOrder
    <3> QED
      BY <3>1, <3>2, <3>3, <3>4 DEF StoredRunsAreServed
  <2> QED
    BY <2>1, <2>2, <2>3 DEF StoredRunsAreSound
<1> QED
  BY <1>1, RunsInitially, RunsInductive, PTL

-----------------------------------------------------------------------------
(***************************************************************************)
(* The readers of the watchlist.                                           *)
(***************************************************************************)

Rows == [by: 0..MaxPublications, full: BOOLEAN]
Tables == [succeeded: [Dates -> 0..MaxPublications], entries: [Dates -> Rows], any: BOOLEAN]

\* The tables only grow: a success replaces an older one together with its
\* rows, and there is no success without an execution.
TablesGrow ==
  /\ before \in Tables
  /\ \A d \in Dates :
       /\ entries[d].by = succeeded[d]
       /\ succeeded[d] <= published
       /\ before.succeeded[d] <= succeeded[d]
       /\ succeeded[d] # 0 => anyExecution
  /\ before.any => anyExecution

VisibleDates == {d \in Dates : Visible(d)}

ReadRecord == [op: Endpoints \cup {"none"}, date: Dates \cup {NoDate}, step: Steps,
               execution: 0..MaxPublications, items: Rows, dates: SUBSET Dates,
               status: {0, 200, 404}]

\* A request without a date reads nothing before it has found one.
Dateless(r) == r.date = NoDate <=> r.op \in {"latest", "history"}

\* No date that the request may ask for had a success when it arrived.
NoSuccessBefore(r) ==
  \A d \in Dates : r.date \in {NoDate, d} => before.succeeded[d] = 0

\* What a request r knows while it looks for its date.
SearchOf(r) ==
  /\ r.op \in {"results", "by_date", "latest", "history"}
  /\ Dateless(r)
  /\ r.op # "by_date" => r.items = Nothing
  /\ r.op = "by_date" => r.items.by >= before.succeeded[r.date]
  /\ r.op = "by_date" /\ Undisturbed => r.items = entries[r.date]
  /\ r.execution = 0 /\ r.dates = {}

\* What is known at each SELECT.
OnItsWay(r) ==
  /\ r.op = "none" => r.step = "done"
  /\ r.step = "execution" => r.op = "results" /\ r.date \in Dates /\ r.items = Nothing /\ r.dates = {}
  /\ r.step = "success" => SearchOf(r) /\ (r.op = "results" => NoSuccessBefore(r))
  /\ r.step = "anyRow" => SearchOf(r) /\ NoSuccessBefore(r)
  /\ r.step = "legacy" => SearchOf(r) /\ NoSuccessBefore(r) /\ ~before.any
  /\ r.step = "entries" =>
       /\ r.op \in {"results", "by_date", "latest", "by_symbol"}
       /\ r.date \in Dates /\ r.dates = {}
       /\ r.execution <= succeeded[r.date]
       /\ r.op # "results" => r.execution = 0
       /\ Undisturbed /\ r.op = "results" => Visible(r.date) /\ r.execution = succeeded[r.date]
       /\ Undisturbed /\ r.op = "latest" => VisibleDates # {} /\ r.date = Max(VisibleDates)

\* The properties of an answer, endpoint by endpoint.
RightAnswer(r) ==
  r.step = "done" /\ r.op # "none" =>
    /\ r.status = 200 /\ r.op \in {"results", "latest", "by_date"} /\ r.date # NoDate
         => r.items.by >= r.execution /\ r.items.by >= before.succeeded[r.date]
    /\ r.op \in {"results", "by_date"} /\ before.succeeded[r.date] # 0 => r.status = 200
    /\ Undisturbed =>
         /\ r.op = "history" => r.dates = VisibleDates
         /\ r.op = "latest" => r.items = IF VisibleDates = {} THEN Nothing ELSE entries[Max(VisibleDates)]
         /\ r.op = "results" => IF Visible(r.date) THEN r.status = 200 /\ r.execution = r.items.by
                               ELSE r.status = 404
         /\ r.op \in {"by_date", "by_symbol"} /\ r.status = 200 => r.items = entries[r.date]

ReadersInv == ResultsTypeOK /\ TablesGrow /\ OnItsWay(read) /\ RightAnswer(read)

\* The highest element of a finite set of numbers is the one Max picks: the
\* one with the fewest elements above it.
LEMMA HighestOf ==
  ASSUME NEW S, S \subseteq Nat, IsFiniteSet(S), S # {}
  PROVE  Max(S) \in S /\ \A y \in S : Max(S) >= y
<1> DEFINE Above(x) == {y \in S : y > x}
           Counts == {Cardinality(Above(x)) : x \in S}
<1>1. \A x \in S : IsFiniteSet(Above(x)) /\ Cardinality(Above(x)) \in Nat
  <2> SUFFICES ASSUME NEW x \in S PROVE IsFiniteSet(Above(x)) /\ Cardinality(Above(x)) \in Nat
    OBVIOUS
  <2>1. Above(x) \subseteq S
    OBVIOUS
  <2> QED
    BY <2>1, FS_Subset, FS_CardinalityType
<1>2. Counts \subseteq Nat /\ Counts # {}
  BY <1>1
<1>3. Min(Counts) \in Counts /\ \A c \in Counts : Min(Counts) <= c
  BY <1>2, LeastOf
<1>4. PICK x \in S : Min(Counts) = Cardinality(Above(x))
  BY <1>3
<1>5. ASSUME NEW y \in S, y > x PROVE FALSE
  <2>0. \A z \in S : z > y => z > x
    BY <1>5
  <2>1. /\ IsFiniteSet(Above(x)) /\ Above(y) \subseteq Above(x) /\ y \in Above(x) /\ y \notin Above(y)
    <3>1. IsFiniteSet(Above(x))
      BY <1>1
    <3>2. Above(y) \subseteq Above(x)
      BY <2>0
    <3>3. y \in Above(x)
      BY <1>5
    <3>4. y \notin Above(y)
      BY <1>5
    <3> QED
      BY <3>1, <3>2, <3>3, <3>4
  <2>2. Cardinality(Above(y)) < Cardinality(Above(x))
    <3>1. Above(y) # Above(x)
      BY <2>1
    <3> HIDE DEF Above
    <3>2. /\ Cardinality(Above(y)) <= Cardinality(Above(x))
          /\ Cardinality(Above(y)) = Cardinality(Above(x)) => Above(y) = Above(x)
      BY <2>1, FS_Subset
    <3>3. Cardinality(Above(y)) \in Nat /\ Cardinality(Above(x)) \in Nat
      BY <1>1, <1>5
    <3> QED
      BY <3>1, <3>2, <3>3
  <2>3. Cardinality(Above(x)) <= Cardinality(Above(y))
    BY <1>3, <1>4
  <2> QED
    BY <1>1, <2>2, <2>3
<1>6. \A y \in S : x >= y
  BY <1>5
<1> QED
  BY <1>6 DEF Max

\* The types of the invariant.
LEMMA ReadersTyped ==
  ASSUME ReadersInv
  PROVE  /\ read \in ReadRecord
         /\ succeeded \in [Dates -> 0..MaxPublications] /\ entries \in [Dates -> Rows]
         /\ anyExecution \in BOOLEAN /\ published \in 0..MaxPublications /\ before \in Tables
         /\ NoDate \notin Dates
  BY ResultsAssumption DEF ReadersInv, ResultsTypeOK, ReadRecord, TablesGrow, NoDate, Rows

\* What the tables were, when nothing was committed meanwhile.
LEMMA UndisturbedTables ==
  ASSUME Undisturbed
  PROVE  before.succeeded = succeeded /\ before.entries = entries /\ before.any = anyExecution
  BY DEF Undisturbed, Snapshot

\* A SELECT moves the request only: what has to be shown is about its record.
LEMMA ReadsOn ==
  ASSUME ReadersInv, OnlyReads, NEW r \in ReadRecord, read' = r, OnItsWay(r), RightAnswer(r)
  PROVE  ReadersInv'
<1>1. /\ succeeded' = succeeded /\ entries' = entries /\ anyExecution' = anyExecution
      /\ published' = published /\ before' = before
  BY DEF OnlyReads
<1>2. ResultsTypeOK' /\ TablesGrow'
  BY <1>1 DEF ReadersInv, ResultsTypeOK, TablesGrow, ReadRecord, Rows
<1>3. Undisturbed' <=> Undisturbed
  BY <1>1 DEF Undisturbed, Snapshot
<1>4. VisibleDates' = VisibleDates
  BY <1>1 DEF VisibleDates, Visible
<1>5. OnItsWay(read)'
  BY <1>1, <1>3, <1>4 DEF OnItsWay, SearchOf, Dateless, NoSuccessBefore, Visible
<1>6. RightAnswer(read)'
  BY <1>1, <1>3, <1>4 DEF RightAnswer, Visible
<1> QED
  BY <1>2, <1>5, <1>6 DEF ReadersInv

\* A commit between two SELECTs: the tables have grown, and the request is no
\* longer undisturbed.
LEMMA CommitsBetween ==
  ASSUME ReadersInv, read' = read, before' = before, ResultsTypeOK', TablesGrow', ~Undisturbed',
         \A d \in Dates : succeeded[d] <= succeeded'[d]
  PROVE  ReadersInv'
<1>1. OnItsWay(read)'
  <2>1. read.step = "entries" => read.execution <= succeeded'[read.date]
    <3> SUFFICES ASSUME read.step = "entries" PROVE read.execution <= succeeded'[read.date]
      OBVIOUS
    <3>1. read.date \in Dates /\ read.execution <= succeeded[read.date]
      BY DEF ReadersInv, OnItsWay
    <3>2. PICK d \in Dates : d = read.date
      BY <3>1
    <3>3. read.execution \in Nat /\ succeeded[d] \in Nat /\ succeeded'[d] \in Nat
      BY ReadersTyped DEF ReadRecord, ResultsTypeOK
    <3> QED
      BY <3>1, <3>2, <3>3
  <2> QED
    BY <2>1 DEF ReadersInv, OnItsWay, SearchOf, Dateless, NoSuccessBefore
<1>2. RightAnswer(read)'
  BY DEF ReadersInv, RightAnswer
<1> QED
  BY <1>1, <1>2 DEF ReadersInv

\* A SELECT that leads to step s of the same request.
LEMMA GotoFacts ==
  ASSUME read \in ReadRecord, NEW s \in Steps, Goto(s)
  PROVE  /\ read' \in ReadRecord /\ read'.op = read.op /\ read'.step = s
         /\ read'.status = read.status /\ read'.date = read.date
         /\ read'.execution = read.execution /\ read'.items = read.items /\ read'.dates = read.dates
  BY DEF ReadRecord, Goto

\* A SELECT that ends the request.
LEMMA AnswerFacts ==
  ASSUME read \in ReadRecord, NEW c \in {0, 200, 404}, Answer(c)
  PROVE  /\ read' \in ReadRecord /\ read'.op = read.op /\ read'.step = "done"
         /\ read'.status = c /\ read'.date = read.date
         /\ read'.execution = read.execution /\ read'.items = read.items /\ read'.dates = read.dates
  BY ZenonT(60) DEF ReadRecord, Answer, Steps

\* A SELECT that finds the date of the request.
LEMMA DateFacts ==
  ASSUME read \in ReadRecord, NEW m \in Dates, read' = [read EXCEPT !.date = m, !.step = "entries"]
  PROVE  /\ read' \in ReadRecord /\ read'.op = read.op /\ read'.step = "entries"
         /\ read'.status = read.status /\ read'.date = m
         /\ read'.execution = read.execution /\ read'.items = read.items /\ read'.dates = read.dates
  BY ZenonT(60) DEF ReadRecord, Steps

\* The request goes on to the entries of the newest of the dates it found.
LEMMA LatestFacts ==
  ASSUME read \in ReadRecord, NEW S \in SUBSET Dates, S # {},
         read' = [read EXCEPT !.date = Max(S), !.step = "entries"]
  PROVE  /\ read' \in ReadRecord /\ read'.op = read.op /\ read'.step = "entries"
         /\ read'.status = read.status /\ read'.date = Max(S) /\ Max(S) \in S
         /\ read'.execution = read.execution /\ read'.items = read.items /\ read'.dates = read.dates
<1>1. S \subseteq Nat /\ IsFiniteSet(S)
  BY ResultsAssumption, FS_Subset
<1>2. PICK m \in S : m = Max(S)
  BY <1>1, HighestOf
<1>3. m \in Dates /\ read' = [read EXCEPT !.date = m, !.step = "entries"]
  BY <1>2
<1> QED
  BY <1>2, <1>3, DateFacts, Zenon

\* The request ends with the dates it found.
LEMMA HistoryFacts ==
  ASSUME read \in ReadRecord, NEW S \in SUBSET Dates,
         read' = [read EXCEPT !.dates = S, !.step = "done", !.status = 200]
  PROVE  /\ read' \in ReadRecord /\ read'.op = read.op /\ read'.step = "done"
         /\ read'.status = 200 /\ read'.dates = S
         /\ read'.execution = read.execution /\ read'.items = read.items /\ read'.date = read.date
  BY ZenonT(60) DEF ReadRecord, Steps

\* Without a success, and with no execution meanwhile, the visible dates are
\* the dates with rows; with a success they are the successes.
LEMMA VisibleFacts ==
  ASSUME ReadersInv
  PROVE  /\ (\E d \in Dates : succeeded[d] # 0) => VisibleDates = {d \in Dates : succeeded[d] # 0}
         /\ anyExecution => VisibleDates = {d \in Dates : succeeded[d] # 0}
         /\ ~anyExecution => VisibleDates = {d \in Dates : entries[d].full}
         /\ \A d \in Dates : d \in VisibleDates <=> Visible(d)
         /\ \A d \in Dates : ~anyExecution => succeeded[d] = 0
  BY DEF ReadersInv, TablesGrow, VisibleDates, Visible

\* A commit may only have added to what the request saw on its arrival.
LEMMA BeforeFacts ==
  ASSUME ReadersInv
  PROVE  /\ \A d \in Dates : /\ before.succeeded[d] \in Nat /\ succeeded[d] \in Nat
                             /\ before.succeeded[d] <= succeeded[d]
                             /\ entries[d] \in Rows /\ entries[d].by = succeeded[d]
         /\ before.any => anyExecution
<1>1. \A d \in Dates : before.succeeded[d] <= succeeded[d] /\ entries[d].by = succeeded[d]
  BY DEF ReadersInv, TablesGrow
<1>2. before.any => anyExecution
  BY DEF ReadersInv, TablesGrow
<1>3. \A d \in Dates : before.succeeded[d] \in Nat /\ succeeded[d] \in Nat
  BY ReadersTyped DEF Tables
<1>4. \A d \in Dates : entries[d] \in Rows
  BY ReadersTyped
<1> QED
  BY <1>1, <1>2, <1>3, <1>4

\* results() has looked for the newest success of its date.
LEMMA ReadExecutionKeeps ==
  ASSUME ReadersInv, ReadExecution
  PROVE  ReadersInv'
<1>1. /\ read.step = "execution" /\ read.op = "results" /\ read.date \in Dates
      /\ read.items = Nothing /\ read.dates = {}
  BY DEF ReadersInv, OnItsWay, ReadExecution
<1>2. PICK x \in 0..MaxPublications : x = succeeded[read.date]
  BY <1>1, ReadersTyped
<1>3. PICK s \in {"entries", "success"} : s = IF x # 0 THEN "entries" ELSE "success"
  OBVIOUS
<1>4. read' = [read EXCEPT !.execution = x, !.step = s]
  BY <1>2, <1>3 DEF ReadExecution
<1>5. PICK r \in ReadRecord : r = [read EXCEPT !.execution = x, !.step = s]
  BY ReadersTyped, ZenonT(60) DEF ReadRecord, Steps
<1>6. /\ r.op = "results" /\ r.step = s /\ r.date = read.date /\ r.execution = x /\ r.items = Nothing /\ r.dates = {}
  BY <1>1, <1>5, ReadersTyped DEF ReadRecord
<1>7. NoDate # read.date
  BY <1>1, ReadersTyped
<1>8. OnItsWay(r)
  <2>1. CASE s = "entries"
    <3>1. x # 0 /\ Visible(read.date)
      BY <1>2, <1>3, <2>1 DEF Visible
    <3> QED
      BY <1>1, <1>2, <1>6, <2>1, <3>1 DEF OnItsWay
  <2>2. CASE s = "success"
    <3>1. x = 0
      BY <1>3, <2>2
    <3>2. before.succeeded[read.date] = 0
      <4>1. PICK d \in Dates : d = read.date
        BY <1>1
      <4>2. before.succeeded[d] \in Nat /\ before.succeeded[d] <= succeeded[d]
        BY BeforeFacts
      <4>3. succeeded[d] = 0
        BY <1>2, <3>1, <4>1
      <4>4. before.succeeded[d] = 0
        BY <4>2, <4>3
      <4> QED
        BY <4>1, <4>4
    <3> QED
      BY <1>6, <1>7, <2>2, <3>1, <3>2 DEF OnItsWay, SearchOf, Dateless, NoSuccessBefore
  <2> QED
    BY <2>1, <2>2
<1>9. RightAnswer(r)
  BY <1>3, <1>6 DEF RightAnswer
<1> QED
  BY <1>4, <1>5, <1>8, <1>9, ReadsOn DEF ReadExecution

\* The search for a success goes on, or ends with one.
LEMMA ReadSuccessKeeps ==
  ASSUME ReadersInv, ReadSuccess
  PROVE  ReadersInv'
<1> DEFINE found == {d \in Dates : succeeded[d] # 0}
           mine  == IF read.date = NoDate THEN found ELSE found \cap {read.date}
<1>1. read.step = "success" /\ SearchOf(read) /\ (read.op = "results" => NoSuccessBefore(read)) /\ OnlyReads
  BY DEF ReadersInv, OnItsWay, ReadSuccess
<1>2. read \in ReadRecord /\ NoDate \notin Dates
  BY ReadersTyped
<1>3. /\ read.op \in {"results", "by_date", "latest", "history"}
      /\ read.date = NoDate <=> read.op \in {"latest", "history"}
      /\ read.execution = 0 /\ read.dates = {}
  BY <1>1 DEF SearchOf, Dateless
<1>4. read.date \in Dates \/ read.date = NoDate
  BY <1>2 DEF ReadRecord
<1>5. CASE mine = {}
  <2>1. Goto("anyRow")
    BY <1>5 DEF ReadSuccess
  <2>2. /\ read' \in ReadRecord /\ read'.op = read.op /\ read'.step = "anyRow" /\ read'.date = read.date
        /\ read'.execution = read.execution /\ read'.items = read.items /\ read'.dates = read.dates
    BY <1>2, <2>1, GotoFacts DEF Steps
  <2>3. PICK r \in ReadRecord : r = read'
    BY <2>2
  <2>4. NoSuccessBefore(read)
    <3>1. \A d \in Dates : read.date \in {NoDate, d} => succeeded[d] = 0
      BY <1>2, <1>5
    <3> QED
      BY <3>1, BeforeFacts DEF NoSuccessBefore
  <2>5. SearchOf(r) /\ NoSuccessBefore(r)
    BY <1>1, <2>2, <2>3, <2>4 DEF SearchOf, Dateless, NoSuccessBefore
  <2>6. OnItsWay(r) /\ RightAnswer(r)
    BY <1>3, <2>2, <2>3, <2>5 DEF OnItsWay, RightAnswer
  <2> QED
    BY <1>1, <2>3, <2>6, ReadsOn
<1>6. CASE mine # {} /\ read.op = "results"
  <2>1. Goto("entries")
    BY <1>6 DEF ReadSuccess
  <2>2. /\ read' \in ReadRecord /\ read'.op = read.op /\ read'.step = "entries" /\ read'.date = read.date
        /\ read'.execution = read.execution /\ read'.items = read.items /\ read'.dates = read.dates
    BY <1>2, <2>1, GotoFacts DEF Steps
  <2>3. PICK r \in ReadRecord : r = read'
    BY <2>2
  <2>4. read.date \in Dates /\ succeeded[read.date] # 0 /\ before.succeeded[read.date] = 0
    BY <1>1, <1>3, <1>4, <1>6 DEF NoSuccessBefore
  <2>5. ~Undisturbed
    BY <2>4, UndisturbedTables
  <2>6. 0 <= succeeded[read.date]
    <3>1. PICK d \in Dates : d = read.date
      BY <2>4
    <3> QED
      BY <3>1, BeforeFacts
  <2>7. OnItsWay(r) /\ RightAnswer(r)
    BY <1>3, <1>6, <2>2, <2>3, <2>4, <2>5, <2>6 DEF OnItsWay, RightAnswer
  <2> QED
    BY <1>1, <2>3, <2>7, ReadsOn
<1>7. CASE mine # {} /\ read.op = "by_date"
  <2>1. Answer(200)
    BY <1>7 DEF ReadSuccess
  <2>2. /\ read' \in ReadRecord /\ read'.op = read.op /\ read'.step = "done" /\ read'.date = read.date
        /\ read'.status = 200 /\ read'.execution = 0 /\ read'.items = read.items
    BY <1>2, <1>3, <2>1, AnswerFacts
  <2>3. PICK r \in ReadRecord : r = read'
    BY <2>2
  <2>4. read.items.by \in Nat
    BY <1>2 DEF ReadRecord, Rows
  <2>5. /\ read.items.by >= before.succeeded[read.date]
        /\ Undisturbed => read.items = entries[read.date]
    BY <1>1, <1>7 DEF SearchOf
  <2>6. OnItsWay(r) /\ RightAnswer(r)
    BY <1>7, <2>2, <2>3, <2>4, <2>5 DEF OnItsWay, RightAnswer
  <2> QED
    BY <1>1, <2>3, <2>6, ReadsOn
<1>8. CASE mine # {} /\ read.op \in {"latest", "history"}
  <2>1. read.date = NoDate /\ mine = found /\ found # {}
    BY <1>3, <1>8
  <2>2. VisibleDates = found
    BY <2>1, VisibleFacts
  <2>3. PICK S \in SUBSET Dates : S = found
    OBVIOUS
  <2>4. CASE read.op = "latest"
    <3>1. read' = [read EXCEPT !.date = Max(S), !.step = "entries"]
      BY <1>8, <2>1, <2>3, <2>4 DEF ReadSuccess
    <3>2. /\ read' \in ReadRecord /\ read'.op = read.op /\ read'.step = "entries"
          /\ read'.date = Max(S) /\ Max(S) \in S /\ read'.execution = read.execution /\ read'.dates = read.dates
      BY <1>2, <2>1, <2>3, <3>1, LatestFacts
    <3>3. PICK r \in ReadRecord : r = read'
      BY <3>2
    <3>4. PICK m \in S : m = Max(S)
      BY <3>2
    <3>5. 0 <= succeeded[m] /\ m \in Dates
      BY <3>4, BeforeFacts
    <3>6. OnItsWay(r) /\ RightAnswer(r)
      BY <1>3, <2>1, <2>2, <2>3, <2>4, <3>2, <3>3, <3>4, <3>5 DEF OnItsWay, RightAnswer
    <3> QED
      BY <1>1, <3>3, <3>6, ReadsOn
  <2>5. CASE read.op = "history"
    <3>1. read' = [read EXCEPT !.dates = S, !.step = "done", !.status = 200]
      BY <1>8, <2>1, <2>3, <2>5 DEF ReadSuccess
    <3>2. /\ read' \in ReadRecord /\ read'.op = "history" /\ read'.step = "done" /\ read'.dates = S
      BY <1>2, <2>5, <3>1, HistoryFacts
    <3>3. PICK r \in ReadRecord : r = read'
      BY <3>2
    <3>4. OnItsWay(r) /\ RightAnswer(r)
      BY <2>2, <2>3, <3>2, <3>3 DEF OnItsWay, RightAnswer
    <3> QED
      BY <1>1, <3>3, <3>4, ReadsOn
  <2> QED
    BY <1>8, <2>4, <2>5
<1> QED
  BY <1>3, <1>5, <1>6, <1>7, <1>8

\* No date had a success: whether rows without one count is decided by the
\* executions.
LEMMA ReadAnyRowKeeps ==
  ASSUME ReadersInv, ReadAnyRow
  PROVE  ReadersInv'
<1>1. read.step = "anyRow" /\ SearchOf(read) /\ NoSuccessBefore(read) /\ OnlyReads
  BY DEF ReadersInv, OnItsWay, ReadAnyRow
<1>2. read \in ReadRecord /\ NoDate \notin Dates
  BY ReadersTyped
<1>3. /\ read.op \in {"results", "by_date", "latest", "history"}
      /\ read.date = NoDate <=> read.op \in {"latest", "history"}
      /\ read.execution = 0 /\ (read.op # "by_date" => read.items = Nothing) /\ read.dates = {}
  BY <1>1 DEF SearchOf, Dateless
<1>4. read.date \in Dates \/ read.date = NoDate
  BY <1>2 DEF ReadRecord
<1>5. CASE ~anyExecution
  <2>1. Goto("legacy")
    BY <1>5 DEF ReadAnyRow
  <2>2. /\ read' \in ReadRecord /\ read'.op = read.op /\ read'.step = "legacy" /\ read'.date = read.date
        /\ read'.execution = read.execution /\ read'.items = read.items /\ read'.dates = read.dates
    BY <1>2, <2>1, GotoFacts DEF Steps
  <2>3. PICK r \in ReadRecord : r = read'
    BY <2>2
  <2>4. SearchOf(r) /\ NoSuccessBefore(r) /\ ~before.any
    BY <1>1, <1>5, <2>2, <2>3, BeforeFacts DEF SearchOf, Dateless, NoSuccessBefore
  <2>5. OnItsWay(r) /\ RightAnswer(r)
    BY <1>3, <2>2, <2>3, <2>4 DEF OnItsWay, RightAnswer
  <2> QED
    BY <1>1, <2>3, <2>5, ReadsOn
<1>6. CASE anyExecution
  <2>1. PICK c \in {200, 404} : c = IF read.op \in {"latest", "history"} THEN 200 ELSE 404
    OBVIOUS
  <2>2. Answer(c)
    BY <1>6, <2>1 DEF ReadAnyRow
  <2>3. /\ read' \in ReadRecord /\ read'.op = read.op /\ read'.step = "done" /\ read'.date = read.date
        /\ read'.execution = 0 /\ read'.items = read.items /\ read'.status = c /\ read'.dates = read.dates
    BY <1>2, <1>3, <2>2, AnswerFacts
  <2>4. PICK r \in ReadRecord : r = read'
    BY <2>3
  <2>5. VisibleDates = {d \in Dates : succeeded[d] # 0}
    BY <1>6, VisibleFacts
  <2>6. ASSUME Undisturbed, NEW d \in Dates, read.date \in {NoDate, d} PROVE d \notin VisibleDates
    BY <1>1, <2>5, <2>6, UndisturbedTables DEF NoSuccessBefore
  <2>7. Undisturbed /\ read.op \in {"latest", "history"} => VisibleDates = {}
    BY <1>3, <2>5, <2>6
  <2>8. Undisturbed /\ read.op = "results" => ~Visible(read.date)
    BY <1>3, <1>4, <2>6, VisibleFacts
  <2>9. read.op \in {"results", "by_date"} => before.succeeded[read.date] = 0
    BY <1>1, <1>3, <1>4 DEF NoSuccessBefore
  <2>10. OnItsWay(r)
    BY <1>3, <2>3, <2>4 DEF OnItsWay
  <2>11. read.op = "history" => read.dates = {}
    BY <1>1 DEF SearchOf
  <2>12. RightAnswer(r)
    BY <1>3, <2>1, <2>3, <2>4, <2>7, <2>8, <2>9, <2>11 DEF RightAnswer
  <2> QED
    BY <1>1, <2>4, <2>10, <2>12, ReadsOn
<1> QED
  BY <1>5, <1>6

\* The dates of the rows count, as long as there is no execution.
LEMMA ReadLegacyKeeps ==
  ASSUME ReadersInv, ReadLegacy
  PROVE  ReadersInv'
<1> DEFINE found == {d \in Dates : entries[d].full}
           mine  == IF read.date = NoDate THEN found ELSE found \cap {read.date}
<1>1. read.step = "legacy" /\ SearchOf(read) /\ NoSuccessBefore(read) /\ ~before.any /\ OnlyReads
  BY DEF ReadersInv, OnItsWay, ReadLegacy
<1>2. read \in ReadRecord /\ NoDate \notin Dates
  BY ReadersTyped
<1>3. /\ read.op \in {"results", "by_date", "latest", "history"}
      /\ read.date = NoDate <=> read.op \in {"latest", "history"}
      /\ read.execution = 0 /\ (read.op # "by_date" => read.items = Nothing) /\ read.dates = {}
  BY <1>1 DEF SearchOf, Dateless
<1>4. read.date \in Dates \/ read.date = NoDate
  BY <1>2 DEF ReadRecord
<1>5. Undisturbed => VisibleDates = found /\ ~anyExecution
  BY <1>1, VisibleFacts, UndisturbedTables
<1>6. read.op \in {"results", "by_date"} => read.date \in Dates /\ before.succeeded[read.date] = 0
  BY <1>1, <1>3, <1>4 DEF NoSuccessBefore
<1>7. PICK S \in SUBSET Dates : S = found
  OBVIOUS
<1>8. CASE read.op = "history"
  <2>1. read' = [read EXCEPT !.dates = S, !.step = "done", !.status = 200]
    BY <1>3, <1>7, <1>8 DEF ReadLegacy
  <2>2. /\ read' \in ReadRecord /\ read'.op = "history" /\ read'.step = "done" /\ read'.dates = S
    BY <1>2, <1>8, <2>1, HistoryFacts
  <2>3. PICK r \in ReadRecord : r = read'
    BY <2>2
  <2>4. OnItsWay(r) /\ RightAnswer(r)
    BY <1>5, <1>7, <2>2, <2>3 DEF OnItsWay, RightAnswer
  <2> QED
    BY <1>1, <2>3, <2>4, ReadsOn
<1>9. CASE mine = {} /\ read.op # "history"
  <2>1. PICK c \in {200, 404} : c = IF read.op = "latest" THEN 200 ELSE 404
    OBVIOUS
  <2>2. Answer(c)
    BY <1>9, <2>1 DEF ReadLegacy
  <2>3. /\ read' \in ReadRecord /\ read'.op = read.op /\ read'.step = "done" /\ read'.date = read.date
        /\ read'.execution = 0 /\ read'.items = read.items /\ read'.status = c
    BY <1>2, <1>3, <2>2, AnswerFacts
  <2>4. PICK r \in ReadRecord : r = read'
    BY <2>3
  <2>5. Undisturbed /\ read.op = "latest" => VisibleDates = {}
    BY <1>3, <1>5, <1>9
  <2>6. Undisturbed /\ read.op = "results" => ~Visible(read.date)
    <3> SUFFICES ASSUME Undisturbed, read.op = "results" PROVE read.date \notin VisibleDates
      BY <1>6, VisibleFacts
    <3>1. read.date # NoDate
      BY <1>3
    <3> QED
      BY <1>5, <1>9, <3>1
  <2>7. OnItsWay(r) /\ RightAnswer(r)
    BY <1>3, <1>6, <1>9, <2>1, <2>3, <2>4, <2>5, <2>6 DEF OnItsWay, RightAnswer
  <2> QED
    BY <1>1, <2>4, <2>7, ReadsOn
<1>10. CASE mine # {} /\ read.op = "by_date"
  <2>1. Answer(200)
    BY <1>10 DEF ReadLegacy
  <2>2. /\ read' \in ReadRecord /\ read'.op = read.op /\ read'.step = "done" /\ read'.date = read.date
        /\ read'.status = 200 /\ read'.execution = 0 /\ read'.items = read.items
    BY <1>2, <1>3, <2>1, AnswerFacts
  <2>3. PICK r \in ReadRecord : r = read'
    BY <2>2
  <2>4. read.items.by \in Nat
    BY <1>2 DEF ReadRecord, Rows
  <2>5. /\ read.items.by >= before.succeeded[read.date]
        /\ Undisturbed => read.items = entries[read.date]
    BY <1>1, <1>10 DEF SearchOf
  <2>6. OnItsWay(r) /\ RightAnswer(r)
    BY <1>10, <2>2, <2>3, <2>4, <2>5 DEF OnItsWay, RightAnswer
  <2> QED
    BY <1>1, <2>3, <2>6, ReadsOn
<1>11. CASE mine # {} /\ read.op = "results"
  <2>1. Goto("entries")
    BY <1>11 DEF ReadLegacy
  <2>2. /\ read' \in ReadRecord /\ read'.op = read.op /\ read'.step = "entries" /\ read'.date = read.date
        /\ read'.execution = read.execution /\ read'.items = read.items /\ read'.dates = read.dates
    BY <1>2, <2>1, GotoFacts DEF Steps
  <2>3. PICK r \in ReadRecord : r = read'
    BY <2>2
  <2>4. PICK d \in Dates : d = read.date
    BY <1>6, <1>11
  <2>5. 0 <= succeeded[d]
    BY BeforeFacts
  <2>6. Undisturbed => Visible(d) /\ succeeded[d] = 0
    <3>1. d \in found
      BY <1>2, <1>11, <2>4
    <3> QED
      BY <1>5, <3>1, VisibleFacts
  <2>7. OnItsWay(r) /\ RightAnswer(r)
    BY <1>3, <1>11, <2>2, <2>3, <2>4, <2>5, <2>6 DEF OnItsWay, RightAnswer
  <2> QED
    BY <1>1, <2>3, <2>7, ReadsOn
<1>12. CASE mine # {} /\ read.op = "latest"
  <2>1. read.date = NoDate /\ mine = S /\ S # {}
    BY <1>3, <1>7, <1>12
  <2>2. read' = [read EXCEPT !.date = Max(S), !.step = "entries"]
    BY <1>12, <2>1 DEF ReadLegacy
  <2>3. /\ read' \in ReadRecord /\ read'.op = read.op /\ read'.step = "entries"
        /\ read'.date = Max(S) /\ Max(S) \in S /\ read'.execution = read.execution /\ read'.dates = read.dates
    BY <1>2, <2>1, <2>2, LatestFacts
  <2>4. PICK r \in ReadRecord : r = read'
    BY <2>3
  <2>5. PICK m \in S : m = Max(S)
    BY <2>3
  <2>6. 0 <= succeeded[m] /\ m \in Dates
    BY <2>5, BeforeFacts
  <2>7. OnItsWay(r) /\ RightAnswer(r)
    BY <1>3, <1>5, <1>7, <1>12, <2>1, <2>3, <2>4, <2>5, <2>6 DEF OnItsWay, RightAnswer
  <2> QED
    BY <1>1, <2>4, <2>7, ReadsOn
<1> QED
  BY <1>3, <1>8, <1>9, <1>10, <1>11, <1>12

\* The rows of the date: the answer, or for by_date the last SELECT but one.
LEMMA ReadEntriesKeeps ==
  ASSUME ReadersInv, ReadEntries
  PROVE  ReadersInv'
<1>1. /\ read.step = "entries" /\ read.op \in {"results", "by_date", "latest", "by_symbol"}
      /\ read.date \in Dates /\ read.dates = {} /\ read.execution <= succeeded[read.date]
      /\ read.op # "results" => read.execution = 0
      /\ Undisturbed /\ read.op = "results" => Visible(read.date) /\ read.execution = succeeded[read.date]
      /\ Undisturbed /\ read.op = "latest" => VisibleDates # {} /\ read.date = Max(VisibleDates)
      /\ OnlyReads
  BY DEF ReadersInv, OnItsWay, ReadEntries
<1>2. read \in ReadRecord /\ NoDate \notin Dates
  BY ReadersTyped
<1>3. PICK d \in Dates : d = read.date
  BY <1>1
<1>4. PICK e \in Rows : e = entries[d]
  BY BeforeFacts
<1>5. /\ e.by = succeeded[d] /\ e.by \in Nat /\ before.succeeded[d] \in Nat
      /\ before.succeeded[d] <= e.by
  BY <1>4, BeforeFacts
<1>6. read.execution \in Nat /\ read.execution <= e.by
  BY <1>1, <1>2, <1>3, <1>5 DEF ReadRecord
<1>7. CASE read.op = "by_date" /\ ~e.full
  <2>1. read' = [read EXCEPT !.items = e, !.step = "success", !.status = 0]
    BY <1>3, <1>4, <1>7 DEF ReadEntries
  <2>2. PICK r \in ReadRecord : r = [read EXCEPT !.items = e, !.step = "success", !.status = 0]
    BY <1>2, ZenonT(60) DEF ReadRecord, Steps
  <2>3. /\ r.op = "by_date" /\ r.step = "success" /\ r.date = d /\ r.items = e /\ r.execution = 0 /\ r.dates = {}
    BY <1>1, <1>2, <1>3, <1>7, <2>2 DEF ReadRecord
  <2>4. d # NoDate
    BY <1>2
  <2>5. SearchOf(r)
    BY <1>4, <1>5, <2>3, <2>4 DEF SearchOf, Dateless
  <2>6. OnItsWay(r) /\ RightAnswer(r)
    BY <2>3, <2>5 DEF OnItsWay, RightAnswer
  <2> QED
    BY <1>1, <2>1, <2>2, <2>6, ReadsOn
<1>8. CASE ~(read.op = "by_date" /\ ~e.full)
  <2>1. PICK c \in {200, 404} : c = IF read.op = "by_symbol" /\ ~e.full THEN 404 ELSE 200
    OBVIOUS
  <2>2. read' = [read EXCEPT !.items = e, !.step = "done", !.status = c]
    BY <1>3, <1>4, <1>8, <2>1 DEF ReadEntries
  <2>3. /\ read' \in ReadRecord /\ read'.op = read.op /\ read'.step = "done"
        /\ read'.status = c /\ read'.date = read.date
        /\ read'.execution = read.execution /\ read'.items = e
    BY <1>2, <2>2, ZenonT(60) DEF ReadRecord, Steps
  <2>4. PICK r \in ReadRecord :
          /\ r = read' /\ r.op = read.op /\ r.step = "done" /\ r.date = d /\ r.items = e
          /\ r.execution = read.execution /\ r.status = c
    BY <1>3, <2>3
  <2>5. read.op # "by_symbol" => c = 200
    BY <2>1
  <2>6. OnItsWay(r)
    BY <1>1, <2>4 DEF OnItsWay
  <2>7. Undisturbed /\ read.op = "latest" => VisibleDates # {} /\ e = entries[Max(VisibleDates)]
    BY <1>1, <1>3, <1>4
  <2>8. Undisturbed /\ read.op = "results" => Visible(d) /\ read.execution = e.by
    BY <1>1, <1>3, <1>5
  <2>9. RightAnswer(r)
    BY <1>1, <1>4, <1>5, <1>6, <2>4, <2>5, <2>7, <2>8 DEF RightAnswer
  <2> QED
    BY <1>1, <2>4, <2>6, <2>9, ReadsOn
<1> QED
  BY <1>7, <1>8

\* A request arrives: it knows nothing yet, and the tables are as they are.
LEMMA RequestKeeps ==
  ASSUME ReadersInv, NEW op \in Endpoints, NEW d \in Dates, Request(op, d)
  PROVE  ReadersInv'
<1>1. PICK s \in {"execution", "entries", "success"} : s = FirstStep(op)
  BY DEF FirstStep
<1>2. PICK e \in Dates \cup {NoDate} : e = IF op \in {"latest", "history"} THEN NoDate ELSE d
  OBVIOUS
<1>3. /\ read' = [Idle EXCEPT !.op = op, !.step = s, !.date = e] /\ before' = Snapshot
      /\ UNCHANGED <<succeeded, entries, anyExecution, published>>
  BY <1>1, <1>2 DEF Request
<1>4. /\ succeeded \in [Dates -> 0..MaxPublications] /\ entries \in [Dates -> Rows]
      /\ anyExecution \in BOOLEAN /\ NoDate \notin Dates /\ 0 \in 0..MaxPublications
  BY ReadersTyped, ResultsAssumption
<1>5. /\ read'.op = op /\ read'.step = s /\ read'.date = e /\ read'.execution = 0
      /\ read'.items = Nothing /\ read'.dates = {} /\ read'.status = 0
  BY <1>3 DEF Idle
<1>6. read' \in ReadRecord
  <2>1. Nothing \in Rows
    BY <1>4 DEF Nothing, Rows
  <2> QED
    BY <1>3, <1>4, <2>1, ZenonT(60) DEF Idle, ReadRecord, Steps
<1>7. ResultsTypeOK'
  BY <1>3, <1>6 DEF ReadersInv, ResultsTypeOK, ReadRecord, Rows
<1>8. /\ before'.succeeded = succeeded /\ before'.entries = entries /\ before'.any = anyExecution
      /\ before' \in Tables
  BY <1>3, <1>4 DEF Snapshot, Tables
<1>9. TablesGrow'
  <2>1. \A x \in Dates : succeeded[x] \in Nat
    BY BeforeFacts
  <2> QED
    BY <1>3, <1>8, <2>1 DEF ReadersInv, TablesGrow
<1>10. OnItsWay(read)'
  <2>1. CASE op = "results"
    <3>1. s = "execution" /\ e = d
      BY <1>1, <1>2, <2>1 DEF FirstStep
    <3> QED
      BY <1>5, <2>1, <3>1 DEF OnItsWay
  <2>2. CASE op \in {"by_date", "by_symbol"}
    <3>1. s = "entries" /\ e = d
      BY <1>1, <1>2, <2>2 DEF FirstStep
    <3>2. 0 <= succeeded[d]
      BY BeforeFacts
    <3> QED
      BY <1>3, <1>5, <2>2, <3>1, <3>2 DEF OnItsWay
  <2>3. CASE op \in {"latest", "history"}
    <3>1. s = "success" /\ e = NoDate
      BY <1>1, <1>2, <2>3 DEF FirstStep
    <3> QED
      BY <1>5, <2>3, <3>1 DEF OnItsWay, SearchOf, Dateless
  <2> QED
    BY <2>1, <2>2, <2>3 DEF Endpoints
<1>11. RightAnswer(read)'
  BY <1>1, <1>5 DEF RightAnswer
<1> QED
  BY <1>7, <1>9, <1>10, <1>11 DEF ReadersInv

\* The pipeline records its first execution.
LEMMA StartExecutionKeeps ==
  ASSUME ReadersInv, StartExecution
  PROVE  ReadersInv'
<1>1. /\ ~anyExecution /\ anyExecution' = TRUE
      /\ UNCHANGED <<succeeded, entries, published, read, before>>
  BY DEF StartExecution
<1>2. ResultsTypeOK' /\ TablesGrow'
  BY <1>1 DEF ReadersInv, ResultsTypeOK, TablesGrow
<1>3. ~Undisturbed'
  <2>1. ~before.any
    BY <1>1, BeforeFacts
  <2>2. Undisturbed' => before'.any = anyExecution'
    BY DEF Undisturbed, Snapshot
  <2> QED
    BY <1>1, <2>1, <2>2
<1>4. \A d \in Dates : succeeded[d] <= succeeded'[d]
  BY <1>1, BeforeFacts
<1> QED
  BY <1>1, <1>2, <1>3, <1>4, CommitsBetween

\* A publication commits: its execution is newer than all that a request saw.
LEMMA PublishKeeps ==
  ASSUME ReadersInv, NEW d \in Dates, NEW full \in BOOLEAN, PublishWatchlist(d, full)
  PROVE  ReadersInv'
<1>1. /\ anyExecution /\ published < MaxPublications /\ published' = published + 1
      /\ succeeded' = [succeeded EXCEPT ![d] = published + 1]
      /\ entries' = [entries EXCEPT ![d] = [by |-> published + 1, full |-> full]]
      /\ UNCHANGED <<anyExecution, read, before>>
  BY DEF PublishWatchlist
<1>2. /\ succeeded \in [Dates -> 0..MaxPublications] /\ entries \in [Dates -> Rows]
      /\ published \in 0..MaxPublications /\ before \in Tables /\ MaxPublications \in Nat
  BY ReadersTyped, ResultsAssumption
<1>3. PICK n \in 0..MaxPublications : n = published + 1 /\ n > published
  BY <1>1, <1>2
<1>4. PICK e \in Rows : e = [by |-> n, full |-> full] /\ e.by = n
  <2>1. [by |-> n, full |-> full] \in Rows
    BY <1>3 DEF Rows
  <2> QED
    BY <2>1
<1>5. /\ succeeded' \in [Dates -> 0..MaxPublications] /\ entries' \in [Dates -> Rows]
      /\ \A x \in Dates : /\ succeeded'[x] = IF x = d THEN n ELSE succeeded[x]
                          /\ entries'[x] = IF x = d THEN e ELSE entries[x]
  BY <1>1, <1>2, <1>3, <1>4
<1>6. ResultsTypeOK'
  BY <1>1, <1>3, <1>5 DEF ReadersInv, ResultsTypeOK, Rows
<1>7. \A x \in Dates : /\ entries[x].by = succeeded[x] /\ succeeded[x] <= published
                      /\ before.succeeded[x] <= succeeded[x]
                      /\ before.succeeded[x] \in Nat /\ succeeded[x] \in Nat
  BY BeforeFacts DEF ReadersInv, TablesGrow
<1>8. \A x \in Dates : /\ entries'[x].by = succeeded'[x] /\ succeeded'[x] <= published'
                      /\ succeeded[x] <= succeeded'[x] /\ before.succeeded[x] <= succeeded'[x]
  BY <1>1, <1>2, <1>3, <1>4, <1>5, <1>7
<1>9. TablesGrow'
  BY <1>1, <1>2, <1>8 DEF TablesGrow
<1>10. ~Undisturbed'
  <2>1. before.succeeded[d] # n /\ succeeded'[d] = n
    BY <1>2, <1>3, <1>5, <1>7
  <2>2. Undisturbed' => before'.succeeded = succeeded'
    BY DEF Undisturbed, Snapshot
  <2> QED
    BY <1>1, <2>1, <2>2
<1> QED
  BY <1>1, <1>6, <1>8, <1>9, <1>10, CommitsBetween

\* No step of the pipeline or of a request breaks the readers' invariant.
LEMMA ReadersInductive == ReadersInv /\ [ResultsNext]_resultsVars => ReadersInv'
<1> SUFFICES ASSUME ReadersInv, [ResultsNext]_resultsVars PROVE ReadersInv'
  OBVIOUS
<1>1. ASSUME StartExecution PROVE ReadersInv'
  BY <1>1, StartExecutionKeeps
<1>2. ASSUME NEW d \in Dates, NEW full \in BOOLEAN, PublishWatchlist(d, full) PROVE ReadersInv'
  BY <1>2, PublishKeeps
<1>3. ASSUME NEW op \in Endpoints, NEW d \in Dates, Request(op, d) PROVE ReadersInv'
  BY <1>3, RequestKeeps
<1>4. ASSUME ReadStep PROVE ReadersInv'
  BY <1>4, ReadExecutionKeeps, ReadSuccessKeeps, ReadAnyRowKeeps, ReadLegacyKeeps, ReadEntriesKeeps
     DEF ReadStep
<1>5. CASE UNCHANGED resultsVars
  BY <1>5 DEF resultsVars, ReadersInv, ResultsTypeOK, TablesGrow, OnItsWay, RightAnswer, SearchOf,
              Dateless, NoSuccessBefore, Undisturbed, Snapshot, VisibleDates, Visible
<1> QED
  BY <1>1, <1>2, <1>3, <1>4, <1>5 DEF ResultsNext

\* The tables and the readers start in the invariant.
LEMMA ReadersInitially == ResultsInit => ReadersInv
<1> SUFFICES ASSUME ResultsInit PROVE ReadersInv
  OBVIOUS
<1>1. /\ succeeded = [d \in Dates |-> 0] /\ anyExecution = FALSE /\ published = 0 /\ read = Idle
      /\ entries \in [Dates -> {Nothing, [by |-> 0, full |-> TRUE]}] /\ before = Snapshot
      /\ 0 \in 0..MaxPublications
  BY ResultsAssumption DEF ResultsInit
<1>2. Nothing \in Rows /\ [by |-> 0, full |-> TRUE] \in Rows
  BY <1>1 DEF Rows, Nothing
<1>3. succeeded \in [Dates -> 0..MaxPublications] /\ entries \in [Dates -> Rows]
      /\ \A d \in Dates : succeeded[d] = 0 /\ entries[d].by = 0
  <2>1. succeeded \in [Dates -> 0..MaxPublications] /\ \A d \in Dates : succeeded[d] = 0
    BY <1>1
  <2>2. entries \in [Dates -> Rows]
    BY <1>1, <1>2
  <2>3. ASSUME NEW d \in Dates PROVE entries[d].by = 0
    <3>1. entries[d] \in {Nothing, [by |-> 0, full |-> TRUE]}
      BY <1>1, <2>3
    <3> QED
      BY <3>1 DEF Nothing
  <2> QED
    BY <2>1, <2>2, <2>3
<1>4. Idle \in ReadRecord /\ Idle.op = "none" /\ Idle.step = "done"
  BY <1>1, <1>2 DEF Idle, ReadRecord, Steps
<1>5. ResultsTypeOK
  BY <1>1, <1>3, <1>4 DEF ResultsTypeOK, ReadRecord, Rows
<1>6. before \in Tables /\ before.succeeded = succeeded /\ before.any = anyExecution
  BY <1>1, <1>3 DEF Snapshot, Tables
<1>7. TablesGrow
  BY <1>1, <1>3, <1>6 DEF TablesGrow
<1>8. OnItsWay(read) /\ RightAnswer(read)
  BY <1>1, <1>4 DEF OnItsWay, RightAnswer
<1> QED
  BY <1>5, <1>7, <1>8 DEF ReadersInv

\* Every answer of the read side is consistent: exactly, when no commit falls
\* between its SELECTs, and otherwise never with less or older data than there
\* was when it arrived: for any number of dates and publications.
THEOREM ReadersSeeOneState ==
  ResultsInit /\ [][ResultsNext]_resultsVars => [](ResultsTypeOK /\ ReadersAreConsistent)
<1>1. ReadersInv => ResultsTypeOK /\ ReadersAreConsistent
  <2> SUFFICES ASSUME ReadersInv PROVE ReadersAreConsistent
    BY DEF ReadersInv
  <2>1. RightAnswer(read) /\ read.op \in Endpoints \cup {"none"}
    BY ReadersTyped DEF ReadersInv, ReadRecord
  <2>2. ItemsAreNotOlder
    BY <2>1 DEF ItemsAreNotOlder, RightAnswer, Answered
  <2>3. PublishedDateIsFound
    BY <2>1 DEF PublishedDateIsFound, RightAnswer, Answered
  <2>4. UndisturbedReadsAgree
    BY <2>1 DEF UndisturbedReadsAgree, RightAnswer, Answered, VisibleDates, Endpoints
  <2> QED
    BY <2>2, <2>3, <2>4 DEF ReadersAreConsistent
<1> QED
  BY <1>1, ReadersInitially, ReadersInductive, PTL

-----------------------------------------------------------------------------
(***************************************************************************)
(* Sign-in sessions: the shared cookie stays usable, and a login has one   *)
(* live session until its logout and none afterwards.                      *)
(*                                                                         *)
(* The argument follows a token through its life.  A token is presented    *)
(* only after its answer reached the browser, and once the answer to a     *)
(* request that presented it has arrived the cookie has moved on; so two   *)
(* requests can present the same token only while both are unsettled, and  *)
(* then the history variable `contested' has it.  Hence the row that a     *)
(* pending request is about to revoke is the live one of its family.       *)
(***************************************************************************)

\* What the fields of a request say of each other: nothing is decided before
\* the handler has run, a rejected request writes nothing, only a fault makes
\* a handled one fail, and a token is older than the request presenting it.
RequestsAreOrderly ==
  \A n \in DOMAIN requests :
    /\ requests[n].state = "sent" => requests[n].write = "pending" /\ ~requests[n].answered
    /\ requests[n].state = "rejected" => requests[n].write = "failed"
    /\ requests[n].state = "handled" /\ requests[n].write = "failed" => cutOff
    /\ requests[n].token < n
    /\ requests[n].op = "login" => requests[n].token = NoToken
    /\ requests[n].op = "refresh" /\ requests[n].state = "handled" => requests[n].token # NoToken

\* The table has exactly the rows of the committed logins and rotations, the
\* row that began a family among them; an accepted rotation presents a row.
RowsAreMinted ==
  /\ \A k \in Tokens : k \in DOMAIN sessions <=>
       /\ k \in DOMAIN requests
       /\ requests[k].op # "logout"
       /\ requests[k].write = "committed"
  /\ \A k \in DOMAIN sessions : sessions[k].family \in DOMAIN sessions
  /\ \A n \in DOMAIN requests :
       requests[n].op = "refresh" /\ requests[n].state = "handled"
       => requests[n].token \in DOMAIN sessions

\* A token whose answer reached the browser.
Received(k) ==
  /\ k \in DOMAIN requests
  /\ requests[k].op # "logout"
  /\ requests[k].state = "handled"
  /\ requests[k].answered

\* The browser holds and presents only tokens it has received.
TokensAreReceived ==
  /\ jar # NoToken => Received(jar)
  /\ \A n \in DOMAIN requests : requests[n].token # NoToken => Received(requests[n].token)

\* When the answer to a request has arrived, the cookie is no longer the one
\* that the request presented, unless the request was rejected.
CookieMovesOn ==
  ~cutOff /\ jar # NoToken =>
    \A n \in DOMAIN requests :
      requests[n].token = jar /\ requests[n].answered => requests[n].state = "rejected"

\* A revoked row was presented by a committed request, and an expired one has
\* left the cookie for good.
RowsEndForAReason ==
  \A k \in DOMAIN sessions :
    /\ sessions[k].revoked =>
         \E n \in DOMAIN requests : requests[n].token = k /\ requests[n].write = "committed"
    /\ sessions[k].expired => jar # k /\ requests[k].answered

\* A token presented twice at once is contested, and so is one presented
\* before its own commit.
SharedTokensAreContested ==
  \A n \in DOMAIN requests : requests[n].token # NoToken =>
    /\ \A m \in DOMAIN requests :
         m # n /\ requests[m].token = requests[n].token
         /\ ~Settled(requests[m]) /\ ~Settled(requests[n])
         => requests[n].token \in contested
    /\ requests[requests[n].token].write = "pending" => requests[n].token \in contested

\* A request that has still to write presents a usable token.
PendingTokenIsUsable ==
  \A n \in DOMAIN requests :
    /\ requests[n].write = "pending"
    /\ requests[n].token # NoToken
    /\ requests[n].token \notin contested
    /\ ~cutOff \/ (requests[n].op = "refresh" /\ requests[n].state = "handled")
    => Usable(requests[n].token)

\* A family that no two requests contested.
Quiet(f) == FamilyOf(f) \cap contested = {}

LiveIsUnique ==
  \A f \in Tokens : Quiet(f) => \A a, b \in Live(f) : a = b

RequestInv == AuthTypeOK /\ RequestsAreOrderly /\ RowsAreMinted /\ TokensAreReceived

TokenInv == CookieMovesOn /\ RowsEndForAReason /\ SharedTokensAreContested /\ PendingTokenIsUsable

FamilyInv == LiveIsUnique /\ LogoutIsFinal

-----------------------------------------------------------------------------
(***************************************************************************)
(* The kinds of steps, as the invariants see them: what happens to the     *)
(* table, the cookie, the requests and the two history variables.          *)
(***************************************************************************)

\* Request n goes to state s, its transaction to w, and its answer to a.
Edited(n, s, w, a) ==
  /\ requests' \in Seq(AuthRequest)
  /\ Len(requests') = Len(requests)
  /\ DOMAIN requests' = DOMAIN requests
  /\ \A m \in DOMAIN requests : m # n => requests'[m] = requests[m]
  /\ \A m \in DOMAIN requests :
       requests'[m].op = requests[m].op /\ requests'[m].token = requests[m].token
  /\ requests'[n].state = s
  /\ requests'[n].write = w
  /\ requests'[n].answered = a

\* A request is sent with the cookie of that moment, or without one.
Asked(n) ==
  /\ n = Len(requests) + 1
  /\ n \in Tokens
  /\ requests' \in Seq(AuthRequest)
  /\ Len(requests') = n
  /\ DOMAIN requests' = DOMAIN requests \cup {n}
  /\ n \notin DOMAIN requests
  /\ \A m \in DOMAIN requests : requests'[m] = requests[m]
  /\ requests'[n].token \in {NoToken, jar}
  /\ requests'[n].op = "login" => requests'[n].token = NoToken
  /\ requests'[n].state = "sent"
  /\ requests'[n].write = "pending"
  /\ requests'[n].answered = FALSE
  /\ contested \subseteq contested' /\ contested' \subseteq Tokens
  /\ requests'[n].token # NoToken =>
       \A m \in DOMAIN requests :
         ~Settled(requests[m]) /\ jar \in {requests[m].token, m} => jar \in contested'
  /\ UNCHANGED <<sessions, jar, cutOff>>

\* A handler accepts or rejects the request.
Handled(n) ==
  /\ requests[n].state = "sent"
  /\ \/ /\ Edited(n, "handled", requests[n].write, requests[n].answered)
        /\ requests[n].op = "refresh" => requests[n].token # NoToken /\ Usable(requests[n].token)
     \/ Edited(n, "rejected", "failed", requests[n].answered)
  /\ UNCHANGED <<sessions, jar, contested, cutOff>>

\* A transaction commits: the presented row is revoked, a new one is there.
Wrote(n) ==
  /\ requests[n].state = "handled"
  /\ requests[n].write = "pending"
  /\ Edited(n, "handled", "committed", requests[n].answered)
  /\ DOMAIN sessions' = DOMAIN sessions \cup IF requests[n].op = "logout" THEN {} ELSE {n}
  /\ \A k \in DOMAIN sessions :
       /\ sessions'[k].family = sessions[k].family
       /\ sessions'[k].expired = sessions[k].expired
       /\ sessions'[k].revoked <=> sessions[k].revoked \/ k = requests[n].token
  /\ requests[n].op # "logout" =>
       /\ sessions'[n].family =
            IF requests[n].op = "login" THEN n ELSE sessions[requests[n].token].family
       /\ ~sessions'[n].revoked
       /\ ~sessions'[n].expired
  /\ UNCHANGED <<jar, contested, cutOff>>

\* A transaction fails.
WriteFailed(n) ==
  /\ requests[n].state = "handled"
  /\ requests[n].write = "pending"
  /\ Edited(n, "handled", "failed", requests[n].answered)
  /\ cutOff'
  /\ UNCHANGED <<sessions, jar, contested>>

\* An answer arrives and sets the cookie, or it is an error.
Arrived(n) ==
  /\ ~requests[n].answered
  /\ requests[n].state # "sent"
  /\ Edited(n, requests[n].state, requests[n].write, TRUE)
  /\ \/ requests[n].state = "handled" /\ jar' = IF requests[n].op = "logout" THEN NoToken ELSE n
     \/ (requests[n].state = "rejected" \/ requests[n].write = "failed") /\ jar' = jar
  /\ UNCHANGED <<sessions, contested, cutOff>>

\* An answer is lost.
Lost(n) ==
  /\ ~requests[n].answered
  /\ requests[n].state # "sent"
  /\ Edited(n, requests[n].state, requests[n].write, TRUE)
  /\ cutOff'
  /\ UNCHANGED <<sessions, jar, contested>>

\* A session and its cookie expire.
Expired(k) ==
  /\ k \in DOMAIN sessions
  /\ \A n \in DOMAIN requests : Settled(requests[n])
  /\ DOMAIN sessions' = DOMAIN sessions
  /\ \A i \in DOMAIN sessions :
       /\ sessions'[i].family = sessions[i].family
       /\ sessions'[i].revoked = sessions[i].revoked
       /\ sessions'[i].expired <=> sessions[i].expired \/ i = k
  /\ jar' = IF jar = k THEN NoToken ELSE jar
  /\ UNCHANGED <<requests, contested, cutOff>>

Same == UNCHANGED <<sessions, jar, requests, contested, cutOff>>

\* The requests form a finite sequence of records.
LEMMA RequestFields ==
  ASSUME AuthTypeOK
  PROVE  /\ DOMAIN requests = 1..Len(requests)
         /\ DOMAIN requests \subseteq Tokens
         /\ \A n \in DOMAIN requests : requests[n] \in AuthRequest
  BY AuthAssumption DEF AuthTypeOK, Tokens

\* Replacing a request by one with the same operation and token.
LEMMA EditRequest ==
  ASSUME AuthTypeOK, NEW n \in DOMAIN requests, NEW r \in AuthRequest,
         r.op = requests[n].op, r.token = requests[n].token,
         requests' = [requests EXCEPT ![n] = r]
  PROVE  Edited(n, r.state, r.write, r.answered)
  <1>1. requests \in Seq(AuthRequest)
    BY DEF AuthTypeOK
  <1>2. /\ requests' \in Seq(AuthRequest) /\ Len(requests') = Len(requests)
        /\ DOMAIN requests' = DOMAIN requests
    BY <1>1
  <1>3. requests'[n] = r /\ \A m \in DOMAIN requests : m # n => requests'[m] = requests[m]
    BY <1>1
  <1>4. \A m \in DOMAIN requests :
          requests'[m].op = requests[m].op /\ requests'[m].token = requests[m].token
    BY <1>3
  <1> QED
    BY <1>2, <1>3, <1>4 DEF Edited

\* Changing the state of a request.
LEMMA EditState ==
  ASSUME AuthTypeOK, NEW n \in DOMAIN requests,
         NEW s \in {"sent", "handled", "rejected"},
         requests' = [requests EXCEPT ![n].state = s]
  PROVE  Edited(n, s, requests[n].write, requests[n].answered)
  <1>1. requests[n] \in AuthRequest
    BY RequestFields
  <1> DEFINE r == [requests[n] EXCEPT !.state = s]
  <1>2. r \in AuthRequest
    BY <1>1 DEF AuthRequest
  <1>3. requests' = [requests EXCEPT ![n] = r]
    OBVIOUS
  <1>4. /\ r.op = requests[n].op /\ r.token = requests[n].token /\ r.state = s
        /\ r.write = requests[n].write /\ r.answered = requests[n].answered
    BY <1>1 DEF AuthRequest
  <1> HIDE DEF r
  <1> QED
    BY <1>2, <1>3, <1>4, EditRequest

\* Changing the transaction of a request.
LEMMA EditWrite ==
  ASSUME AuthTypeOK, NEW n \in DOMAIN requests,
         NEW w \in {"pending", "committed", "failed"},
         requests' = [requests EXCEPT ![n].write = w]
  PROVE  Edited(n, requests[n].state, w, requests[n].answered)
  <1>1. requests[n] \in AuthRequest
    BY RequestFields
  <1> DEFINE r == [requests[n] EXCEPT !.write = w]
  <1>2. r \in AuthRequest
    BY <1>1 DEF AuthRequest
  <1>3. requests' = [requests EXCEPT ![n] = r]
    OBVIOUS
  <1>4. /\ r.op = requests[n].op /\ r.token = requests[n].token /\ r.write = w
        /\ r.state = requests[n].state /\ r.answered = requests[n].answered
    BY <1>1 DEF AuthRequest
  <1> HIDE DEF r
  <1> QED
    BY <1>2, <1>3, <1>4, EditRequest

\* Marking a request as answered.
LEMMA EditAnswer ==
  ASSUME AuthTypeOK, NEW n \in DOMAIN requests,
         requests' = [requests EXCEPT ![n].answered = TRUE]
  PROVE  Edited(n, requests[n].state, requests[n].write, TRUE)
  <1>1. requests[n] \in AuthRequest
    BY RequestFields
  <1> DEFINE r == [requests[n] EXCEPT !.answered = TRUE]
  <1>2. r \in AuthRequest
    BY <1>1 DEF AuthRequest
  <1>3. requests' = [requests EXCEPT ![n] = r]
    OBVIOUS
  <1>4. /\ r.op = requests[n].op /\ r.token = requests[n].token /\ r.answered = TRUE
        /\ r.state = requests[n].state /\ r.write = requests[n].write
    BY <1>1 DEF AuthRequest
  <1> HIDE DEF r
  <1> QED
    BY <1>2, <1>3, <1>4, EditRequest

\* Rejecting a request.
LEMMA EditReject ==
  ASSUME AuthTypeOK, NEW n \in DOMAIN requests,
         requests' = [requests EXCEPT ![n].state = "rejected", ![n].write = "failed"]
  PROVE  Edited(n, "rejected", "failed", requests[n].answered)
  <1>1. requests[n] \in AuthRequest
    BY RequestFields
  <1> DEFINE r == [requests[n] EXCEPT !.state = "rejected", !.write = "failed"]
  <1>2. r \in AuthRequest
    BY <1>1 DEF AuthRequest
  <1>3. requests' = [requests EXCEPT ![n] = r]
    OBVIOUS
  <1>4. /\ r.op = requests[n].op /\ r.token = requests[n].token /\ r.write = "failed"
        /\ r.state = "rejected" /\ r.answered = requests[n].answered
    BY <1>1 DEF AuthRequest
  <1> HIDE DEF r
  <1>5. Edited(n, r.state, r.write, r.answered)
    BY <1>2, <1>3, <1>4, EditRequest
  <1> QED
    BY <1>4, <1>5

\* Sending a request.
LEMMA SendAsks ==
  ASSUME AuthTypeOK, NEW t \in Tabs, NEW op \in {"login", "refresh", "logout"}, Send(t, op)
  PROVE  Asked(Len(requests) + 1)
  <1> DEFINE r == [tab |-> t, op |-> op, token |-> IF op = "login" THEN NoToken ELSE jar,
                   state |-> "sent", write |-> "pending", answered |-> FALSE]
             n == Len(requests) + 1
  <1>1. r \in AuthRequest
    BY DEF AuthTypeOK, AuthRequest
  <1>2. requests' = Append(requests, r)
    BY DEF Send
  <1>3. /\ r.op = op /\ r.token = IF op = "login" THEN NoToken ELSE jar
        /\ r.state = "sent" /\ r.write = "pending" /\ r.answered = FALSE
    OBVIOUS
  <1>4. contested \subseteq contested' /\ contested' \subseteq Tokens
    <2>1. DOMAIN requests \subseteq Tokens /\ \A m \in DOMAIN requests : requests[m].token \in Tokens \cup {NoToken}
      BY RequestFields DEF AuthRequest
    <2>2. \A m \in DOMAIN requests : Touches(m) \subseteq Tokens
      BY <2>1 DEF Touches, Tokens, NoToken
    <2>3. Unsettled \subseteq DOMAIN requests
      BY RequestFields DEF Unsettled
    <2>4. UNION {Touches(m) : m \in Unsettled} \subseteq Tokens
      BY <2>2, <2>3
    <2> QED
      BY <2>4 DEF AuthTypeOK, Send
  <1>5. op # "login" /\ jar # NoToken =>
          \A m \in DOMAIN requests :
            ~Settled(requests[m]) /\ jar \in {requests[m].token, m} => jar \in contested'
    <2> SUFFICES ASSUME op # "login", jar # NoToken, NEW m \in DOMAIN requests,
                        ~Settled(requests[m]), jar \in {requests[m].token, m}
                 PROVE  jar \in contested'
      OBVIOUS
    <2>1. m \in Unsettled
      BY RequestFields DEF Unsettled
    <2>2. jar \in Touches(m)
      BY DEF Touches
    <2> QED
      BY <2>1, <2>2 DEF Send
  <1>6. UNCHANGED <<sessions, jar, cutOff>> /\ Len(requests) < MaxRequests
    BY DEF Send
  <1> HIDE DEF r
  <1>7. /\ Len(requests') = n /\ DOMAIN requests' = DOMAIN requests \cup {n}
        /\ n \notin DOMAIN requests /\ requests' \in Seq(AuthRequest)
        /\ \A m \in DOMAIN requests : requests'[m] = requests[m]
        /\ requests'[n] = r
    BY <1>1, <1>2, RequestFields DEF AuthTypeOK
  <1>8. n \in Tokens
    BY <1>6, AuthAssumption DEF Tokens, AuthTypeOK
  <1> QED
    BY <1>3, <1>4, <1>5, <1>6, <1>7, <1>8 DEF Asked

\* Every step of the component is of one of these kinds.
LEMMA KindsOfSteps ==
  ASSUME RequestInv, [AuthNext]_authVars
  PROVE  \/ \E n \in Tokens : Asked(n)
         \/ \E n \in DOMAIN requests :
              Handled(n) \/ Wrote(n) \/ WriteFailed(n) \/ Arrived(n) \/ Lost(n)
         \/ \E k \in DOMAIN sessions : Expired(k)
         \/ Same
<1> USE DEF RequestInv
<1>1. ASSUME NEW t \in Tabs, MountGuard(t) \/ SubmitLogin(t) \/ SubmitLogout(t)
      PROVE  \E n \in Tokens : Asked(n)
  <2>1. \E op \in {"login", "refresh", "logout"} : Send(t, op)
    BY <1>1 DEF MountGuard, SubmitLogin, SubmitLogout
  <2>2. Asked(Len(requests) + 1)
    BY <2>1, SendAsks
  <2> QED
    BY <2>2 DEF Asked
<1>2. ASSUME NEW n \in DOMAIN requests, HandleRefresh(n)
      PROVE  Handled(n)
  <2>1. CASE requests[n].token # NoToken /\ Usable(requests[n].token) /\ userActive
    <3>1. requests' = [requests EXCEPT ![n].state = "handled"]
      BY <1>2, <2>1 DEF HandleRefresh
    <3> QED
      BY <1>2, <2>1, <3>1, EditState DEF HandleRefresh, Handled
  <2>2. CASE ~(requests[n].token # NoToken /\ Usable(requests[n].token) /\ userActive)
    <3>1. requests' = [requests EXCEPT ![n].state = "rejected", ![n].write = "failed"]
      BY <1>2, <2>2 DEF HandleRefresh
    <3> QED
      BY <1>2, <2>2, <3>1, EditReject DEF HandleRefresh, Handled
  <2> QED
    BY <2>1, <2>2
<1>3. ASSUME NEW n \in DOMAIN requests, NEW passwordOk \in BOOLEAN, HandleLogin(n, passwordOk)
      PROVE  Handled(n)
  <2>1. \/ requests' = [requests EXCEPT ![n].state = "handled"]
        \/ requests' = [requests EXCEPT ![n].state = "rejected", ![n].write = "failed"]
    BY <1>3 DEF HandleLogin
  <2> QED
    BY <1>3, <2>1, EditState, EditReject DEF HandleLogin, Handled
<1>4. ASSUME NEW n \in DOMAIN requests, HandleLogout(n)
      PROVE  Handled(n)
  BY <1>4, EditState DEF HandleLogout, Handled
<1>5. ASSUME NEW n \in DOMAIN requests, CommitRequest(n)
      PROVE  Wrote(n)
  <2> DEFINE k == requests[n].token
             op == requests[n].op
  <2>1. /\ requests[n].state = "handled" /\ requests[n].write = "pending"
        /\ sessions' = RowsAfter(n) /\ UNCHANGED <<jar, contested, cutOff>>
        /\ requests' = [requests EXCEPT ![n].write = "committed"]
    BY <1>5 DEF CommitRequest
  <2>2. Edited(n, "handled", "committed", requests[n].answered)
    BY <2>1, EditWrite
  <2>3. n \notin DOMAIN sessions /\ n \in Tokens
    BY <2>1, RequestFields DEF RowsAreMinted
  <2>4. op \in {"login", "refresh", "logout"}
    BY RequestFields DEF AuthRequest
  <2>5. \A i \in DOMAIN sessions : sessions[i] \in SessionRow
    BY DEF AuthTypeOK
  <2>6. CASE op = "login"
    <3>1. sessions' = Add(sessions, n, n)
      BY <2>1, <2>6 DEF RowsAfter
    <3>2. k \notin DOMAIN sessions
      BY <2>6 DEF RequestsAreOrderly, AuthTypeOK, Tokens, NoToken
    <3>3. /\ DOMAIN sessions' = DOMAIN sessions \cup {n}
          /\ \A i \in DOMAIN sessions : sessions'[i] = sessions[i]
          /\ sessions'[n] = [family |-> n, revoked |-> FALSE, expired |-> FALSE]
      BY <2>3, <3>1 DEF Add
    <3>4. sessions'[n].family = n /\ ~sessions'[n].revoked /\ ~sessions'[n].expired
      BY <3>3
    <3>5. \A i \in DOMAIN sessions :
            /\ sessions'[i].family = sessions[i].family
            /\ sessions'[i].expired = sessions[i].expired
            /\ sessions'[i].revoked <=> sessions[i].revoked \/ i = k
      BY <3>2, <3>3
    <3> QED
      BY <2>1, <2>2, <2>6, <3>3, <3>4, <3>5 DEF Wrote
  <2>7. CASE op = "refresh"
    <3>1. k \in DOMAIN sessions
      BY <2>1, <2>7 DEF RowsAreMinted
    <3> DEFINE rows == Revoke(sessions, k)
    <3>2. sessions' = Add(rows, n, sessions[k].family)
      BY <2>1, <2>7 DEF RowsAfter
    <3>3. /\ DOMAIN rows = DOMAIN sessions
          /\ \A i \in DOMAIN sessions :
               /\ rows[i].family = sessions[i].family
               /\ rows[i].expired = sessions[i].expired
               /\ rows[i].revoked <=> sessions[i].revoked \/ i = k
      BY <2>5, <3>1 DEF Revoke, SessionRow
    <3> HIDE DEF rows
    <3>4. /\ DOMAIN sessions' = DOMAIN sessions \cup {n}
          /\ \A i \in DOMAIN sessions : sessions'[i] = rows[i]
          /\ sessions'[n] = [family |-> sessions[k].family, revoked |-> FALSE, expired |-> FALSE]
      BY <2>3, <3>2, <3>3 DEF Add
    <3>5. /\ sessions'[n].family = sessions[k].family
          /\ ~sessions'[n].revoked /\ ~sessions'[n].expired
      BY <3>4
    <3>6. \A i \in DOMAIN sessions :
            /\ sessions'[i].family = sessions[i].family
            /\ sessions'[i].expired = sessions[i].expired
            /\ sessions'[i].revoked <=> sessions[i].revoked \/ i = k
      BY <3>3, <3>4
    <3> QED
      BY <2>1, <2>2, <2>7, <3>4, <3>5, <3>6 DEF Wrote
  <2>8. CASE op = "logout"
    <3>1. sessions' = Revoke(sessions, k)
      BY <2>1, <2>8 DEF RowsAfter
    <3>2. /\ DOMAIN sessions' = DOMAIN sessions
          /\ \A i \in DOMAIN sessions :
               /\ sessions'[i].family = sessions[i].family
               /\ sessions'[i].expired = sessions[i].expired
               /\ sessions'[i].revoked <=> sessions[i].revoked \/ i = k
      BY <2>5, <3>1 DEF Revoke, SessionRow
    <3> QED
      BY <2>1, <2>2, <2>3, <2>8, <3>2 DEF Wrote
  <2> QED
    BY <2>4, <2>6, <2>7, <2>8
<1>6. ASSUME NEW n \in DOMAIN requests, CommitFails(n)
      PROVE  WriteFailed(n)
  BY <1>6, EditWrite DEF CommitFails, WriteFailed
<1>7. ASSUME NEW n \in DOMAIN requests, Deliver(n)
      PROVE  Arrived(n)
  <2>1. requests' = [requests EXCEPT ![n].answered = TRUE]
    BY <1>7 DEF Deliver
  <2>2. Edited(n, requests[n].state, requests[n].write, TRUE)
    BY <2>1, EditAnswer
  <2>3. requests[n].state # "sent"
    BY <1>7 DEF Deliver, Sendable, RequestsAreOrderly
  <2> QED
    BY <1>7, <2>2, <2>3 DEF Deliver, Sendable, Arrived
<1>8. ASSUME NEW n \in DOMAIN requests, LoseResponse(n)
      PROVE  Lost(n)
  BY <1>8, EditAnswer DEF LoseResponse, Lost
<1>9. ASSUME NEW k \in Tokens, ExpireSession(k)
      PROVE  k \in DOMAIN sessions /\ Expired(k)
  <2>1. \A i \in DOMAIN sessions : sessions[i] \in SessionRow
    BY DEF AuthTypeOK
  <2>2. k \in DOMAIN sessions /\ sessions' = [sessions EXCEPT ![k].expired = TRUE]
    BY <1>9 DEF ExpireSession
  <2>3. \A n \in DOMAIN requests : Settled(requests[n])
    BY <1>9, RequestFields DEF ExpireSession, Unsettled
  <2>4. \A i \in DOMAIN sessions :
       /\ sessions'[i].family = sessions[i].family
       /\ sessions'[i].revoked = sessions[i].revoked
       /\ sessions'[i].expired <=> sessions[i].expired \/ i = k
    BY <2>1, <2>2 DEF SessionRow
  <2> QED
    BY <1>9, <2>2, <2>3, <2>4 DEF ExpireSession, Expired
<1>10. ASSUME NEW t \in Tabs, AnswerMe(t)
       PROVE  Same
  BY <1>10 DEF AnswerMe, Same
<1>11. ASSUME DeactivateUser
       PROVE  Same
  BY <1>11 DEF DeactivateUser, Same
<1>12. CASE UNCHANGED authVars
  BY <1>12 DEF authVars, Same
<1> QED
  BY <1>1, <1>2, <1>3, <1>4, <1>5, <1>6, <1>7, <1>8, <1>9, <1>10, <1>11, <1>12
     DEF AuthNext, RequestStep

\* The type invariant is preserved.
LEMMA TypeStep ==
  ASSUME RequestInv, [AuthNext]_authVars
  PROVE  AuthTypeOK'
<1> USE DEF RequestInv
<1>1. requests' \in Seq(AuthRequest) /\ Len(requests') <= MaxRequests
  <2>1. \A n \in Tokens : Asked(n) => requests' \in Seq(AuthRequest) /\ Len(requests') <= MaxRequests
    BY AuthAssumption DEF Asked, Tokens
  <2>2. (requests' \in Seq(AuthRequest) /\ Len(requests') = Len(requests)) \/ \E n \in Tokens : Asked(n)
    BY KindsOfSteps
     DEF Handled, Wrote, WriteFailed, Arrived, Lost, Expired, Same, Edited, AuthTypeOK
  <2> QED
    BY <2>1, <2>2 DEF AuthTypeOK
<1>2. contested' \subseteq Tokens
  BY KindsOfSteps
     DEF Asked, Handled, Wrote, WriteFailed, Arrived, Lost, Expired, Same, AuthTypeOK
<1>3. jar' \in Tokens \cup {NoToken}
  BY KindsOfSteps, RequestFields
     DEF Asked, Handled, Wrote, WriteFailed, Arrived, Lost, Expired, Same, AuthTypeOK
<1>4. page' \in [Tabs -> Pages]
  BY RequestFields DEF AuthTypeOK, AuthNext, RequestStep, MountGuard, SubmitLogin, SubmitLogout, Send,
     AnswerMe, HandleRefresh, HandleLogin, HandleLogout, CommitRequest, CommitFails, Deliver,
     LoseResponse, ExpireSession, DeactivateUser, Pages, authVars
<1>5. userActive' \in BOOLEAN
  <2>1. userActive' = userActive \/ userActive' = FALSE
    BY DEF AuthNext, RequestStep, MountGuard, SubmitLogin, SubmitLogout, Send,
     AnswerMe, HandleRefresh, HandleLogin, HandleLogout, CommitRequest, CommitFails, Deliver,
     LoseResponse, ExpireSession, DeactivateUser, authVars
  <2> QED
    BY <2>1, Zenon DEF AuthTypeOK
<1>6. responseFirst' \in BOOLEAN
  <2>1. responseFirst' = responseFirst
    BY DEF AuthNext, RequestStep, MountGuard, SubmitLogin, SubmitLogout, Send,
     AnswerMe, HandleRefresh, HandleLogin, HandleLogout, CommitRequest, CommitFails, Deliver,
     LoseResponse, ExpireSession, DeactivateUser, authVars
  <2> QED
    BY <2>1, Zenon DEF AuthTypeOK
<1>7. cutOff' \in BOOLEAN
  <2>1. cutOff' = cutOff \/ cutOff' = TRUE
    BY DEF AuthNext, RequestStep, MountGuard, SubmitLogin, SubmitLogout, Send,
     AnswerMe, HandleRefresh, HandleLogin, HandleLogout, CommitRequest, CommitFails, Deliver,
     LoseResponse, ExpireSession, DeactivateUser, authVars
  <2> QED
    BY <2>1, Zenon DEF AuthTypeOK
<1>8. /\ DOMAIN sessions' \subseteq Tokens
      /\ \A k \in DOMAIN sessions' : sessions'[k] \in SessionRow
  <2>1. ASSUME NEW n \in DOMAIN requests, CommitRequest(n)
        PROVE  /\ DOMAIN sessions' \subseteq Tokens
               /\ \A k \in DOMAIN sessions' : sessions'[k] \in SessionRow
    <3>1. n \in Tokens /\ requests[n].op \in {"login", "refresh", "logout"}
      BY RequestFields DEF AuthRequest
    <3>2. \A rows, k, f : /\ DOMAIN rows \subseteq Tokens
                          /\ \A i \in DOMAIN rows : rows[i] \in SessionRow
                          /\ k \in Tokens /\ f \in Tokens
                          => /\ DOMAIN Add(rows, k, f) \subseteq Tokens
                             /\ \A i \in DOMAIN Add(rows, k, f) : Add(rows, k, f)[i] \in SessionRow
      BY DEF Add, SessionRow
    <3>3. \A k : LET rows == Revoke(sessions, k)
                 IN /\ DOMAIN rows \subseteq Tokens
                    /\ \A i \in DOMAIN rows : rows[i] \in SessionRow
      BY DEF Revoke, SessionRow, AuthTypeOK
    <3>4. requests[n].op = "refresh" => sessions[requests[n].token].family \in Tokens
      <4>1. requests[n].op = "refresh" => requests[n].token \in DOMAIN sessions
        BY <2>1 DEF CommitRequest, RowsAreMinted
      <4> QED
        BY <4>1 DEF AuthTypeOK, SessionRow
    <3>5. \/ requests[n].op = "login" /\ sessions' = Add(sessions, n, n)
          \/ /\ requests[n].op = "refresh"
             /\ sessions' = Add(Revoke(sessions, requests[n].token), n, sessions[requests[n].token].family)
          \/ requests[n].op = "logout" /\ sessions' = Revoke(sessions, requests[n].token)
      BY <2>1, <3>1 DEF CommitRequest, RowsAfter
    <3> QED
      BY <3>1, <3>2, <3>3, <3>4, <3>5 DEF AuthTypeOK
  <2>2. ASSUME NEW k \in Tokens, ExpireSession(k)
        PROVE  /\ DOMAIN sessions' \subseteq Tokens
               /\ \A i \in DOMAIN sessions' : sessions'[i] \in SessionRow
    BY <2>2 DEF ExpireSession, AuthTypeOK, SessionRow
  <2>3. \/ sessions' = sessions
        \/ \E n \in DOMAIN requests : CommitRequest(n)
        \/ \E k \in Tokens : ExpireSession(k)
    BY DEF AuthNext, RequestStep, MountGuard, SubmitLogin, SubmitLogout, Send,
     AnswerMe, HandleRefresh, HandleLogin, HandleLogout, CommitFails, Deliver,
     LoseResponse, DeactivateUser, authVars
  <2> QED
    BY <2>1, <2>2, <2>3 DEF AuthTypeOK
<1> QED
  BY <1>1, <1>2, <1>3, <1>4, <1>5, <1>6, <1>7, <1>8, Zenon DEF AuthTypeOK

\* No step breaks the bookkeeping of requests, rows and received tokens.
LEMMA RequestInductive ==
  RequestInv /\ [AuthNext]_authVars => RequestInv'
<1> SUFFICES ASSUME RequestInv, [AuthNext]_authVars PROVE RequestInv'
  OBVIOUS
<1> USE DEF RequestInv
<1>1. AuthTypeOK'
  BY TypeStep
<1>2. ASSUME NEW n \in Tokens, Asked(n)
      PROVE  RequestsAreOrderly' /\ RowsAreMinted' /\ TokensAreReceived'
  <2>1. RequestsAreOrderly'
    BY <1>2, RequestFields DEF Asked, RequestsAreOrderly, TokensAreReceived, Received, NoToken, Tokens
  <2>2. RowsAreMinted'
    BY <1>2, RequestFields DEF Asked, RowsAreMinted
  <2>3. TokensAreReceived'
    BY <1>2 DEF Asked, TokensAreReceived, Received
  <2> QED
    BY <2>1, <2>2, <2>3
<1>3. ASSUME NEW n \in DOMAIN requests, Handled(n)
      PROVE  RequestsAreOrderly' /\ RowsAreMinted' /\ TokensAreReceived'
  <2>1. RequestsAreOrderly'
    BY <1>3 DEF Handled, Edited, RequestsAreOrderly
  <2>2. RowsAreMinted'
    BY <1>3, RequestFields, SMTT(60) DEF Handled, Edited, RowsAreMinted, RequestsAreOrderly, Usable
  <2>3. TokensAreReceived'
    BY <1>3 DEF Handled, Edited, TokensAreReceived, Received
  <2> QED
    BY <2>1, <2>2, <2>3
<1>4. ASSUME NEW n \in DOMAIN requests, Wrote(n)
      PROVE  RequestsAreOrderly' /\ RowsAreMinted' /\ TokensAreReceived'
  <2>1. RequestsAreOrderly'
    BY <1>4 DEF Wrote, Edited, RequestsAreOrderly
  <2>2. RowsAreMinted'
    <3>1. n \notin DOMAIN sessions /\ n \in Tokens
      BY <1>4, RequestFields DEF Wrote, RowsAreMinted
    <3>2. \A k \in Tokens : k \in DOMAIN sessions' <=>
             /\ k \in DOMAIN requests'
             /\ requests'[k].op # "logout"
             /\ requests'[k].write = "committed"
      BY <1>4, <3>1 DEF Wrote, Edited, RowsAreMinted
    <3>3. \A k \in DOMAIN sessions' : sessions'[k].family \in DOMAIN sessions'
      <4>1. requests[n].op = "refresh" => requests[n].token \in DOMAIN sessions
        BY <1>4 DEF Wrote, RowsAreMinted
      <4>2. requests[n].op \in {"login", "refresh", "logout"}
        BY RequestFields DEF AuthRequest
      <4> QED
        BY <1>4, <3>1, <4>1, <4>2 DEF Wrote, RowsAreMinted
    <3>4. \A m \in DOMAIN requests' :
            requests'[m].op = "refresh" /\ requests'[m].state = "handled"
            => requests'[m].token \in DOMAIN sessions'
      BY <1>4 DEF Wrote, Edited, RowsAreMinted
    <3> QED
      BY <3>2, <3>3, <3>4 DEF RowsAreMinted
  <2>3. TokensAreReceived'
    BY <1>4 DEF Wrote, Edited, TokensAreReceived, Received
  <2> QED
    BY <2>1, <2>2, <2>3
<1>5. ASSUME NEW n \in DOMAIN requests, WriteFailed(n)
      PROVE  RequestsAreOrderly' /\ RowsAreMinted' /\ TokensAreReceived'
  <2>1. RequestsAreOrderly'
    BY <1>5 DEF WriteFailed, Edited, RequestsAreOrderly
  <2>2. RowsAreMinted'
    BY <1>5 DEF WriteFailed, Edited, RowsAreMinted
  <2>3. TokensAreReceived'
    BY <1>5 DEF WriteFailed, Edited, TokensAreReceived, Received
  <2> QED
    BY <2>1, <2>2, <2>3
<1>6. ASSUME NEW n \in DOMAIN requests, Arrived(n)
      PROVE  RequestsAreOrderly' /\ RowsAreMinted' /\ TokensAreReceived'
  <2>1. RequestsAreOrderly'
    BY <1>6 DEF Arrived, Edited, RequestsAreOrderly
  <2>2. RowsAreMinted'
    BY <1>6 DEF Arrived, Edited, RowsAreMinted
  <2>3. TokensAreReceived'
    BY <1>6, SMTT(60) DEF Arrived, Edited, TokensAreReceived, Received
  <2> QED
    BY <2>1, <2>2, <2>3
<1>7. ASSUME NEW n \in DOMAIN requests, Lost(n)
      PROVE  RequestsAreOrderly' /\ RowsAreMinted' /\ TokensAreReceived'
  <2>1. RequestsAreOrderly'
    BY <1>7 DEF Lost, Edited, RequestsAreOrderly
  <2>2. RowsAreMinted'
    BY <1>7 DEF Lost, Edited, RowsAreMinted
  <2>3. TokensAreReceived'
    BY <1>7, SMTT(60) DEF Lost, Edited, TokensAreReceived, Received
  <2> QED
    BY <2>1, <2>2, <2>3
<1>8. ASSUME NEW k \in DOMAIN sessions, Expired(k)
      PROVE  RequestsAreOrderly' /\ RowsAreMinted' /\ TokensAreReceived'
  BY <1>8 DEF Expired, RequestsAreOrderly, RowsAreMinted, TokensAreReceived, Received
<1>9. CASE Same
  BY <1>1, <1>9 DEF Same, RequestsAreOrderly, RowsAreMinted, TokensAreReceived, Received
<1> QED
  BY <1>1, <1>2, <1>3, <1>4, <1>5, <1>6, <1>7, <1>8, <1>9, KindsOfSteps

\* The cookie of an undisturbed browser is a usable token, once nobody else
\* is presenting or still committing it.
LEMMA QuietCookieIsUsable ==
  ASSUME RequestInv, TokenInv, ~cutOff, jar # NoToken,
         \A m \in DOMAIN requests : jar \in {requests[m].token, m} => Settled(requests[m])
  PROVE  Usable(jar)
<1> USE DEF RequestInv, TokenInv
<1>1. jar \in Tokens /\ Received(jar)
  BY DEF AuthTypeOK, TokensAreReceived
<1>2. jar \in DOMAIN sessions
  <2>1. Settled(requests[jar])
    BY <1>1 DEF Received
  <2>2. requests[jar].write \in {"pending", "committed", "failed"}
    BY <1>1, RequestFields DEF Received, AuthRequest
  <2>3. requests[jar].write = "committed"
    BY <1>1, <2>1, <2>2 DEF Received, Settled, RequestsAreOrderly
  <2> QED
    BY <1>1, <2>3 DEF Received, RowsAreMinted
<1>3. ~sessions[jar].expired
  BY <1>2 DEF RowsEndForAReason
<1>4. ~sessions[jar].revoked
  <2> SUFFICES ASSUME sessions[jar].revoked PROVE FALSE
    OBVIOUS
  <2>1. PICK n \in DOMAIN requests : requests[n].token = jar /\ requests[n].write = "committed"
    BY <1>2 DEF RowsEndForAReason
  <2>2. requests[n].answered
    BY <2>1 DEF Settled
  <2>3. requests[n].state = "rejected"
    BY <2>1, <2>2 DEF CookieMovesOn
  <2> QED
    BY <2>1, <2>3 DEF RequestsAreOrderly
<1> QED
  BY <1>2, <1>3, <1>4 DEF Usable

\* A step that leaves the table alone keeps the reasons of its rows.
LEMMA ReasonsLast ==
  ASSUME RequestInv, RowsEndForAReason, sessions' = sessions,
         \A m \in DOMAIN requests :
           /\ m \in DOMAIN requests'
           /\ requests'[m].token = requests[m].token
           /\ requests[m].write = "committed" => requests'[m].write = "committed"
           /\ requests[m].answered => requests'[m].answered,
         jar' = jar \/ (jar' # NoToken => jar' \in DOMAIN requests /\ ~requests[jar'].answered)
  PROVE  RowsEndForAReason'
<1> SUFFICES ASSUME NEW k \in DOMAIN sessions
             PROVE  /\ sessions[k].revoked =>
                         \E n \in DOMAIN requests' :
                           requests'[n].token = k /\ requests'[n].write = "committed"
                    /\ sessions[k].expired => jar' # k /\ requests'[k].answered
  BY DEF RowsEndForAReason
<1>1. ASSUME sessions[k].revoked
      PROVE  \E n \in DOMAIN requests' : requests'[n].token = k /\ requests'[n].write = "committed"
  <2>1. PICK n \in DOMAIN requests : requests[n].token = k /\ requests[n].write = "committed"
    BY <1>1 DEF RowsEndForAReason
  <2> QED
    BY <2>1
<1>2. ASSUME sessions[k].expired
      PROVE  jar' # k /\ requests'[k].answered
  <2>1. k \in Tokens /\ k # NoToken
    BY AuthAssumption DEF RequestInv, AuthTypeOK, Tokens, NoToken
  <2>2. k \in DOMAIN requests
    BY <2>1 DEF RequestInv, RowsAreMinted
  <2>3. requests[k].answered /\ jar # k
    BY <1>2 DEF RowsEndForAReason
  <2> QED
    BY <2>1, <2>2, <2>3
<1> QED
  BY <1>1, <1>2

\* No step breaks what is known of the tokens.
LEMMA TokenInductive ==
  RequestInv /\ TokenInv /\ [AuthNext]_authVars => TokenInv'
<1> SUFFICES ASSUME RequestInv, TokenInv, [AuthNext]_authVars PROVE TokenInv'
  OBVIOUS
<1> USE DEF RequestInv, TokenInv
<1>1. ASSUME NEW n \in Tokens, Asked(n)
      PROVE  TokenInv'
  <2>1. CookieMovesOn'
    BY <1>1 DEF Asked, CookieMovesOn
  <2>2. RowsEndForAReason'
    BY <1>1, ReasonsLast DEF Asked, Edited, RequestsAreOrderly
  <2>3. SharedTokensAreContested'
    <3> SUFFICES ASSUME NEW i \in DOMAIN requests', requests'[i].token # NoToken
                 PROVE  /\ \A m \in DOMAIN requests' :
                             m # i /\ requests'[m].token = requests'[i].token
                             /\ ~Settled(requests'[m]) /\ ~Settled(requests'[i])
                             => requests'[i].token \in contested'
                        /\ requests'[requests'[i].token].write = "pending"
                             => requests'[i].token \in contested'
      BY DEF SharedTokensAreContested
    <3>1. jar # NoToken => jar \in DOMAIN requests /\ jar # n
      BY <1>1 DEF Asked, TokensAreReceived, Received
    <3>2. CASE i = n
      BY <1>1, <3>1, <3>2 DEF Asked, Settled
    <3>3. CASE i # n
      <4>1. i \in DOMAIN requests /\ requests'[i] = requests[i]
        BY <1>1, <3>3 DEF Asked
      <4>2. Received(requests[i].token)
        BY <4>1 DEF TokensAreReceived
      <4>3. requests'[requests[i].token] = requests[requests[i].token]
        BY <1>1, <4>2 DEF Asked, Received
      <4>4. ASSUME NEW m \in DOMAIN requests', m # i, requests'[m].token = requests'[i].token,
                   ~Settled(requests'[m]), ~Settled(requests'[i])
            PROVE  requests'[i].token \in contested'
        <5>1. CASE m = n
          BY <1>1, <4>1, <4>4, <5>1 DEF Asked
        <5>2. CASE m # n
          BY <1>1, <4>1, <4>4, <5>2 DEF Asked, SharedTokensAreContested
        <5> QED
          BY <5>1, <5>2
      <4>5. requests'[requests'[i].token].write = "pending" => requests'[i].token \in contested'
        BY <1>1, <4>1, <4>3 DEF Asked, SharedTokensAreContested
      <4> QED
        BY <4>4, <4>5
    <3> QED
      BY <3>2, <3>3
  <2>4. PendingTokenIsUsable'
    <3> SUFFICES ASSUME NEW i \in DOMAIN requests',
                        requests'[i].write = "pending",
                        requests'[i].token # NoToken,
                        requests'[i].token \notin contested',
                        ~cutOff' \/ (requests'[i].op = "refresh" /\ requests'[i].state = "handled")
                 PROVE  Usable(requests'[i].token)
      BY <1>1 DEF PendingTokenIsUsable, Usable, Asked
    <3>1. CASE i = n
      <4>1. requests'[i].token = jar /\ jar # NoToken /\ ~cutOff
        BY <1>1, <3>1 DEF Asked
      <4>2. \A m \in DOMAIN requests : jar \in {requests[m].token, m} => Settled(requests[m])
        BY <1>1, <3>1, <4>1 DEF Asked
      <4> QED
        BY <4>1, <4>2, QuietCookieIsUsable
    <3>2. CASE i # n
      BY <1>1, <3>2 DEF Asked, PendingTokenIsUsable
    <3> QED
      BY <3>1, <3>2
  <2> QED
    BY <2>1, <2>2, <2>3, <2>4
<1>2. ASSUME NEW n \in DOMAIN requests, Handled(n)
      PROVE  TokenInv'
  <2>1. CookieMovesOn'
    BY <1>2 DEF Handled, Edited, CookieMovesOn, RequestsAreOrderly
  <2>2. RowsEndForAReason'
    BY <1>2, ReasonsLast DEF Handled, Edited, RequestsAreOrderly
  <2>3. SharedTokensAreContested'
    BY <1>2 DEF Handled, Edited, SharedTokensAreContested, TokensAreReceived, Received, Settled,
       RequestsAreOrderly
  <2>4. PendingTokenIsUsable'
    BY <1>2 DEF Handled, Edited, PendingTokenIsUsable, Usable, RequestsAreOrderly
  <2> QED
    BY <2>1, <2>2, <2>3, <2>4
<1>3. ASSUME NEW n \in DOMAIN requests, Wrote(n)
      PROVE  TokenInv'
  <2>0. n \notin DOMAIN sessions /\ n \in Tokens
    BY <1>3, RequestFields DEF Wrote, RowsAreMinted
  <2>1. CookieMovesOn'
    BY <1>3 DEF Wrote, Edited, CookieMovesOn
  <2>2. RowsEndForAReason'
    <3> SUFFICES ASSUME NEW k \in DOMAIN sessions'
                 PROVE  /\ sessions'[k].revoked =>
                             \E m \in DOMAIN requests' :
                               requests'[m].token = k /\ requests'[m].write = "committed"
                        /\ sessions'[k].expired => jar' # k /\ requests'[k].answered
      BY DEF RowsEndForAReason
    <3>1. CASE k = n
      BY <1>3, <2>0, <3>1 DEF Wrote
    <3>2. CASE k # n
      <4>1. k \in DOMAIN sessions /\ k \in DOMAIN requests
        BY <1>3, <3>2 DEF Wrote, RowsAreMinted, AuthTypeOK
      <4>2. sessions'[k].expired => jar' # k /\ requests'[k].answered
        BY <1>3, <3>2, <4>1 DEF Wrote, Edited, RowsEndForAReason
      <4>3. ASSUME sessions'[k].revoked
            PROVE  \E m \in DOMAIN requests' :
                     requests'[m].token = k /\ requests'[m].write = "committed"
        <5>1. CASE k = requests[n].token
          BY <1>3, <5>1 DEF Wrote, Edited
        <5>2. CASE k # requests[n].token
          <6>1. PICK m \in DOMAIN requests : requests[m].token = k /\ requests[m].write = "committed"
            BY <1>3, <4>1, <4>3, <5>2 DEF Wrote, RowsEndForAReason
          <6> QED
            BY <1>3, <6>1 DEF Wrote, Edited
        <5> QED
          BY <5>1, <5>2
      <4> QED
        BY <4>2, <4>3
    <3> QED
      BY <3>1, <3>2
  <2>3. SharedTokensAreContested'
    BY <1>3 DEF Wrote, Edited, SharedTokensAreContested, TokensAreReceived, Received, Settled
  <2>4. PendingTokenIsUsable'
    <3> SUFFICES ASSUME NEW i \in DOMAIN requests',
                        requests'[i].write = "pending",
                        requests'[i].token # NoToken,
                        requests'[i].token \notin contested',
                        ~cutOff' \/ (requests'[i].op = "refresh" /\ requests'[i].state = "handled")
                 PROVE  /\ requests'[i].token \in DOMAIN sessions'
                        /\ ~sessions'[requests'[i].token].revoked
                        /\ ~sessions'[requests'[i].token].expired
      BY DEF PendingTokenIsUsable, Usable
    <3>1. i # n /\ i \in DOMAIN requests /\ requests'[i] = requests[i]
      BY <1>3 DEF Wrote, Edited
    <3>2. Usable(requests[i].token)
      BY <1>3, <3>1 DEF Wrote, PendingTokenIsUsable
    <3>3. requests[n].token # requests[i].token
      BY <1>3, <3>1 DEF Wrote, SharedTokensAreContested, Settled
    <3> QED
      BY <1>3, <3>1, <3>2, <3>3 DEF Wrote, Usable
  <2> QED
    BY <2>1, <2>2, <2>3, <2>4
<1>4. ASSUME NEW n \in DOMAIN requests, WriteFailed(n)
      PROVE  TokenInv'
  <2>1. CookieMovesOn'
    BY <1>4 DEF WriteFailed, CookieMovesOn
  <2>2. RowsEndForAReason'
    BY <1>4, ReasonsLast DEF WriteFailed, Edited, RequestsAreOrderly
  <2>3. SharedTokensAreContested'
    BY <1>4 DEF WriteFailed, Edited, SharedTokensAreContested, TokensAreReceived, Received, Settled
  <2>4. PendingTokenIsUsable'
    BY <1>4 DEF WriteFailed, Edited, PendingTokenIsUsable, Usable
  <2> QED
    BY <2>1, <2>2, <2>3, <2>4
<1>5. ASSUME NEW n \in DOMAIN requests, Arrived(n)
      PROVE  TokenInv'
  <2>1. CookieMovesOn'
    <3> SUFFICES ASSUME ~cutOff', jar' # NoToken, NEW m \in DOMAIN requests',
                        requests'[m].token = jar', requests'[m].answered
                 PROVE  requests'[m].state = "rejected"
      BY DEF CookieMovesOn
    <3>1. m \in DOMAIN requests /\ requests[m].token = jar' /\ ~cutOff
      BY <1>5 DEF Arrived, Edited
    <3>2. CASE jar' = n
      BY <1>5, <3>1, <3>2 DEF Arrived, TokensAreReceived, Received
    <3>3. CASE jar' # n
      <4>1. jar' = jar /\ (requests[n].state = "rejected" \/ requests[n].write = "failed")
        BY <1>5, <3>3 DEF Arrived
      <4>2. requests[n].state \in {"sent", "handled", "rejected"}
        BY RequestFields DEF AuthRequest
      <4>3. requests[n].state = "rejected"
        BY <1>5, <3>1, <4>1, <4>2 DEF Arrived, RequestsAreOrderly
      <4> QED
        BY <1>5, <3>1, <4>1, <4>3 DEF Arrived, Edited, CookieMovesOn
    <3> QED
      BY <3>2, <3>3
  <2>2. RowsEndForAReason'
    BY <1>5, ReasonsLast DEF Arrived, Edited, RequestsAreOrderly
  <2>3. SharedTokensAreContested'
    BY <1>5 DEF Arrived, Edited, SharedTokensAreContested, TokensAreReceived, Received, Settled
  <2>4. PendingTokenIsUsable'
    BY <1>5 DEF Arrived, Edited, PendingTokenIsUsable, Usable
  <2> QED
    BY <2>1, <2>2, <2>3, <2>4
<1>6. ASSUME NEW n \in DOMAIN requests, Lost(n)
      PROVE  TokenInv'
  <2>1. CookieMovesOn'
    BY <1>6 DEF Lost, CookieMovesOn
  <2>2. RowsEndForAReason'
    BY <1>6, ReasonsLast DEF Lost, Edited, RequestsAreOrderly
  <2>3. SharedTokensAreContested'
    BY <1>6, SMTT(60) DEF Lost, Edited, SharedTokensAreContested, TokensAreReceived, Received, Settled
  <2>4. PendingTokenIsUsable'
    BY <1>6 DEF Lost, Edited, PendingTokenIsUsable, Usable
  <2> QED
    BY <2>1, <2>2, <2>3, <2>4
<1>7. ASSUME NEW k \in DOMAIN sessions, Expired(k)
      PROVE  TokenInv'
  <2>1. CookieMovesOn'
    BY <1>7 DEF Expired, CookieMovesOn
  <2>2. RowsEndForAReason'
    <3>1. k \in DOMAIN requests /\ requests[k].answered
      BY <1>7 DEF Expired, RowsAreMinted, AuthTypeOK, Settled
    <3>2. k # NoToken
      BY DEF AuthTypeOK, Tokens, NoToken
    <3> QED
      BY <1>7, <3>1, <3>2 DEF Expired, RowsEndForAReason, AuthTypeOK, Tokens, NoToken
  <2>3. SharedTokensAreContested'
    BY <1>7 DEF Expired, SharedTokensAreContested, Settled
  <2>4. PendingTokenIsUsable'
    BY <1>7 DEF Expired, PendingTokenIsUsable, Settled
  <2> QED
    BY <2>1, <2>2, <2>3, <2>4
<1>8. CASE Same
  BY <1>8 DEF Same, CookieMovesOn, RowsEndForAReason, SharedTokensAreContested,
     PendingTokenIsUsable, Usable, Settled
<1> QED
  BY <1>1, <1>2, <1>3, <1>4, <1>5, <1>6, <1>7, <1>8, KindsOfSteps

\* What a family of the next state was before a commit: a row of it that is
\* usable afterwards is the new one or was usable before, and the presented
\* row is not usable any more.
LEMMA FamilyAfterWrite ==
  ASSUME RequestInv, TokenInv, NEW n \in DOMAIN requests, Wrote(n), NEW f \in Tokens, Quiet(f)'
  PROVE  /\ Quiet(f)
         /\ \A a \in Live(f)' : a = n \/ (a \in Live(f) /\ a # requests[n].token)
         /\ n \in Live(f)' => requests[n].op # "logout" /\
              IF requests[n].op = "login" THEN Live(f)' \subseteq {n} /\ FamilyOf(f) = {}
                                          ELSE requests[n].token \in Live(f)
<1> USE DEF RequestInv, TokenInv
<1>1. n \notin DOMAIN sessions /\ n \in Tokens
  BY RequestFields DEF Wrote, RowsAreMinted
<1>2. Quiet(f) /\ FamilyOf(f) \subseteq FamilyOf(f)'
  BY DEF Quiet, FamilyOf, Wrote
<1>3. ASSUME NEW a \in Live(f)', a # n
      PROVE  a \in Live(f) /\ a # requests[n].token
  <2>1. a \in DOMAIN sessions
    BY <1>3 DEF Live, FamilyOf, Wrote
  <2> QED
    BY <1>3, <2>1 DEF Live, FamilyOf, Usable, Wrote
<1>4. ASSUME n \in Live(f)'
      PROVE  requests[n].op # "logout" /\ 
              IF requests[n].op = "login" THEN Live(f)' \subseteq {n} /\ FamilyOf(f) = {}
                                          ELSE requests[n].token \in Live(f)
  <2>1. requests[n].op # "logout" /\ sessions'[n].family = f
    BY <1>1, <1>4 DEF Live, FamilyOf, Wrote
  <2>2. ASSUME requests[n].op = "login"
        PROVE  Live(f)' \subseteq {n} /\ FamilyOf(f) = {}
    <3>1. f = n
      BY <2>1, <2>2 DEF Wrote
    <3>2. FamilyOf(f) = {}
      BY <1>1, <3>1 DEF FamilyOf, RowsAreMinted
    <3> QED
      BY <1>3, <3>2 DEF Live
  <2>3. ASSUME requests[n].op # "login"
        PROVE  requests[n].token \in Live(f)
    <3> DEFINE k == requests[n].token
    <3>1. requests[n].op = "refresh" /\ requests[n].state = "handled" /\ requests[n].write = "pending"
      BY <2>1, <2>3, RequestFields DEF AuthRequest, Wrote
    <3>2. k \in DOMAIN sessions /\ k # NoToken
      BY <3>1 DEF RowsAreMinted, RequestsAreOrderly
    <3>3. sessions[k].family = f
      BY <2>1, <2>3 DEF Wrote
    <3>4. k \notin contested
      BY <1>2, <3>2, <3>3 DEF Quiet, FamilyOf
    <3>5. Usable(k)
      BY <3>1, <3>2, <3>4 DEF PendingTokenIsUsable
    <3> QED
      BY <3>2, <3>3, <3>5 DEF Live, FamilyOf
  <2> QED
    BY <2>1, <2>2, <2>3
<1> QED
  BY <1>2, <1>3, <1>4

\* Outside a commit a family loses live rows at most, and stays contested.
LEMMA FamilyAfterOther ==
  ASSUME DOMAIN sessions' = DOMAIN sessions,
         \A k \in DOMAIN sessions :
           /\ sessions'[k].family = sessions[k].family
           /\ sessions[k].revoked => sessions'[k].revoked
           /\ sessions[k].expired => sessions'[k].expired,
         contested \subseteq contested',
         NEW f \in Tokens
  PROVE  /\ Quiet(f)' => Quiet(f)
         /\ Live(f)' \subseteq Live(f)
BY DEF Quiet, FamilyOf, Live, Usable

\* A commit keeps a family's live session unique.
LEMMA LiveAfterWrite ==
  ASSUME RequestInv, TokenInv, LiveIsUnique, NEW n \in DOMAIN requests, Wrote(n)
  PROVE  LiveIsUnique'
<1> SUFFICES ASSUME NEW f \in Tokens, Quiet(f)', NEW a \in Live(f)', NEW b \in Live(f)'
             PROVE  a = b
  BY DEF LiveIsUnique
<1>1. Quiet(f)
  BY FamilyAfterWrite
<1>2. CASE n \notin Live(f)'
  BY <1>1, <1>2, FamilyAfterWrite DEF LiveIsUnique
<1>3. CASE n \in Live(f)' /\ requests[n].op = "login"
  BY <1>3, FamilyAfterWrite
<1>4. CASE n \in Live(f)' /\ requests[n].op # "login"
  <2>1. requests[n].token \in Live(f)
    BY <1>4, FamilyAfterWrite
  <2>2. \A c \in Live(f)' : c = n
    BY <1>1, <2>1, FamilyAfterWrite DEF LiveIsUnique
  <2> QED
    BY <2>2
<1> QED
  BY <1>2, <1>3, <1>4

\* A commit revives no family that a logout has ended.
LEMMA LogoutAfterWrite ==
  ASSUME RequestInv, TokenInv, FamilyInv, NEW n \in DOMAIN requests, Wrote(n), AuthTypeOK'
  PROVE  LogoutIsFinal'
<1> USE DEF RequestInv, TokenInv, FamilyInv
<1>0. DOMAIN requests' = DOMAIN requests /\ DOMAIN requests = 1..Len(requests) /\ Len(requests') = Len(requests)
  BY RequestFields DEF Wrote, Edited
<1> SUFFICES ASSUME NEW m \in DOMAIN requests,
                    requests'[m].op = "logout", requests'[m].write = "committed",
                    requests'[m].token \in DOMAIN sessions', ~cutOff',
                    (FamilyOf(sessions[requests[m].token].family) \cap contested = {})'
             PROVE  (Live(sessions[requests[m].token].family) = {})'
  BY <1>0 DEF LogoutIsFinal
<1>1. PICK k \in DOMAIN sessions' : k = requests'[m].token
  OBVIOUS
<1>2. PICK f \in Tokens : f = sessions'[k].family
  BY DEF AuthTypeOK, SessionRow
<1>3. Quiet(f)'
  BY <1>1, <1>2 DEF Quiet
<1> SUFFICES ASSUME NEW a \in Live(f)' PROVE FALSE
  BY <1>1, <1>2
<1>4. /\ requests[m].op = "logout" /\ requests[m].token = k /\ ~cutOff
      /\ m # n => requests[m].write = "committed"
  BY <1>1 DEF Wrote, Edited
<1>5. k \in FamilyOf(f)' /\ k \notin contested
  BY <1>2, <1>3 DEF FamilyOf, Quiet, Wrote
<1>6. k # NoToken /\ k \in Tokens
  BY DEF AuthTypeOK, Tokens, NoToken
<1>7. CASE m = n
  <2>1. k \in DOMAIN sessions /\ sessions[k].family = f
    BY <1>2, <1>4, <1>7 DEF Wrote
  <2>2. Usable(k)
    BY <1>4, <1>5, <1>6, <1>7 DEF Wrote, PendingTokenIsUsable
  <2>3. k \in Live(f)
    BY <2>1, <2>2 DEF Live, FamilyOf
  <2>4. Quiet(f) /\ (a = n \/ (a \in Live(f) /\ a # k)) /\ (n \in Live(f)' => requests[n].op # "logout")
    BY <1>3, <1>4, <1>7, FamilyAfterWrite
  <2>5. a \in Live(f) /\ a # k
    BY <1>4, <1>7, <2>4
  <2> QED
    BY <2>3, <2>4, <2>5 DEF LiveIsUnique
<1>8. CASE m # n /\ k \in DOMAIN sessions
  <2>1. sessions[k].family = f /\ k \in FamilyOf(f)
    BY <1>2, <1>8 DEF Wrote, FamilyOf
  <2>2. Quiet(f)
    BY <1>3, FamilyAfterWrite
  <2>3. Live(f) = {}
    BY <1>0, <1>4, <1>8, <2>1, <2>2 DEF LogoutIsFinal, Quiet
  <2>4. a = n
    BY <1>3, <2>3, FamilyAfterWrite
  <2>5. \/ requests[n].op = "login" /\ FamilyOf(f) = {}
        \/ requests[n].token \in Live(f)
    BY <1>3, <2>4, FamilyAfterWrite
  <2> QED
    BY <2>1, <2>3, <2>5
<1>9. CASE m # n /\ k \notin DOMAIN sessions
  <2>1. k = n /\ requests[n].write = "pending"
    BY <1>9 DEF Wrote
  <2> QED
    BY <1>4, <1>5, <1>6, <2>1 DEF SharedTokensAreContested
<1> QED
  BY <1>7, <1>8, <1>9

\* No step breaks the uniqueness of live sessions or the end of a login.
LEMMA FamilyInductive ==
  RequestInv /\ TokenInv /\ FamilyInv /\ [AuthNext]_authVars => FamilyInv'
<1> SUFFICES ASSUME RequestInv, TokenInv, FamilyInv, [AuthNext]_authVars PROVE FamilyInv'
  OBVIOUS
<1>1. AuthTypeOK'
  BY TypeStep
<1>2. CASE \E n \in DOMAIN requests : Wrote(n)
  BY <1>1, <1>2, LiveAfterWrite, LogoutAfterWrite DEF FamilyInv
<1>3. CASE ~\E n \in DOMAIN requests : Wrote(n)
  <2>1. /\ DOMAIN sessions' = DOMAIN sessions
        /\ \A k \in DOMAIN sessions :
             /\ sessions'[k].family = sessions[k].family
             /\ sessions[k].revoked => sessions'[k].revoked
             /\ sessions[k].expired => sessions'[k].expired
        /\ contested \subseteq contested'
    BY <1>3, KindsOfSteps DEF Asked, Handled, WriteFailed, Arrived, Lost, Expired, Same
  <2>2. \A f \in Tokens : (Quiet(f)' => Quiet(f)) /\ Live(f)' \subseteq Live(f)
    BY <2>1, FamilyAfterOther
  <2>3. LiveIsUnique'
    BY <2>2 DEF LiveIsUnique, FamilyInv
  <2>4. \A m \in DOMAIN requests' : requests'[m].op = "logout" /\ requests'[m].write = "committed"
          => /\ m \in DOMAIN requests /\ requests[m].op = "logout" /\ requests[m].write = "committed"
             /\ requests[m].token = requests'[m].token
    BY <1>3, KindsOfSteps DEF Asked, Handled, WriteFailed, Arrived, Lost, Expired, Same, Edited
  <2>5. ~cutOff' => ~cutOff
    BY <1>3, KindsOfSteps DEF Asked, Handled, WriteFailed, Arrived, Lost, Expired, Same,
       RequestInv, AuthTypeOK, AuthNext, CommitFails, LoseResponse
  <2>6. LogoutIsFinal'
    <3> SUFFICES ASSUME NEW m \in 1..Len(requests'),
                    requests'[m].op = "logout", requests'[m].write = "committed",
                    requests'[m].token \in DOMAIN sessions', ~cutOff',
                    (FamilyOf(sessions[requests[m].token].family) \cap contested = {})'
                 PROVE  (Live(sessions[requests[m].token].family) = {})'
      BY DEF LogoutIsFinal
    <3>1. m \in DOMAIN requests'
      BY <1>1 DEF AuthTypeOK
    <3>2. PICK k \in DOMAIN sessions : k = requests'[m].token
      BY <2>1
    <3>3. PICK f \in Tokens : f = sessions[k].family
      BY DEF RequestInv, AuthTypeOK, SessionRow
    <3>4. f = sessions'[requests'[m].token].family
      BY <2>1, <3>2, <3>3
    <3>5. Quiet(f)
      BY <2>2, <3>4 DEF Quiet
    <3>6. /\ m \in 1..Len(requests) /\ requests[m].op = "logout" /\ requests[m].write = "committed"
          /\ requests[m].token = k
      BY <2>4, <3>1, <3>2, RequestFields DEF RequestInv
    <3>7. Live(f) = {}
      BY <2>5, <3>3, <3>5, <3>6 DEF LogoutIsFinal, FamilyInv, Quiet
    <3> QED
      BY <2>2, <3>4, <3>7
  <2> QED
    BY <2>3, <2>6 DEF FamilyInv
<1> QED
  BY <1>2, <1>3

\* A set all of whose elements are equal has at most one.
LEMMA AtMostOne ==
  ASSUME NEW S, \A a, b \in S : a = b
  PROVE  Cardinality(S) <= 1
<1>1. CASE S = {}
  BY <1>1, FS_EmptySet
<1>2. CASE S # {}
  <2>1. PICK a \in S : S = {a}
    BY <1>2
  <2> QED
    BY <2>1, FS_Singleton
<1> QED
  BY <1>1, <1>2

\* The invariants hold of a new browser and of one that is signed in.
LEMMA AuthInitially == AuthInit => RequestInv /\ TokenInv /\ FamilyInv
<1> SUFFICES ASSUME AuthInit PROVE RequestInv /\ TokenInv /\ FamilyInv
  OBVIOUS
<1> DEFINE first == [tab |-> CHOOSE t \in Tabs : TRUE, op |-> "login", token |-> NoToken,
                     state |-> "handled", write |-> "committed", answered |-> TRUE]
<1>1. CASE sessions = <<>> /\ jar = NoToken /\ requests = <<>>
  <2>1. DOMAIN sessions = {} /\ DOMAIN requests = {} /\ Len(requests) = 0 /\ requests \in Seq(AuthRequest)
    BY <1>1
  <2>2. AuthTypeOK
    <3>1. Len(requests) <= MaxRequests
      BY <2>1, AuthAssumption
    <3>2. page \in [Tabs -> Pages]
      BY DEF AuthInit, Pages
    <3>3. userActive \in BOOLEAN /\ responseFirst \in BOOLEAN /\ cutOff \in BOOLEAN
      BY DEF AuthInit
    <3> QED
      BY <1>1, <2>1, <3>1, <3>2, <3>3 DEF AuthInit, AuthTypeOK
  <2> QED
    BY <1>1, <2>1, <2>2 DEF RequestInv, TokenInv, FamilyInv, RequestsAreOrderly, RowsAreMinted,
       TokensAreReceived, CookieMovesOn, RowsEndForAReason, SharedTokensAreContested,
       PendingTokenIsUsable, LiveIsUnique, LogoutIsFinal, Live, FamilyOf
<1>2. CASE sessions = Add(<<>>, 1, 1) /\ jar = 1 /\ requests = <<first>>
  <2>1. first \in AuthRequest
    BY AuthAssumption DEF AuthRequest, NoToken
  <2>2. /\ first.op = "login" /\ first.token = NoToken /\ first.state = "handled"
        /\ first.write = "committed" /\ first.answered = TRUE
    OBVIOUS
  <2> HIDE DEF first
  <2>3. /\ DOMAIN requests = {1} /\ Len(requests) = 1 /\ requests[1] = first
        /\ requests \in Seq(AuthRequest)
    BY <1>2, <2>1
  <2>4. DOMAIN sessions = {1} /\ sessions[1] = [family |-> 1, revoked |-> FALSE, expired |-> FALSE]
    BY <1>2 DEF Add
  <2>5. sessions[1].family = 1 /\ ~sessions[1].revoked /\ ~sessions[1].expired
    BY <2>4
  <2>6. 1 \in Tokens /\ 1 <= MaxRequests
    BY AuthAssumption DEF Tokens
  <2>7. AuthTypeOK
    <3>1. sessions[1] \in SessionRow
      BY <2>4, <2>6 DEF SessionRow
    <3> QED
      BY <1>2, <2>3, <2>4, <2>6, <3>1 DEF AuthInit, AuthTypeOK, Pages
  <2>8. RequestsAreOrderly /\ RowsAreMinted /\ TokensAreReceived
    BY <1>2, <2>2, <2>3, <2>4, <2>5, <2>6
       DEF RequestsAreOrderly, RowsAreMinted, TokensAreReceived, Received, NoToken
  <2>9. TokenInv
    BY <1>2, <2>2, <2>3, <2>4, <2>5, <2>6
       DEF TokenInv, CookieMovesOn, RowsEndForAReason, SharedTokensAreContested,
           PendingTokenIsUsable, NoToken
  <2>10. FamilyInv
    BY <2>2, <2>3, <2>4 DEF FamilyInv, LiveIsUnique, LogoutIsFinal, Live, FamilyOf
  <2> QED
    BY <2>7, <2>8, <2>9, <2>10 DEF RequestInv
<1> QED
  BY <1>1, <1>2 DEF AuthInit

-----------------------------------------------------------------------------

\* The three groups of facts hold in every reachable state.
LEMMA AuthInvariants ==
  AuthInit /\ [][AuthNext]_authVars => [](RequestInv /\ TokenInv /\ FamilyInv)
<1>1. RequestInv /\ TokenInv /\ FamilyInv /\ [AuthNext]_authVars
      => (RequestInv /\ TokenInv /\ FamilyInv)'
  BY RequestInductive, TokenInductive, FamilyInductive
<1> QED
  BY <1>1, AuthInitially, PTL

\* The variables of the session endpoints and of the browser keep their types.
THEOREM AuthTypes == AuthInit /\ [][AuthNext]_authVars => []AuthTypeOK
  BY AuthInvariants, PTL DEF RequestInv

\* Once every request is settled and no answer or commit was lost, the cookie
\* shared by all tabs is a token that refresh() accepts: no interleaving of
\* concurrent rotations leaves the browser with a token its own tabs revoked.
THEOREM CookieStaysUsable == AuthInit /\ [][AuthNext]_authVars => []CookieIsUsable
<1>1. RequestInv /\ TokenInv => CookieIsUsable
  <2> SUFFICES ASSUME RequestInv, TokenInv, Unsettled = {}, ~cutOff, jar # NoToken
               PROVE  Usable(jar)
    BY DEF CookieIsUsable
  <2>1. \A m \in DOMAIN requests : Settled(requests[m])
    BY RequestFields DEF RequestInv, Unsettled
  <2> QED
    BY <2>1, QuietCookieIsUsable
<1> QED
  BY <1>1, AuthInvariants, PTL

\* A login has at most one live session unless two open requests presented
\* one token, and none after its logout committed.
THEOREM LoginHasOneSession == AuthInit /\ [][AuthNext]_authVars => []SessionsOfALogin
<1>1. FamilyInv => SessionsOfALogin
  <2> SUFFICES ASSUME FamilyInv PROVE OneLiveSession
    BY DEF FamilyInv, SessionsOfALogin
  <2> SUFFICES ASSUME NEW f \in Tokens, FamilyOf(f) \cap contested = {}
               PROVE  Cardinality(Live(f)) <= 1
    BY DEF OneLiveSession
  <2>1. \A a, b \in Live(f) : a = b
    BY DEF FamilyInv, LiveIsUnique, Quiet
  <2> QED
    BY <2>1, AtMostOne
<1> QED
  BY <1>1, AuthInvariants, PTL

-----------------------------------------------------------------------------
(***************************************************************************)
(* The pages.  Four of them overlap requests; for any number of dates,     *)
(* symbols, runs and requests, whatever order the answers arrive in, a     *)
(* page shows what its user chose last, and a waiting indicator has a      *)
(* request that will take it off.                                          *)
(***************************************************************************)

(***************************************************************************)
(* Finite sets of numbers have a largest element: the smallest bound of a  *)
(* set is in it, and a smallest set without a bound would have one after   *)
(* the removal of an element.                                              *)
(***************************************************************************)

Bounded(S) == \E b \in Nat : \A x \in S : x <= b

\* A set of naturals has a smallest member.
LEMMA Smallest ==
  ASSUME NEW T, T \subseteq Nat, T # {}
  PROVE  \E x \in T : \A y \in T : x <= y
<1>1. PICK x \in T : \A y \in T : ~(<<y, x>> \in OpToRel(<, Nat))
  BY NatLessThanWellFounded, WFMin, Zenon
<1>2. \A y \in T : ~(y < x)
  BY <1>1 DEF OpToRel
<1> QED
  BY <1>2

\* A finite set of naturals has a bound.
LEMMA FiniteIsBounded ==
  ASSUME NEW S, S \subseteq Nat, IsFiniteSet(S)
  PROVE  Bounded(S)
<1> DEFINE Sizes == {Cardinality(T) : T \in {U \in SUBSET S : ~Bounded(U)}}
<1> SUFFICES ASSUME ~Bounded(S) PROVE FALSE
  OBVIOUS
<1>1. \A T \in SUBSET S : IsFiniteSet(T) /\ Cardinality(T) \in Nat
  BY FS_Subset, FS_CardinalityType
<1>2. Sizes \subseteq Nat /\ Sizes # {}
  BY <1>1
<1>3. PICK c \in Sizes : \A d \in Sizes : c <= d
  BY <1>2, Smallest
<1>4. PICK T \in SUBSET S : ~Bounded(T) /\ c = Cardinality(T)
  BY <1>3
<1>5. T # {}
  BY <1>4 DEF Bounded
<1>6. PICK x \in T : TRUE
  BY <1>5
<1>7. IsFiniteSet(T \ {x}) /\ Cardinality(T \ {x}) = c - 1
  BY <1>1, <1>4, <1>6, FS_RemoveElement
<1>8. Bounded(T \ {x})
  <2> SUFFICES ASSUME ~Bounded(T \ {x}) PROVE FALSE
    OBVIOUS
  <2>1. c - 1 \in Sizes /\ c \in Nat
    BY <1>2, <1>3, <1>4, <1>7
  <2> QED
    BY <1>3, <2>1
<1>9. PICK b \in Nat : \A y \in T \ {x} : y <= b
  BY <1>8 DEF Bounded
<1>10. x \in Nat /\ T \subseteq Nat
  BY <1>4, <1>6
<1>11. b + x \in Nat /\ \A y \in T : y <= b + x
  BY <1>9, <1>10
<1>12. Bounded(T)
  BY <1>11 DEF Bounded
<1> QED
  BY <1>4, <1>12

\* The newest of some dates is one of them.
LEMMA MaxIn ==
  ASSUME NEW S \in SUBSET PageDates, S # {}
  PROVE  Max(S) \in S
<1> DEFINE B == {b \in Nat : \A x \in S : x <= b}
<1>1. S \subseteq Nat /\ IsFiniteSet(S)
  BY PageAssumption, FS_Subset
<1>2. B \subseteq Nat /\ B # {}
  BY <1>1, FiniteIsBounded DEF Bounded
<1>3. PICK m \in B : \A b \in B : m <= b
  BY <1>2, Smallest
<1>4. m \in S
  <2> SUFFICES ASSUME m \notin S PROVE FALSE
    OBVIOUS
  <2>1. PICK x \in S : TRUE
    OBVIOUS
  <2>2. \A y \in S : y <= m - 1
    BY <1>1, <1>3
  <2>3. m - 1 \in B
    BY <1>1, <1>3, <2>1, <2>2
  <2> QED
    BY <1>3, <2>3
<1>5. \A y \in S : m >= y
  BY <1>1, <1>3
<1> QED
  BY <1>4, <1>5 DEF Max

-----------------------------------------------------------------------------
(***************************************************************************)
(* The screener page.                                                      *)
(***************************************************************************)

RunRecord == [stage: {"none", "run", "latest", "history", "loading"}, kind: {"normal", "reanalysis"},
              date: PageDates \cup {Unset}, result: PageDates \cup {Unset}, load: Nat]

\* The records of the requests in flight and of the run; a run whose history
\* is awaited has a result.
RunIsSound ==
  /\ loads \subseteq [id: Nat, date: PageDates]
  /\ run \in RunRecord
  /\ run.stage = "history" => run.result \in PageDates

\* The parts of the type invariant that several steps touch.
CountersAreTyped ==
  /\ request \in Nat /\ boots \in Nat /\ starts \in 0..MaxLoads
  /\ failed \in {"none", "bootstrap", "date"}
  /\ \A l \in loads : l.id \in 1..request /\ l.date \in PageDates

LoadingIsTyped == loading \in BOOLEAN

DatesAreTyped ==
  /\ served \subseteq PageDates /\ historyDates \subseteq PageDates
  /\ date \in PageDates \cup {Unset}
  /\ effectDate \in PageDates \cup {Unset}
  /\ items \in PageDates \cup {Unset}

\* The effect lags behind the selection only after the first date was chosen
\* or after a run selected its result, and no other run has begun since.
EffectFollows ==
  effectDate # date => date # Unset /\ (effectDate = Unset \/ run.stage = "none")

\* The current results request is for the selected date.
CurrentIsSelected ==
  mounted /\ effectDate = date /\ date # Unset /\ ~stray =>
    \A l \in loads : l.id = request => l.date = date

\* The loading view over a selected date has the current results request.
LoadingIsOwned ==
  mounted /\ loading /\ effectDate = date /\ date # Unset /\ ~rebooted => CurrentLoad

ScreenerInv ==
  /\ PageTypeOK /\ RunIsSound /\ EffectFollows /\ CurrentIsSelected /\ LoadingIsOwned
  /\ ShownIsSelected /\ RunIsWaiting

\* loadDate() makes its request the current one.
LEMMA LoadFacts ==
  ASSUME ScreenerInv
  PROVE  \A d \in PageDates : LoadDate(d) =>
           /\ request' = request + 1 /\ request' \in Nat
           /\ loading' = TRUE /\ failed' = "none"
           /\ loads' \subseteq [id: Nat, date: PageDates]
           /\ \A l \in loads' : l.id \in 1..request' /\ l.date \in PageDates
           /\ \A l \in loads' : l.id = request' => l.date = d
           /\ \E l \in loads' : l.id = request'
           /\ loads \subseteq loads'
<1> SUFFICES ASSUME NEW d \in PageDates, LoadDate(d)
             PROVE  /\ request' = request + 1 /\ request' \in Nat
                    /\ loading' = TRUE /\ failed' = "none"
                    /\ loads' \subseteq [id: Nat, date: PageDates]
                    /\ \A l \in loads' : l.id \in 1..request' /\ l.date \in PageDates
                    /\ \A l \in loads' : l.id = request' => l.date = d
                    /\ \E l \in loads' : l.id = request'
                    /\ loads \subseteq loads'
  OBVIOUS
<1> DEFINE new == [id |-> request + 1, date |-> d]
<1>1. request \in Nat /\ loads \subseteq [id: Nat, date: PageDates]
      /\ \A l \in loads : l.id \in 1..request /\ l.date \in PageDates
  BY DEF ScreenerInv, PageTypeOK, RunIsSound
<1>2. new \in [id: Nat, date: PageDates] /\ new.id = request + 1 /\ new.date = d
  BY <1>1
<1>3. loads' = loads \cup {new} /\ request' = request + 1 /\ loading' = TRUE /\ failed' = "none"
  BY DEF LoadDate
<1> HIDE DEF new
<1> QED
  BY <1>1, <1>2, <1>3

\* A load that execute() waits for.
LEMMA RunLoadFacts ==
  ASSUME ScreenerInv
  PROVE  \A d \in PageDates : LoadFromRun(d) =>
           /\ LoadDate(d)
           /\ run' \in RunRecord /\ run'.stage = "loading" /\ run'.load = request'
           /\ run'.date \in PageDates \cup {Unset}
           /\ stray' = (stray \/ d # date)
<1> SUFFICES ASSUME NEW d \in PageDates, LoadFromRun(d)
             PROVE  /\ LoadDate(d)
                    /\ run' \in RunRecord /\ run'.stage = "loading" /\ run'.load = request'
                    /\ run'.date \in PageDates \cup {Unset}
                    /\ stray' = (stray \/ d # date)
  OBVIOUS
<1>1. /\ LoadDate(d) /\ run' = [run EXCEPT !.stage = "loading", !.load = request + 1]
      /\ stray' = (stray \/ d # date)
  BY DEF LoadFromRun
<1>2. request' = request + 1 /\ request + 1 \in Nat
  BY <1>1, LoadFacts
<1>3. run' \in RunRecord /\ run'.stage = "loading" /\ run'.load = request + 1
  BY <1>1, <1>2 DEF ScreenerInv, RunIsSound, RunRecord
<1> QED
  BY <1>1, <1>2, <1>3 DEF RunRecord

\* A run without a load to wait for.
LEMMA NoRunFacts == NoRun \in RunRecord /\ NoRun.stage = "none"
  BY DEF NoRun, RunRecord

\* No step breaks the counters and requests of the screener page.
LEMMA KeepCountersAreTyped == ScreenerInv /\ [PageNext]_pageVars => CountersAreTyped'
<1> SUFFICES ASSUME ScreenerInv, [PageNext]_pageVars PROVE CountersAreTyped'
  OBVIOUS
<1> USE PageAssumption
<1> USE DEF ScreenerInv, NoLoad, Started, Idles
<1>1. ASSUME DateEffect PROVE CountersAreTyped'
  BY <1>1, LoadFacts, RunLoadFacts DEF DateEffect, CountersAreTyped, PageTypeOK, RunIsSound
<1>2. ASSUME BootstrapDone PROVE CountersAreTyped'
  BY <1>2, LoadFacts, RunLoadFacts DEF BootstrapDone, CountersAreTyped, PageTypeOK,
           RunIsSound
<1>3. ASSUME BootstrapFails PROVE CountersAreTyped'
  BY <1>3, LoadFacts, RunLoadFacts DEF BootstrapFails, CountersAreTyped, PageTypeOK,
           RunIsSound
<1>4. ASSUME Retry PROVE CountersAreTyped'
  <2>1. starts' \in 0..MaxLoads /\ boots' \in Nat
    BY <1>4 DEF Retry, PageTypeOK, LoadDate
  <2>2. (\E e \in PageDates : LoadDate(e)) \/ (UNCHANGED <<request, loads>> /\ failed' \in {failed, "none"})
    BY <1>4 DEF Retry, PageTypeOK, Unset
  <2> QED
    BY <1>4, <2>1, <2>2, LoadFacts DEF PageTypeOK, CountersAreTyped
<1>5. ASSUME Unmount PROVE CountersAreTyped'
  BY <1>5, LoadFacts, RunLoadFacts DEF Unmount, CountersAreTyped, PageTypeOK, RunIsSound
<1>6. ASSUME NEW l \in loads, NEW ok \in BOOLEAN, AnswerLoad(l, ok) PROVE CountersAreTyped'
  BY <1>6, LoadFacts, RunLoadFacts DEF AnswerLoad, CountersAreTyped, PageTypeOK, RunIsSound
<1>7. ASSUME NEW d \in PageDates \cup {Unset}, SelectDate(d) PROVE CountersAreTyped'
  <2>1. starts' \in 0..MaxLoads /\ boots' \in Nat
    BY <1>7 DEF SelectDate, PageTypeOK, LoadDate
  <2>2. (\E e \in PageDates : LoadDate(e)) \/ (UNCHANGED <<request, loads>> /\ failed' \in {failed, "none"})
    BY <1>7 DEF SelectDate, PageTypeOK, Unset
  <2> QED
    BY <1>7, <2>1, <2>2, LoadFacts DEF PageTypeOK, CountersAreTyped
<1>8. ASSUME NEW kind \in {"normal", "reanalysis"}, Execute(kind) PROVE CountersAreTyped'
  BY <1>8, LoadFacts, RunLoadFacts DEF Execute, CountersAreTyped, PageTypeOK, RunIsSound
<1>9. ASSUME RunSkipped PROVE CountersAreTyped'
  BY <1>9, LoadFacts, RunLoadFacts DEF RunSkipped, CountersAreTyped, PageTypeOK, RunIsSound
<1>10. ASSUME RunFails PROVE CountersAreTyped'
  BY <1>10, LoadFacts, RunLoadFacts DEF RunFails, CountersAreTyped, PageTypeOK, RunIsSound
<1>11. ASSUME LatestAnswered PROVE CountersAreTyped'
  <2>1. CASE mounted /\ run.date # Unset
    <3>1. run.date \in PageDates /\ LoadFromRun(run.date)
      BY <1>11, <2>1 DEF LatestAnswered, RunIsSound, RunRecord, PageTypeOK
    <3> QED
      BY <1>11, <2>1, <3>1, RunLoadFacts, LoadFacts DEF LatestAnswered, CountersAreTyped, PageTypeOK
  <2>2. CASE ~(mounted /\ run.date # Unset)
    BY <1>11, <2>2, NoRunFacts DEF LatestAnswered, CountersAreTyped, PageTypeOK
  <2> QED
    BY <2>1, <2>2
<1>12. ASSUME HistoryAnswered PROVE CountersAreTyped'
  <2>1. CASE mounted /\ run.result = run.date
    <3>1. run.date \in PageDates /\ LoadFromRun(run.date)
      BY <1>12, <2>1 DEF HistoryAnswered, RunIsSound, RunRecord, PageTypeOK
    <3> QED
      BY <1>12, <2>1, <3>1, RunLoadFacts, LoadFacts DEF HistoryAnswered, CountersAreTyped, PageTypeOK
  <2>2. CASE ~(mounted /\ run.result = run.date)
    BY <1>12, <2>2, NoRunFacts DEF HistoryAnswered, CountersAreTyped, PageTypeOK
  <2> QED
    BY <2>1, <2>2
<1>13. ASSUME NEW d \in PageDates, NEW publishes \in BOOLEAN, RunDone(d, publishes) PROVE CountersAreTyped'
  BY <1>13, LoadFacts, RunLoadFacts DEF RunDone, CountersAreTyped, PageTypeOK, RunIsSound
<1>14. CASE UNCHANGED pageVars
  BY <1>14 DEF pageVars, CountersAreTyped, PageTypeOK, RunIsSound
<1> QED
  BY <1>1, <1>2, <1>3, <1>4, <1>5, <1>6, <1>7, <1>8, <1>9, <1>10, <1>11,
     <1>12, <1>13, <1>14
     DEF PageNext

\* No step breaks the flag of the loading view.
LEMMA KeepLoadingIsTyped == ScreenerInv /\ [PageNext]_pageVars => LoadingIsTyped'
<1> SUFFICES ASSUME ScreenerInv, [PageNext]_pageVars PROVE LoadingIsTyped'
  OBVIOUS
<1> USE PageAssumption
<1> USE DEF ScreenerInv, NoLoad, Started, Idles
<1>1. ASSUME DateEffect PROVE LoadingIsTyped'
  BY <1>1, LoadFacts, RunLoadFacts DEF DateEffect, LoadingIsTyped, PageTypeOK, RunIsSound
<1>2. ASSUME BootstrapDone PROVE LoadingIsTyped'
  BY <1>2, LoadFacts, RunLoadFacts DEF BootstrapDone, LoadingIsTyped, PageTypeOK,
           RunIsSound
<1>3. ASSUME BootstrapFails PROVE LoadingIsTyped'
  BY <1>3, LoadFacts, RunLoadFacts DEF BootstrapFails, LoadingIsTyped, PageTypeOK,
           RunIsSound
<1>4. ASSUME Retry PROVE LoadingIsTyped'
  BY <1>4, LoadFacts, RunLoadFacts DEF Retry, LoadingIsTyped, PageTypeOK, RunIsSound,
           Rendered
<1>5. ASSUME Unmount PROVE LoadingIsTyped'
  BY <1>5, LoadFacts, RunLoadFacts DEF Unmount, LoadingIsTyped, PageTypeOK, RunIsSound
<1>6. ASSUME NEW l \in loads, NEW ok \in BOOLEAN, AnswerLoad(l, ok) PROVE LoadingIsTyped'
  BY <1>6, LoadFacts, RunLoadFacts DEF AnswerLoad, LoadingIsTyped, PageTypeOK, RunIsSound
<1>7. ASSUME NEW d \in PageDates \cup {Unset}, SelectDate(d) PROVE LoadingIsTyped'
  BY <1>7, LoadFacts, RunLoadFacts DEF SelectDate, LoadingIsTyped, PageTypeOK, RunIsSound
<1>8. ASSUME NEW kind \in {"normal", "reanalysis"}, Execute(kind) PROVE LoadingIsTyped'
  BY <1>8, LoadFacts, RunLoadFacts DEF Execute, LoadingIsTyped, PageTypeOK, RunIsSound
<1>9. ASSUME RunSkipped PROVE LoadingIsTyped'
  BY <1>9, LoadFacts, RunLoadFacts DEF RunSkipped, LoadingIsTyped, PageTypeOK, RunIsSound
<1>10. ASSUME RunFails PROVE LoadingIsTyped'
  BY <1>10, LoadFacts, RunLoadFacts DEF RunFails, LoadingIsTyped, PageTypeOK, RunIsSound
<1>11. ASSUME LatestAnswered PROVE LoadingIsTyped'
  <2>1. CASE mounted /\ run.date # Unset
    <3>1. run.date \in PageDates /\ LoadFromRun(run.date)
      BY <1>11, <2>1 DEF LatestAnswered, RunIsSound, RunRecord, PageTypeOK
    <3> QED
      BY <1>11, <2>1, <3>1, RunLoadFacts, LoadFacts DEF LatestAnswered, LoadingIsTyped, PageTypeOK
  <2>2. CASE ~(mounted /\ run.date # Unset)
    BY <1>11, <2>2, NoRunFacts DEF LatestAnswered, LoadingIsTyped, PageTypeOK
  <2> QED
    BY <2>1, <2>2
<1>12. ASSUME HistoryAnswered PROVE LoadingIsTyped'
  <2>1. CASE mounted /\ run.result = run.date
    <3>1. run.date \in PageDates /\ LoadFromRun(run.date)
      BY <1>12, <2>1 DEF HistoryAnswered, RunIsSound, RunRecord, PageTypeOK
    <3> QED
      BY <1>12, <2>1, <3>1, RunLoadFacts, LoadFacts DEF HistoryAnswered, LoadingIsTyped, PageTypeOK
  <2>2. CASE ~(mounted /\ run.result = run.date)
    BY <1>12, <2>2, NoRunFacts DEF HistoryAnswered, LoadingIsTyped, PageTypeOK
  <2> QED
    BY <2>1, <2>2
<1>13. ASSUME NEW d \in PageDates, NEW publishes \in BOOLEAN, RunDone(d, publishes) PROVE LoadingIsTyped'
  BY <1>13, LoadFacts, RunLoadFacts DEF RunDone, LoadingIsTyped, PageTypeOK, RunIsSound
<1>14. CASE UNCHANGED pageVars
  BY <1>14 DEF pageVars, LoadingIsTyped, PageTypeOK, RunIsSound
<1> QED
  BY <1>1, <1>2, <1>3, <1>4, <1>5, <1>6, <1>7, <1>8, <1>9, <1>10, <1>11,
     <1>12, <1>13, <1>14
     DEF PageNext

\* No step breaks the dates of the screener page.
LEMMA KeepDatesAreTyped == ScreenerInv /\ [PageNext]_pageVars => DatesAreTyped'
<1> SUFFICES ASSUME ScreenerInv, [PageNext]_pageVars PROVE DatesAreTyped'
  OBVIOUS
<1> USE PageAssumption
<1> USE DEF ScreenerInv, NoLoad, Started, Idles
<1>1. ASSUME DateEffect PROVE DatesAreTyped'
  BY <1>1, LoadFacts, RunLoadFacts DEF DateEffect, DatesAreTyped, PageTypeOK, RunIsSound
<1>2. ASSUME BootstrapDone PROVE DatesAreTyped'
  BY <1>2, LoadFacts, RunLoadFacts, MaxIn DEF BootstrapDone, DatesAreTyped, PageTypeOK, RunIsSound
<1>3. ASSUME BootstrapFails PROVE DatesAreTyped'
  BY <1>3, LoadFacts, RunLoadFacts DEF BootstrapFails, DatesAreTyped, PageTypeOK,
           RunIsSound
<1>4. ASSUME Retry PROVE DatesAreTyped'
  BY <1>4, LoadFacts, RunLoadFacts DEF Retry, DatesAreTyped, PageTypeOK, RunIsSound,
           Rendered
<1>5. ASSUME Unmount PROVE DatesAreTyped'
  BY <1>5, LoadFacts, RunLoadFacts DEF Unmount, DatesAreTyped, PageTypeOK, RunIsSound
<1>6. ASSUME NEW l \in loads, NEW ok \in BOOLEAN, AnswerLoad(l, ok) PROVE DatesAreTyped'
  BY <1>6, LoadFacts, RunLoadFacts DEF AnswerLoad, DatesAreTyped, PageTypeOK, RunIsSound
<1>7. ASSUME NEW d \in PageDates \cup {Unset}, SelectDate(d) PROVE DatesAreTyped'
  BY <1>7, LoadFacts, RunLoadFacts DEF SelectDate, DatesAreTyped, PageTypeOK, RunIsSound
<1>8. ASSUME NEW kind \in {"normal", "reanalysis"}, Execute(kind) PROVE DatesAreTyped'
  BY <1>8, LoadFacts, RunLoadFacts DEF Execute, DatesAreTyped, PageTypeOK, RunIsSound
<1>9. ASSUME RunSkipped PROVE DatesAreTyped'
  BY <1>9, LoadFacts, RunLoadFacts DEF RunSkipped, DatesAreTyped, PageTypeOK, RunIsSound
<1>10. ASSUME RunFails PROVE DatesAreTyped'
  BY <1>10, LoadFacts, RunLoadFacts DEF RunFails, DatesAreTyped, PageTypeOK, RunIsSound
<1>11. ASSUME LatestAnswered PROVE DatesAreTyped'
  <2>1. CASE mounted /\ run.date # Unset
    <3>1. run.date \in PageDates /\ LoadFromRun(run.date)
      BY <1>11, <2>1 DEF LatestAnswered, RunIsSound, RunRecord, PageTypeOK
    <3> QED
      BY <1>11, <2>1, <3>1, RunLoadFacts, LoadFacts DEF LatestAnswered, DatesAreTyped, PageTypeOK, RunIsSound
  <2>2. CASE ~(mounted /\ run.date # Unset)
    BY <1>11, <2>2, NoRunFacts DEF LatestAnswered, DatesAreTyped, PageTypeOK, RunIsSound
  <2> QED
    BY <2>1, <2>2
<1>12. ASSUME HistoryAnswered PROVE DatesAreTyped'
  <2>1. CASE mounted /\ run.result = run.date
    <3>1. run.date \in PageDates /\ LoadFromRun(run.date)
      BY <1>12, <2>1 DEF HistoryAnswered, RunIsSound, RunRecord, PageTypeOK
    <3> QED
      BY <1>12, <2>1, <3>1, RunLoadFacts, LoadFacts DEF HistoryAnswered, DatesAreTyped, PageTypeOK, RunIsSound
  <2>2. CASE ~(mounted /\ run.result = run.date)
    BY <1>12, <2>2, NoRunFacts DEF HistoryAnswered, DatesAreTyped, PageTypeOK, RunIsSound
  <2> QED
    BY <2>1, <2>2
<1>13. ASSUME NEW d \in PageDates, NEW publishes \in BOOLEAN, RunDone(d, publishes) PROVE DatesAreTyped'
  BY <1>13, LoadFacts, RunLoadFacts DEF RunDone, DatesAreTyped, PageTypeOK, RunIsSound
<1>14. CASE UNCHANGED pageVars
  BY <1>14 DEF pageVars, DatesAreTyped, PageTypeOK, RunIsSound
<1> QED
  BY <1>1, <1>2, <1>3, <1>4, <1>5, <1>6, <1>7, <1>8, <1>9, <1>10, <1>11,
     <1>12, <1>13, <1>14
     DEF PageNext

\* No step breaks the records of the screener page.
LEMMA KeepRunIsSound == ScreenerInv /\ [PageNext]_pageVars => RunIsSound'
<1> SUFFICES ASSUME ScreenerInv, [PageNext]_pageVars PROVE RunIsSound'
  OBVIOUS
<1> USE PageAssumption
<1> USE DEF ScreenerInv, NoLoad, Started, Idles
<1>1. ASSUME DateEffect PROVE RunIsSound'
  BY <1>1, LoadFacts, RunLoadFacts DEF DateEffect, RunIsSound, RunRecord, NoRun, PageTypeOK
<1>2. ASSUME BootstrapDone PROVE RunIsSound'
  BY <1>2, LoadFacts, RunLoadFacts DEF BootstrapDone, RunIsSound, RunRecord, NoRun,
           PageTypeOK
<1>3. ASSUME BootstrapFails PROVE RunIsSound'
  BY <1>3, LoadFacts, RunLoadFacts DEF BootstrapFails, RunIsSound, RunRecord, NoRun,
           PageTypeOK
<1>4. ASSUME Retry PROVE RunIsSound'
  BY <1>4, LoadFacts, RunLoadFacts DEF Retry, RunIsSound, RunRecord, NoRun, PageTypeOK
<1>5. ASSUME Unmount PROVE RunIsSound'
  BY <1>5, LoadFacts, RunLoadFacts DEF Unmount, RunIsSound, RunRecord, NoRun, PageTypeOK
<1>6. ASSUME NEW l \in loads, NEW ok \in BOOLEAN, AnswerLoad(l, ok) PROVE RunIsSound'
  BY <1>6, LoadFacts, RunLoadFacts DEF AnswerLoad, RunIsSound, RunRecord, NoRun, PageTypeOK
<1>7. ASSUME NEW d \in PageDates \cup {Unset}, SelectDate(d) PROVE RunIsSound'
  BY <1>7, LoadFacts, RunLoadFacts DEF SelectDate, RunIsSound, RunRecord, NoRun, PageTypeOK
<1>8. ASSUME NEW kind \in {"normal", "reanalysis"}, Execute(kind) PROVE RunIsSound'
  BY <1>8, LoadFacts, RunLoadFacts DEF Execute, RunIsSound, RunRecord, NoRun, PageTypeOK
<1>9. ASSUME RunSkipped PROVE RunIsSound'
  BY <1>9, LoadFacts, RunLoadFacts DEF RunSkipped, RunIsSound, RunRecord, NoRun, PageTypeOK
<1>10. ASSUME RunFails PROVE RunIsSound'
  BY <1>10, LoadFacts, RunLoadFacts DEF RunFails, RunIsSound, RunRecord, NoRun, PageTypeOK
<1>11. ASSUME LatestAnswered PROVE RunIsSound'
  <2>1. CASE mounted /\ run.date # Unset
    <3>1. run.date \in PageDates /\ LoadFromRun(run.date)
      BY <1>11, <2>1 DEF LatestAnswered, RunIsSound, RunRecord, PageTypeOK
    <3> QED
      BY <1>11, <2>1, <3>1, RunLoadFacts, LoadFacts DEF LatestAnswered, RunIsSound
  <2>2. CASE ~(mounted /\ run.date # Unset)
    BY <1>11, <2>2, NoRunFacts DEF LatestAnswered, RunIsSound
  <2> QED
    BY <2>1, <2>2
<1>12. ASSUME HistoryAnswered PROVE RunIsSound'
  <2>1. CASE mounted /\ run.result = run.date
    <3>1. run.date \in PageDates /\ LoadFromRun(run.date)
      BY <1>12, <2>1 DEF HistoryAnswered, RunIsSound, RunRecord, PageTypeOK
    <3> QED
      BY <1>12, <2>1, <3>1, RunLoadFacts, LoadFacts DEF HistoryAnswered, RunIsSound
  <2>2. CASE ~(mounted /\ run.result = run.date)
    BY <1>12, <2>2, NoRunFacts DEF HistoryAnswered, RunIsSound
  <2> QED
    BY <2>1, <2>2
<1>13. ASSUME NEW d \in PageDates, NEW publishes \in BOOLEAN, RunDone(d, publishes) PROVE RunIsSound'
  BY <1>13, LoadFacts, RunLoadFacts DEF RunDone, RunIsSound, RunRecord, NoRun, PageTypeOK
<1>14. CASE UNCHANGED pageVars
  BY <1>14 DEF pageVars, RunIsSound, RunRecord, NoRun, PageTypeOK
<1> QED
  BY <1>1, <1>2, <1>3, <1>4, <1>5, <1>6, <1>7, <1>8, <1>9, <1>10, <1>11,
     <1>12, <1>13, <1>14
     DEF PageNext

\* No step breaks the order of selection and effect.
LEMMA KeepEffectFollows == ScreenerInv /\ [PageNext]_pageVars => EffectFollows'
<1> SUFFICES ASSUME ScreenerInv, [PageNext]_pageVars PROVE EffectFollows'
  OBVIOUS
<1> USE PageAssumption
<1> USE DEF ScreenerInv, NoLoad, Started, Idles
<1>1. ASSUME DateEffect PROVE EffectFollows'
  BY <1>1, LoadFacts, RunLoadFacts DEF DateEffect, EffectFollows, NoRun, RunIsSound,
           PageTypeOK
<1>2. ASSUME BootstrapDone PROVE EffectFollows'
  BY <1>2, LoadFacts, RunLoadFacts, MaxIn DEF BootstrapDone, EffectFollows, NoRun, RunIsSound,
           PageTypeOK
<1>3. ASSUME BootstrapFails PROVE EffectFollows'
  BY <1>3, LoadFacts, RunLoadFacts DEF BootstrapFails, EffectFollows, NoRun, RunIsSound,
           PageTypeOK
<1>4. ASSUME Retry PROVE EffectFollows'
  BY <1>4, LoadFacts, RunLoadFacts DEF Retry, EffectFollows, NoRun, RunIsSound, PageTypeOK,
           Rendered
<1>5. ASSUME Unmount PROVE EffectFollows'
  BY <1>5, LoadFacts, RunLoadFacts DEF Unmount, EffectFollows, NoRun, RunIsSound,
           PageTypeOK
<1>6. ASSUME NEW l \in loads, NEW ok \in BOOLEAN, AnswerLoad(l, ok) PROVE EffectFollows'
  BY <1>6, LoadFacts, RunLoadFacts DEF AnswerLoad, EffectFollows, NoRun, RunIsSound,
           PageTypeOK
<1>7. ASSUME NEW d \in PageDates \cup {Unset}, SelectDate(d) PROVE EffectFollows'
  BY <1>7, LoadFacts, RunLoadFacts DEF SelectDate, EffectFollows, NoRun, RunIsSound,
           PageTypeOK, Rendered
<1>8. ASSUME NEW kind \in {"normal", "reanalysis"}, Execute(kind) PROVE EffectFollows'
  BY <1>8, LoadFacts, RunLoadFacts DEF Execute, EffectFollows, NoRun, RunIsSound,
           PageTypeOK, Rendered
<1>9. ASSUME RunSkipped PROVE EffectFollows'
  BY <1>9, LoadFacts, RunLoadFacts DEF RunSkipped, EffectFollows, NoRun, RunIsSound,
           PageTypeOK
<1>10. ASSUME RunFails PROVE EffectFollows'
  BY <1>10, LoadFacts, RunLoadFacts DEF RunFails, EffectFollows, NoRun, RunIsSound,
           PageTypeOK
<1>11. ASSUME LatestAnswered PROVE EffectFollows'
  BY <1>11, LoadFacts, RunLoadFacts DEF LatestAnswered, EffectFollows, NoRun, RunIsSound,
           PageTypeOK
<1>12. ASSUME HistoryAnswered PROVE EffectFollows'
  <2>1. CASE mounted /\ run.result = run.date
    <3>1. run.date \in PageDates /\ LoadFromRun(run.date)
      BY <1>12, <2>1 DEF HistoryAnswered, RunIsSound, RunRecord, PageTypeOK
    <3> QED
      BY <1>12, <2>1, <3>1, RunLoadFacts, LoadFacts DEF HistoryAnswered, EffectFollows, RunIsSound, Unset
  <2>2. CASE ~(mounted /\ run.result = run.date)
    BY <1>12, <2>2, NoRunFacts DEF HistoryAnswered, EffectFollows, RunIsSound, Unset
  <2> QED
    BY <2>1, <2>2
<1>13. ASSUME NEW d \in PageDates, NEW publishes \in BOOLEAN, RunDone(d, publishes) PROVE EffectFollows'
  BY <1>13, LoadFacts, RunLoadFacts DEF RunDone, EffectFollows, NoRun, RunIsSound,
           PageTypeOK
<1>14. CASE UNCHANGED pageVars
  BY <1>14 DEF pageVars, EffectFollows, NoRun, RunIsSound,
           PageTypeOK
<1> QED
  BY <1>1, <1>2, <1>3, <1>4, <1>5, <1>6, <1>7, <1>8, <1>9, <1>10, <1>11,
     <1>12, <1>13, <1>14
     DEF PageNext

\* No step breaks the date of the current request.
LEMMA KeepCurrentIsSelected == ScreenerInv /\ [PageNext]_pageVars => CurrentIsSelected'
<1> SUFFICES ASSUME ScreenerInv, [PageNext]_pageVars PROVE CurrentIsSelected'
  OBVIOUS
<1> USE PageAssumption
<1> USE DEF ScreenerInv, NoLoad, Started, Idles
<1>1. ASSUME DateEffect PROVE CurrentIsSelected'
  BY <1>1, LoadFacts, RunLoadFacts DEF DateEffect, CurrentIsSelected, PageTypeOK
<1>2. ASSUME BootstrapDone PROVE CurrentIsSelected'
  BY <1>2, LoadFacts, RunLoadFacts DEF BootstrapDone, CurrentIsSelected, PageTypeOK,
           EffectFollows
<1>3. ASSUME BootstrapFails PROVE CurrentIsSelected'
  BY <1>3, LoadFacts, RunLoadFacts DEF BootstrapFails, CurrentIsSelected, PageTypeOK
<1>4. ASSUME Retry PROVE CurrentIsSelected'
  BY <1>4, LoadFacts, RunLoadFacts DEF Retry, CurrentIsSelected, PageTypeOK, Rendered
<1>5. ASSUME Unmount PROVE CurrentIsSelected'
  BY <1>5, LoadFacts, RunLoadFacts DEF Unmount, CurrentIsSelected, PageTypeOK
<1>6. ASSUME NEW l \in loads, NEW ok \in BOOLEAN, AnswerLoad(l, ok) PROVE CurrentIsSelected'
  BY <1>6, LoadFacts, RunLoadFacts DEF AnswerLoad, CurrentIsSelected, PageTypeOK
<1>7. ASSUME NEW d \in PageDates \cup {Unset}, SelectDate(d) PROVE CurrentIsSelected'
  BY <1>7, LoadFacts, RunLoadFacts DEF SelectDate, CurrentIsSelected, PageTypeOK
<1>8. ASSUME NEW kind \in {"normal", "reanalysis"}, Execute(kind) PROVE CurrentIsSelected'
  BY <1>8, LoadFacts, RunLoadFacts DEF Execute, CurrentIsSelected, PageTypeOK
<1>9. ASSUME RunSkipped PROVE CurrentIsSelected'
  BY <1>9, LoadFacts, RunLoadFacts DEF RunSkipped, CurrentIsSelected, PageTypeOK
<1>10. ASSUME RunFails PROVE CurrentIsSelected'
  BY <1>10, LoadFacts, RunLoadFacts DEF RunFails, CurrentIsSelected, PageTypeOK
<1>11. ASSUME LatestAnswered PROVE CurrentIsSelected'
  BY <1>11, LoadFacts, RunLoadFacts DEF LatestAnswered, CurrentIsSelected, PageTypeOK
<1>12. ASSUME HistoryAnswered PROVE CurrentIsSelected'
  BY <1>12, LoadFacts, RunLoadFacts DEF HistoryAnswered, CurrentIsSelected, PageTypeOK,
           EffectFollows, RunIsSound
<1>13. ASSUME NEW d \in PageDates, NEW publishes \in BOOLEAN, RunDone(d, publishes) PROVE CurrentIsSelected'
  BY <1>13, LoadFacts, RunLoadFacts DEF RunDone, CurrentIsSelected, PageTypeOK
<1>14. CASE UNCHANGED pageVars
  BY <1>14 DEF pageVars, CurrentIsSelected, PageTypeOK
<1> QED
  BY <1>1, <1>2, <1>3, <1>4, <1>5, <1>6, <1>7, <1>8, <1>9, <1>10, <1>11,
     <1>12, <1>13, <1>14
     DEF PageNext

\* No step breaks the owner of the loading view.
LEMMA KeepLoadingIsOwned == ScreenerInv /\ [PageNext]_pageVars => LoadingIsOwned'
<1> SUFFICES ASSUME ScreenerInv, [PageNext]_pageVars PROVE LoadingIsOwned'
  OBVIOUS
<1> USE PageAssumption
<1> USE DEF ScreenerInv, NoLoad, Started, Idles
<1>1. ASSUME DateEffect PROVE LoadingIsOwned'
  BY <1>1, LoadFacts, RunLoadFacts DEF DateEffect, LoadingIsOwned, CurrentLoad,
           EffectFollows, PageTypeOK
<1>2. ASSUME BootstrapDone PROVE LoadingIsOwned'
  BY <1>2, LoadFacts, RunLoadFacts DEF BootstrapDone, LoadingIsOwned, CurrentLoad,
           EffectFollows, PageTypeOK
<1>3. ASSUME BootstrapFails PROVE LoadingIsOwned'
  BY <1>3, LoadFacts, RunLoadFacts DEF BootstrapFails, LoadingIsOwned, CurrentLoad,
           EffectFollows, PageTypeOK
<1>4. ASSUME Retry PROVE LoadingIsOwned'
  BY <1>4, LoadFacts, RunLoadFacts DEF Retry, LoadingIsOwned, CurrentLoad, EffectFollows,
           PageTypeOK, Rendered
<1>5. ASSUME Unmount PROVE LoadingIsOwned'
  BY <1>5, LoadFacts, RunLoadFacts DEF Unmount, LoadingIsOwned, CurrentLoad, EffectFollows,
           PageTypeOK
<1>6. ASSUME NEW l \in loads, NEW ok \in BOOLEAN, AnswerLoad(l, ok) PROVE LoadingIsOwned'
  BY <1>6, LoadFacts, RunLoadFacts DEF AnswerLoad, LoadingIsOwned, CurrentLoad,
           EffectFollows, PageTypeOK
<1>7. ASSUME NEW d \in PageDates \cup {Unset}, SelectDate(d) PROVE LoadingIsOwned'
  BY <1>7, LoadFacts, RunLoadFacts DEF SelectDate, LoadingIsOwned, CurrentLoad,
           EffectFollows, PageTypeOK
<1>8. ASSUME NEW kind \in {"normal", "reanalysis"}, Execute(kind) PROVE LoadingIsOwned'
  BY <1>8, LoadFacts, RunLoadFacts DEF Execute, LoadingIsOwned, CurrentLoad, EffectFollows,
           PageTypeOK
<1>9. ASSUME RunSkipped PROVE LoadingIsOwned'
  BY <1>9, LoadFacts, RunLoadFacts DEF RunSkipped, LoadingIsOwned, CurrentLoad,
           EffectFollows, PageTypeOK
<1>10. ASSUME RunFails PROVE LoadingIsOwned'
  BY <1>10, LoadFacts, RunLoadFacts DEF RunFails, LoadingIsOwned, CurrentLoad,
           EffectFollows, PageTypeOK
<1>11. ASSUME LatestAnswered PROVE LoadingIsOwned'
  BY <1>11, LoadFacts, RunLoadFacts DEF LatestAnswered, LoadingIsOwned, CurrentLoad,
           EffectFollows, PageTypeOK
<1>12. ASSUME HistoryAnswered PROVE LoadingIsOwned'
  BY <1>12, LoadFacts, RunLoadFacts DEF HistoryAnswered, LoadingIsOwned, CurrentLoad,
           EffectFollows, PageTypeOK, RunIsSound
<1>13. ASSUME NEW d \in PageDates, NEW publishes \in BOOLEAN, RunDone(d, publishes) PROVE LoadingIsOwned'
  BY <1>13, LoadFacts, RunLoadFacts DEF RunDone, LoadingIsOwned, CurrentLoad, EffectFollows,
           PageTypeOK
<1>14. CASE UNCHANGED pageVars
  BY <1>14 DEF pageVars, LoadingIsOwned, CurrentLoad,
           EffectFollows, PageTypeOK
<1> QED
  BY <1>1, <1>2, <1>3, <1>4, <1>5, <1>6, <1>7, <1>8, <1>9, <1>10, <1>11,
     <1>12, <1>13, <1>14
     DEF PageNext

\* No step breaks what is shown.
LEMMA KeepShownIsSelected == ScreenerInv /\ [PageNext]_pageVars => ShownIsSelected'
<1> SUFFICES ASSUME ScreenerInv, [PageNext]_pageVars PROVE ShownIsSelected'
  OBVIOUS
<1> USE PageAssumption
<1> USE DEF ScreenerInv, NoLoad, Started, Idles
<1>1. ASSUME DateEffect PROVE ShownIsSelected'
  BY <1>1, LoadFacts, RunLoadFacts DEF DateEffect, ShownIsSelected, CurrentLoad,
           LoadingIsOwned, PageTypeOK
<1>2. ASSUME BootstrapDone PROVE ShownIsSelected'
  BY <1>2, LoadFacts, RunLoadFacts DEF BootstrapDone, ShownIsSelected, CurrentLoad,
           LoadingIsOwned, PageTypeOK, EffectFollows
<1>3. ASSUME BootstrapFails PROVE ShownIsSelected'
  BY <1>3, LoadFacts, RunLoadFacts DEF BootstrapFails, ShownIsSelected, CurrentLoad,
           LoadingIsOwned, PageTypeOK
<1>4. ASSUME Retry PROVE ShownIsSelected'
  BY <1>4, LoadFacts, RunLoadFacts DEF Retry, ShownIsSelected, CurrentLoad, LoadingIsOwned,
           PageTypeOK, Rendered
<1>5. ASSUME Unmount PROVE ShownIsSelected'
  BY <1>5, LoadFacts, RunLoadFacts DEF Unmount, ShownIsSelected, CurrentLoad,
           LoadingIsOwned, PageTypeOK
<1>6. ASSUME NEW l \in loads, NEW ok \in BOOLEAN, AnswerLoad(l, ok) PROVE ShownIsSelected'
  BY <1>6, LoadFacts, RunLoadFacts DEF AnswerLoad, ShownIsSelected, CurrentLoad,
           LoadingIsOwned, PageTypeOK, CurrentIsSelected
<1>7. ASSUME NEW d \in PageDates \cup {Unset}, SelectDate(d) PROVE ShownIsSelected'
  BY <1>7, LoadFacts, RunLoadFacts DEF SelectDate, ShownIsSelected, CurrentLoad,
           LoadingIsOwned, PageTypeOK
<1>8. ASSUME NEW kind \in {"normal", "reanalysis"}, Execute(kind) PROVE ShownIsSelected'
  BY <1>8, LoadFacts, RunLoadFacts DEF Execute, ShownIsSelected, CurrentLoad,
           LoadingIsOwned, PageTypeOK
<1>9. ASSUME RunSkipped PROVE ShownIsSelected'
  BY <1>9, LoadFacts, RunLoadFacts DEF RunSkipped, ShownIsSelected, CurrentLoad,
           LoadingIsOwned, PageTypeOK
<1>10. ASSUME RunFails PROVE ShownIsSelected'
  BY <1>10, LoadFacts, RunLoadFacts DEF RunFails, ShownIsSelected, CurrentLoad,
           LoadingIsOwned, PageTypeOK
<1>11. ASSUME LatestAnswered PROVE ShownIsSelected'
  BY <1>11, LoadFacts, RunLoadFacts DEF LatestAnswered, ShownIsSelected, CurrentLoad,
           LoadingIsOwned, PageTypeOK
<1>12. ASSUME HistoryAnswered PROVE ShownIsSelected'
  BY <1>12, LoadFacts, RunLoadFacts DEF HistoryAnswered, ShownIsSelected, CurrentLoad,
           LoadingIsOwned, PageTypeOK, EffectFollows,
           RunIsSound
<1>13. ASSUME NEW d \in PageDates, NEW publishes \in BOOLEAN, RunDone(d, publishes) PROVE ShownIsSelected'
  BY <1>13, LoadFacts, RunLoadFacts DEF RunDone, ShownIsSelected, CurrentLoad,
           LoadingIsOwned, PageTypeOK
<1>14. CASE UNCHANGED pageVars
  BY <1>14 DEF pageVars, ShownIsSelected, CurrentLoad,
           LoadingIsOwned, PageTypeOK
<1> QED
  BY <1>1, <1>2, <1>3, <1>4, <1>5, <1>6, <1>7, <1>8, <1>9, <1>10, <1>11,
     <1>12, <1>13, <1>14
     DEF PageNext

\* No step breaks the request a run waits for.
LEMMA KeepRunIsWaiting == ScreenerInv /\ [PageNext]_pageVars => RunIsWaiting'
<1> SUFFICES ASSUME ScreenerInv, [PageNext]_pageVars PROVE RunIsWaiting'
  OBVIOUS
<1> USE PageAssumption
<1> USE DEF ScreenerInv, NoLoad, Started, Idles
<1>1. ASSUME DateEffect PROVE RunIsWaiting'
  BY <1>1, LoadFacts, RunLoadFacts DEF DateEffect, RunIsWaiting, NoRun, PageTypeOK
<1>2. ASSUME BootstrapDone PROVE RunIsWaiting'
  BY <1>2, LoadFacts, RunLoadFacts DEF BootstrapDone, RunIsWaiting, NoRun, PageTypeOK
<1>3. ASSUME BootstrapFails PROVE RunIsWaiting'
  BY <1>3, LoadFacts, RunLoadFacts DEF BootstrapFails, RunIsWaiting, NoRun, PageTypeOK
<1>4. ASSUME Retry PROVE RunIsWaiting'
  BY <1>4, LoadFacts, RunLoadFacts DEF Retry, RunIsWaiting, NoRun, PageTypeOK, Rendered
<1>5. ASSUME Unmount PROVE RunIsWaiting'
  BY <1>5, LoadFacts, RunLoadFacts DEF Unmount, RunIsWaiting, NoRun, PageTypeOK
<1>6. ASSUME NEW l \in loads, NEW ok \in BOOLEAN, AnswerLoad(l, ok) PROVE RunIsWaiting'
  BY <1>6, LoadFacts, RunLoadFacts DEF AnswerLoad, RunIsWaiting, NoRun, PageTypeOK
<1>7. ASSUME NEW d \in PageDates \cup {Unset}, SelectDate(d) PROVE RunIsWaiting'
  BY <1>7, LoadFacts, RunLoadFacts DEF SelectDate, RunIsWaiting, NoRun, PageTypeOK
<1>8. ASSUME NEW kind \in {"normal", "reanalysis"}, Execute(kind) PROVE RunIsWaiting'
  BY <1>8, LoadFacts, RunLoadFacts DEF Execute, RunIsWaiting, NoRun, PageTypeOK
<1>9. ASSUME RunSkipped PROVE RunIsWaiting'
  BY <1>9, LoadFacts, RunLoadFacts DEF RunSkipped, RunIsWaiting, NoRun, PageTypeOK
<1>10. ASSUME RunFails PROVE RunIsWaiting'
  BY <1>10, LoadFacts, RunLoadFacts DEF RunFails, RunIsWaiting, NoRun, PageTypeOK
<1>11. ASSUME LatestAnswered PROVE RunIsWaiting'
  <2>1. CASE mounted /\ run.date # Unset
    <3>1. run.date \in PageDates /\ LoadFromRun(run.date)
      BY <1>11, <2>1 DEF LatestAnswered, RunIsSound, RunRecord, PageTypeOK
    <3> QED
      BY <1>11, <2>1, <3>1, RunLoadFacts, LoadFacts DEF LatestAnswered, RunIsWaiting
  <2>2. CASE ~(mounted /\ run.date # Unset)
    BY <1>11, <2>2, NoRunFacts DEF LatestAnswered, RunIsWaiting
  <2> QED
    BY <2>1, <2>2
<1>12. ASSUME HistoryAnswered PROVE RunIsWaiting'
  <2>1. CASE mounted /\ run.result = run.date
    <3>1. run.date \in PageDates /\ LoadFromRun(run.date)
      BY <1>12, <2>1 DEF HistoryAnswered, RunIsSound, RunRecord, PageTypeOK
    <3> QED
      BY <1>12, <2>1, <3>1, RunLoadFacts, LoadFacts DEF HistoryAnswered, RunIsWaiting
  <2>2. CASE ~(mounted /\ run.result = run.date)
    BY <1>12, <2>2, NoRunFacts DEF HistoryAnswered, RunIsWaiting
  <2> QED
    BY <2>1, <2>2
<1>13. ASSUME NEW d \in PageDates, NEW publishes \in BOOLEAN, RunDone(d, publishes) PROVE RunIsWaiting'
  BY <1>13, LoadFacts, RunLoadFacts DEF RunDone, RunIsWaiting, NoRun, PageTypeOK
<1>14. CASE UNCHANGED pageVars
  BY <1>14 DEF pageVars, RunIsWaiting, NoRun, PageTypeOK
<1> QED
  BY <1>1, <1>2, <1>3, <1>4, <1>5, <1>6, <1>7, <1>8, <1>9, <1>10, <1>11,
     <1>12, <1>13, <1>14
     DEF PageNext

\* No step breaks the types of the screener page.
LEMMA ScreenerTypeStep == ScreenerInv /\ [PageNext]_pageVars => PageTypeOK'
<1> SUFFICES ASSUME ScreenerInv, [PageNext]_pageVars PROVE PageTypeOK'
  OBVIOUS
<1>1. CountersAreTyped' /\ LoadingIsTyped' /\ DatesAreTyped' /\ RunIsSound'
  BY KeepCountersAreTyped, KeepLoadingIsTyped, KeepDatesAreTyped, KeepRunIsSound
<1>2. mounted' \in BOOLEAN
  <2>1. mounted' = mounted \/ mounted' = FALSE
    BY DEF PageNext, DateEffect, BootstrapDone, BootstrapFails,
           Retry, Unmount, AnswerLoad, SelectDate, Execute,
           RunSkipped, RunFails, LatestAnswered,
           HistoryAnswered, RunDone, NoLoad, Started, Idles,
           pageVars, LoadFromRun
  <2> QED
    BY <2>1, Zenon DEF ScreenerInv, PageTypeOK
<1>3. stray' \in BOOLEAN
  <2>1. stray' = stray \/ stray' = (stray \/ run.date # date)
    BY DEF PageNext, DateEffect, BootstrapDone, BootstrapFails,
           Retry, Unmount, AnswerLoad, SelectDate, Execute,
           RunSkipped, RunFails, LatestAnswered,
           HistoryAnswered, RunDone, NoLoad, Started, Idles,
           pageVars, LoadFromRun
  <2> QED
    BY <2>1, Zenon DEF ScreenerInv, PageTypeOK
<1>4. rebooted' \in BOOLEAN
  <2>1. rebooted' = rebooted \/ rebooted' = (rebooted \/ date # Unset)
    BY DEF PageNext, DateEffect, BootstrapDone, BootstrapFails,
           Retry, Unmount, AnswerLoad, SelectDate, Execute,
           RunSkipped, RunFails, LatestAnswered,
           HistoryAnswered, RunDone, NoLoad, Started, Idles,
           pageVars, LoadFromRun
  <2> QED
    BY <2>1, Zenon DEF ScreenerInv, PageTypeOK
<1> QED
  BY <1>1, <1>2, <1>3, <1>4 DEF PageTypeOK, CountersAreTyped, LoadingIsTyped,
     DatesAreTyped, RunIsSound, RunRecord

\* The page opens in the invariant.
LEMMA ScreenerInitially == PageInit => ScreenerInv
<1> SUFFICES ASSUME PageInit PROVE ScreenerInv
  OBVIOUS
<1>1. RunIsSound /\ EffectFollows /\ CurrentIsSelected /\ LoadingIsOwned /\ ShownIsSelected /\ RunIsWaiting
  BY NoRunFacts DEF PageInit, RunIsSound, EffectFollows, CurrentIsSelected, LoadingIsOwned,
     ShownIsSelected, RunIsWaiting
<1>2. {loading, mounted, stray, rebooted} \subseteq BOOLEAN
  BY DEF PageInit
<1> QED
  BY <1>1, <1>2, NoRunFacts, PageAssumption DEF PageInit, PageTypeOK, ScreenerInv, RunIsSound, RunRecord

\* The invariant of the screener page holds of every behaviour.
LEMMA ScreenerInvariant == PageInit /\ [][PageNext]_pageVars => []ScreenerInv
<1>1. ScreenerInv /\ [PageNext]_pageVars => ScreenerInv'
  BY ScreenerTypeStep, KeepRunIsSound, KeepEffectFollows, KeepCurrentIsSelected, KeepLoadingIsOwned,
     KeepShownIsSelected, KeepRunIsWaiting DEF ScreenerInv
<1> QED
  BY <1>1, ScreenerInitially, PTL

\* On the screener page, whatever order the answers of overlapping loadDate()
\* calls arrive in, the items shown are those of the selected date; a loading
\* view has a request that will take it off; a run that blocks the buttons
\* waits for an answer.
THEOREM ScreenerPageIsRight ==
  PageInit /\ [][PageNext]_pageVars =>
    [](PageTypeOK /\ ShownIsSelected /\ LoadingHasAnOwner /\ RunIsWaiting)
<1>1. ScreenerInv => PageTypeOK /\ ShownIsSelected /\ LoadingHasAnOwner /\ RunIsWaiting
  BY DEF ScreenerInv, LoadingIsOwned, LoadingHasAnOwner
<1> QED
  BY <1>1, ScreenerInvariant, PTL

-----------------------------------------------------------------------------
(***************************************************************************)
(* The analysis page.                                                      *)
(***************************************************************************)

\* The current query is for the symbol on display.
CurrentIsForSymbol ==
  /\ queries \subseteq [id: Nat, symbol: PageSymbols]
  /\ \A q \in queries : q.id = ticket => q.symbol = symbol

ChartInv == AnalysisTypeOK /\ CurrentIsForSymbol /\ AnalysisIsForSymbol /\ SpinnerIsOwned

\* load() makes its query the current one.
LEMMA QueryFacts ==
  ASSUME ChartInv
  PROVE  \A s \in PageSymbols, silent \in BOOLEAN, skip \in {0, 1} : Load(s, silent, skip) =>
           /\ ticket' \in Nat /\ ticket < ticket'
           /\ queries' \subseteq [id: Nat, symbol: PageSymbols]
           /\ \A q \in queries' : q.id \in 1..ticket' /\ q.symbol \in PageSymbols
           /\ \A q \in queries' : q.id = ticket' => q.symbol = s
           /\ \E q \in queries' : q.id = ticket'
           /\ refreshing' \in BOOLEAN /\ busy' \in BOOLEAN /\ problem' = FALSE
<1> SUFFICES ASSUME NEW s \in PageSymbols, NEW silent \in BOOLEAN, NEW skip \in {0, 1},
                    Load(s, silent, skip)
             PROVE  /\ ticket' \in Nat /\ ticket < ticket'
                    /\ queries' \subseteq [id: Nat, symbol: PageSymbols]
                    /\ \A q \in queries' : q.id \in 1..ticket' /\ q.symbol \in PageSymbols
                    /\ \A q \in queries' : q.id = ticket' => q.symbol = s
                    /\ \E q \in queries' : q.id = ticket'
                    /\ refreshing' \in BOOLEAN /\ busy' \in BOOLEAN /\ problem' = FALSE
  OBVIOUS
<1> DEFINE new == [id |-> ticket + skip + 1, symbol |-> s]
<1>1. /\ ticket \in Nat /\ queries \subseteq [id: Nat, symbol: PageSymbols]
      /\ \A q \in queries : q.id \in 1..ticket /\ q.symbol \in PageSymbols
  BY DEF ChartInv, AnalysisTypeOK, CurrentIsForSymbol
<1>2. new \in [id: Nat, symbol: PageSymbols] /\ new.id = ticket + skip + 1 /\ new.symbol = s
  BY <1>1
<1>3. queries' = queries \cup {new} /\ ticket' = ticket + skip + 1
  BY DEF Load
<1>4. refreshing' \in BOOLEAN /\ busy' \in BOOLEAN /\ problem' = FALSE
  BY Zenon DEF Load
<1> HIDE DEF new
<1>5. ticket + skip + 1 \in Nat /\ ticket < ticket + skip + 1
  BY <1>1
<1> QED
  BY <1>1, <1>2, <1>3, <1>4, <1>5

\* No step of the analysis page breaks its invariant.
LEMMA ChartInductive == ChartInv /\ [AnalysisNext]_analysisVars => ChartInv'
<1> SUFFICES ASSUME ChartInv, [AnalysisNext]_analysisVars PROVE ChartInv'
  OBVIOUS
<1> USE AnalysisAssumption DEF ChartInv
<1>0. /\ symbol \in PageSymbols \cup {NoSymbol} /\ data \in PageSymbols \cup {NoSymbol}
      /\ open \in BOOLEAN /\ busy \in BOOLEAN /\ refreshing \in BOOLEAN /\ problem \in BOOLEAN
      /\ ticket \in Nat
  BY DEF AnalysisTypeOK
<1>1. ASSUME NEW s \in PageSymbols, Submit(s) PROVE ChartInv'
  <2>1. PICK skip \in {0, 1} : Load(s, FALSE, skip)
    BY <1>1 DEF Submit
  <2>2. symbol' = s /\ data' \in {data, NoSymbol} /\ open' = open /\ (s # symbol => data' = NoSymbol)
    BY <1>1 DEF Submit
  <2>3. AnalysisTypeOK'
    BY <1>0, <2>1, <2>2, QueryFacts DEF AnalysisTypeOK
  <2>4. CurrentIsForSymbol' /\ AnalysisIsForSymbol' /\ SpinnerIsOwned'
    BY <2>1, <2>2, QueryFacts DEF CurrentIsForSymbol, AnalysisIsForSymbol, SpinnerIsOwned
  <2> QED
    BY <2>3, <2>4
<1>2. ASSUME SubmitInvalid PROVE ChartInv'
  <2>1. problem' \in BOOLEAN /\ UNCHANGED <<symbol, data, busy, refreshing, ticket, queries, open>>
    BY <1>2 DEF SubmitInvalid
  <2>2. AnalysisTypeOK'
    BY <1>0, <2>1 DEF AnalysisTypeOK
  <2> QED
    BY <2>1, <2>2 DEF CurrentIsForSymbol, AnalysisIsForSymbol, SpinnerIsOwned
<1>3. ASSUME RetryAnalysis \/ Tick PROVE ChartInv'
  <2>1. /\ symbol \in PageSymbols /\ UNCHANGED <<symbol, data, open>>
        /\ \E silent \in BOOLEAN : Load(symbol, silent, 0)
    BY <1>0, <1>3 DEF RetryAnalysis, Tick
  <2>2. AnalysisTypeOK'
    BY <1>0, <2>1, QueryFacts DEF AnalysisTypeOK
  <2>3. CurrentIsForSymbol' /\ AnalysisIsForSymbol' /\ SpinnerIsOwned'
    BY <2>1, QueryFacts DEF CurrentIsForSymbol, AnalysisIsForSymbol, SpinnerIsOwned
  <2> QED
    BY <2>2, <2>3
<1>4. ASSUME ClosePage PROVE ChartInv'
  <2>1. /\ open' = FALSE /\ ticket' = ticket + 1
        /\ UNCHANGED <<symbol, data, busy, refreshing, problem, queries>>
    BY <1>4 DEF ClosePage
  <2>2. AnalysisTypeOK'
    <3>1. open' \in BOOLEAN
      BY <2>1
    <3>2. ticket' \in Nat /\ \A q \in queries : q.id \in 1..ticket'
      BY <1>0, <2>1 DEF AnalysisTypeOK
    <3> QED
      BY <1>0, <2>1, <3>1, <3>2 DEF AnalysisTypeOK
  <2>3. CurrentIsForSymbol' /\ AnalysisIsForSymbol' /\ SpinnerIsOwned'
    BY <1>0, <2>1 DEF AnalysisTypeOK, CurrentIsForSymbol, AnalysisIsForSymbol, SpinnerIsOwned
  <2> QED
    BY <2>2, <2>3
<1>5. ASSUME NEW q \in queries, NEW ok \in BOOLEAN, AnswerQuery(q, ok) PROVE ChartInv'
  <2>1. queries' = queries \ {q} /\ UNCHANGED <<symbol, ticket, open>>
    BY <1>5 DEF AnswerQuery
  <2>2. /\ data' = data \/ (q.id = ticket /\ data' = q.symbol)
        /\ busy' = busy \/ busy' = FALSE
        /\ refreshing' = refreshing \/ refreshing' = FALSE
        /\ q.id = ticket => ~busy' /\ ~refreshing'
        /\ q.id # ticket => busy' = busy /\ refreshing' = refreshing
    BY <1>5 DEF AnswerQuery
  <2>3. problem' \in BOOLEAN
    <3>1. problem' = problem \/ problem' = (problem \/ ~ok)
      BY <1>5 DEF AnswerQuery
    <3> QED
      BY <1>0, <3>1, Zenon
  <2>4. busy' \in BOOLEAN /\ refreshing' \in BOOLEAN
    BY <1>0, <2>2, Zenon
  <2>5. AnalysisTypeOK'
    BY <1>0, <2>1, <2>2, <2>3, <2>4 DEF AnalysisTypeOK
  <2>6. CurrentIsForSymbol' /\ AnalysisIsForSymbol' /\ SpinnerIsOwned'
    BY <2>1, <2>2 DEF CurrentIsForSymbol, AnalysisIsForSymbol, SpinnerIsOwned
  <2> QED
    BY <2>5, <2>6
<1>6. CASE UNCHANGED analysisVars
  BY <1>6 DEF analysisVars, AnalysisTypeOK, CurrentIsForSymbol, AnalysisIsForSymbol, SpinnerIsOwned
<1> QED
  BY <1>1, <1>2, <1>3, <1>4, <1>5, <1>6 DEF AnalysisNext

\* On the analysis page a chart is never shown under another symbol's name,
\* and a spinner belongs to the newest request, however submissions, retries,
\* ticks of the timer and late answers interleave.
THEOREM AnalysisPageIsRight ==
  AnalysisInit /\ [][AnalysisNext]_analysisVars =>
    [](AnalysisTypeOK /\ AnalysisIsForSymbol /\ SpinnerIsOwned)
<1>1. AnalysisInit => ChartInv
  <2> SUFFICES ASSUME AnalysisInit PROVE ChartInv
    OBVIOUS
  <2>1. {busy, refreshing, problem, open} \subseteq BOOLEAN
    BY DEF AnalysisInit
  <2> QED
    BY <2>1 DEF AnalysisInit, ChartInv, AnalysisTypeOK, CurrentIsForSymbol, AnalysisIsForSymbol, SpinnerIsOwned
<1>2. ChartInv => AnalysisTypeOK /\ AnalysisIsForSymbol /\ SpinnerIsOwned
  BY DEF ChartInv
<1> QED
  BY <1>1, <1>2, ChartInductive, PTL

-----------------------------------------------------------------------------
(***************************************************************************)
(* The watchlist page.                                                     *)
(***************************************************************************)

VisitRecord == [id: Nat, date: ListRequests, stage: {"history", "legacy", "told", "items"},
                dates: SUBSET ListDates]

\* What latest() would answer now.
Current == IF executed THEN Newest(successes) ELSE Newest(LegacyDates)

\* A date told earlier in the last load against one told later.
NotNewer(told, now) ==
  /\ "withdrawal" \notin since => now >= told
  /\ since = {} => now = told

\* The label, once the router and the effect are done with it, given the list
\* below it.
Labelled(now) ==
  pushing \in {Nowhere, requestedDate} /\ effectUrl = requestedDate /\ ~dropped =>
    IF requestedDate # Undated THEN selectedDate = requestedDate ELSE NotNewer(selectedDate, now)

\* How far the only load has come.
Underway(v) ==
  /\ v.date = effectUrl
  /\ v.stage = "legacy" /\ executed => "withdrawal" \in since
  /\ v.stage = "told" /\ v.date = Undated => NotNewer(Newest(v.dates), Current)
  /\ v.stage = "items" => Labelled(Current)

\* Without overlap there is one load at most, and what has come of it.
OneVisit ==
  ~overlapped =>
    /\ \A v, w \in visits : v = w
    /\ visits # {} => status = "loading"
    /\ \A v \in visits : Underway(v)
    /\ status \in {"ready", "empty"} =>
         Labelled(listed) /\ (effectUrl # Undated => listed = effectUrl)

VisitInv ==
  /\ ListTypeOK
  /\ visits \subseteq VisitRecord
  /\ successes # {} => executed
  /\ OneVisit
  /\ ListSettles

\* What the invariant says of the page.
LEMMA VisitKept == VisitInv => ListTypeOK /\ ListMatchesDate /\ ListSettles
  BY DEF VisitInv, OneVisit, Labelled, NotNewer, ListMatchesDate

\* The newest of some dates is one of them, or none; with more dates it is not
\* an older one.
LEMMA NewestFacts ==
  /\ \A S \in SUBSET ListDates : Newest(S) \in ListRequests
  /\ \A S, T \in SUBSET ListDates : S \subseteq T => Newest(T) >= Newest(S)
  /\ ListRequests \subseteq Nat /\ Newest({}) = Undated
<1>1. \A S \in SUBSET ListDates : S # {} => Max(S) \in S /\ \A y \in S : Max(S) >= y
  <2> SUFFICES ASSUME NEW S \in SUBSET ListDates, S # {} PROVE Max(S) \in S /\ \A y \in S : Max(S) >= y
    OBVIOUS
  <2>1. S \subseteq Nat /\ IsFiniteSet(S)
    BY ListAssumption, FS_Subset
  <2> QED
    BY <2>1, HighestOf
<1>2. ListDates \subseteq Nat \ {0}
  BY ListAssumption
<1>3. ListRequests \subseteq Nat
  BY <1>2 DEF ListRequests, Undated
<1>4. \A S \in SUBSET ListDates : Newest(S) = IF S = {} THEN 0 ELSE Max(S)
  BY DEF Newest, Undated
<1>5. \A S \in SUBSET ListDates : Newest(S) \in ListRequests
  BY <1>1, <1>4 DEF ListRequests, Undated
<1>6. ASSUME NEW S \in SUBSET ListDates, NEW T \in SUBSET ListDates, S \subseteq T
      PROVE  Newest(T) >= Newest(S)
  <2>1. CASE S = {}
    <3>1. Newest(S) = 0 /\ Newest(T) \in Nat
      BY <1>3, <1>4, <1>5, <2>1
    <3> QED
      BY <3>1
  <2>2. CASE S # {}
    <3>1. Newest(S) \in T /\ Newest(T) = Max(T) /\ T # {}
      BY <1>1, <1>4, <1>6, <2>2
    <3> QED
      BY <1>1, <3>1
  <2> QED
    BY <2>1, <2>2
<1>7. Newest({}) = Undated
  BY DEF Newest
<1> QED
  BY <1>3, <1>5, <1>6, <1>7

\* A load that begins.
LEMMA VisitFacts ==
  ASSUME VisitInv
  PROVE  \A d \in ListRequests : Visit(d) =>
           /\ visitCount' \in 1..MaxVisits /\ overlapped' \in BOOLEAN /\ dropped' \in BOOLEAN
           /\ since' \subseteq {"withdrawal", "publication"}
           /\ status' = "loading" /\ visits' \subseteq VisitRecord /\ visits' # {}
           /\ UNCHANGED <<serverVars, shownVars>>
           /\ ~overlapped' => \E v : visits' = {v} /\ v.date = d /\ v.stage = "history"
<1> SUFFICES ASSUME NEW d \in ListRequests, Visit(d)
             PROVE  /\ visitCount' \in 1..MaxVisits /\ overlapped' \in BOOLEAN /\ dropped' \in BOOLEAN
                    /\ since' \subseteq {"withdrawal", "publication"}
                    /\ status' = "loading" /\ visits' \subseteq VisitRecord /\ visits' # {}
                    /\ UNCHANGED <<serverVars, shownVars>>
                    /\ ~overlapped' => \E v : visits' = {v} /\ v.date = d /\ v.stage = "history"
  OBVIOUS
<1> DEFINE new == NewVisit(visitCount + 1, d)
<1>1. visitCount \in 1..MaxVisits /\ visits \subseteq VisitRecord /\ MaxVisits \in Nat
  BY ListAssumption DEF VisitInv, ListTypeOK
<1>2. new \in VisitRecord /\ new.date = d /\ new.stage = "history"
  BY <1>1 DEF VisitRecord, NewVisit
<1>3. /\ visits' = visits \cup {new} /\ visitCount' = visitCount + 1 /\ visitCount < MaxVisits
      /\ status' = "loading" /\ overlapped' = (visits # {}) /\ dropped' = FALSE /\ since' = {}
      /\ UNCHANGED <<serverVars, shownVars>>
  BY DEF Visit
<1>4. visitCount' \in 1..MaxVisits
  BY <1>1, <1>3
<1>5. overlapped' \in BOOLEAN /\ dropped' \in BOOLEAN
  BY <1>3, Zenon
<1>6. ~overlapped' => visits = {}
  BY <1>3, Zenon
<1> HIDE DEF new
<1>7. ~overlapped' => visits' = {new}
  BY <1>3, <1>6
<1> QED
  BY <1>1, <1>2, <1>3, <1>4, <1>5, <1>7

\* A load that has begun has nothing to show yet.
LEMMA VisitBegins ==
  ASSUME VisitInv, NEW d \in ListRequests, Visit(d), effectUrl' = d,
         requestedDate' \in ListRequests, pushing' \in ListRequests \cup {Nowhere}
  PROVE  VisitInv'
<1>1. /\ visitCount' \in 1..MaxVisits /\ overlapped' \in BOOLEAN /\ dropped' \in BOOLEAN
      /\ since' \subseteq {"withdrawal", "publication"}
      /\ status' = "loading" /\ visits' \subseteq VisitRecord /\ visits' # {}
      /\ UNCHANGED <<serverVars, shownVars>>
      /\ ~overlapped' => \E v : visits' = {v} /\ v.date = d /\ v.stage = "history"
  BY VisitFacts
<1>2. ListTypeOK'
  BY <1>1 DEF VisitInv, ListTypeOK, serverVars, shownVars
<1>3. OneVisit'
  BY <1>1 DEF OneVisit, Underway
<1> QED
  BY <1>1, <1>2, <1>3 DEF VisitInv, ListSettles, serverVars

\* A load that moves on, from v to w.
LEMMA VisitAdvances ==
  ASSUME VisitInv, NEW v \in visits, NEW w \in VisitRecord,
         visits' = (visits \ {v}) \cup {w},
         UNCHANGED <<serverVars, urlVars, listed, status, visitCount, overlapped, dropped, since>>,
         selectedDate' \in ListRequests, dateOptions' \subseteq ListDates,
         ~overlapped /\ Underway(v) => Underway(w)'
  PROVE  VisitInv'
<1>1. ListTypeOK'
  BY DEF VisitInv, ListTypeOK, serverVars, urlVars
<1>2. OneVisit'
  <2> SUFFICES ASSUME ~overlapped PROVE OneVisit'
    BY DEF OneVisit
  <2>1. visits = {v} /\ status = "loading" /\ Underway(v)
    BY DEF VisitInv, OneVisit
  <2>2. visits' = {w} /\ status' = "loading" /\ Underway(w)'
    BY <2>1
  <2> QED
    BY <2>2 DEF OneVisit
<1>3. ListSettles'
  BY DEF ListSettles
<1>4. visits' \subseteq VisitRecord
  BY DEF VisitInv
<1>5. successes' # {} => executed'
  BY DEF VisitInv, serverVars
<1> QED
  BY <1>1, <1>2, <1>3, <1>4, <1>5 DEF VisitInv

\* A commit of the server.
LEMMA VisitCommits ==
  ASSUME VisitInv, NEW event \in {"withdrawal", "publication"}, Commits(event),
         successes' \subseteq ListDates, executed' \in BOOLEAN, executed',
         event # "withdrawal" => Current' >= Current /\ executed
  PROVE  VisitInv'
<1>1. /\ since' = (IF visits = {} \/ overlapped THEN since ELSE since \cup {event})
      /\ UNCHANGED <<requestedDate, pushing, effectUrl, selectedDate, dateOptions, listed, status,
                     visits, visitCount, overlapped, dropped>>
  BY DEF Commits, urlVars, shownVars, visitVars
<1>2. ListTypeOK'
  BY <1>1 DEF VisitInv, ListTypeOK
<1>3. Current \in Nat /\ Current' \in Nat
  BY <1>2, NewestFacts, ListAssumption DEF Current, VisitInv, ListTypeOK
<1>6. OneVisit'
  <2> SUFFICES ASSUME ~overlapped PROVE OneVisit'
    BY <1>1 DEF OneVisit
  <2>1. CASE visits = {}
    <3>1. since' = since
      BY <1>1, <2>1
    <3>2. Labelled(listed) => Labelled(listed)'
      BY <1>1, <3>1 DEF Labelled, NotNewer
    <3> QED
      BY <1>1, <2>1, <3>2 DEF VisitInv, OneVisit
  <2>2. CASE visits # {}
    <3>1. since' = since \cup {event} /\ status = "loading"
      BY <1>1, <2>2 DEF VisitInv, OneVisit
    <3>2. \A told \in Nat :
            (("withdrawal" \notin since => Current >= told) /\ (since = {} => Current = told)) =>
              (("withdrawal" \notin since' => Current' >= told) /\ (since' = {} => Current' = told))
      BY <1>3, <3>1
    <3>3. Labelled(Current) => Labelled(Current)'
      <4>1. selectedDate \in Nat
        BY NewestFacts DEF VisitInv, ListTypeOK
      <4> QED
        BY <1>1, <3>2, <4>1 DEF Labelled, NotNewer
    <3>4. ASSUME NEW v \in visits PROVE Underway(v)'
      <4>1. Underway(v) /\ v \in VisitRecord
        BY DEF VisitInv, OneVisit
      <4>2. Newest(v.dates) \in Nat
        BY <4>1, NewestFacts DEF VisitRecord
      <4>3. v.stage = "legacy" /\ executed' => "withdrawal" \in since'
        BY <3>1, <4>1 DEF Underway
      <4>4. v.stage = "told" /\ v.date = Undated => NotNewer(Newest(v.dates), Current)'
        BY <3>2, <4>1, <4>2 DEF Underway, NotNewer
      <4>5. v.stage = "items" => Labelled(Current)'
        BY <3>3, <4>1 DEF Underway
      <4> QED
        BY <1>1, <4>1, <4>3, <4>4, <4>5 DEF Underway
    <3> QED
      BY <1>1, <2>2, <3>1, <3>4 DEF VisitInv, OneVisit
  <2> QED
    BY <2>1, <2>2
<1>7. ListSettles' /\ visits' \subseteq VisitRecord
  BY <1>1 DEF VisitInv, ListSettles
<1> QED
  BY <1>2, <1>6, <1>7 DEF VisitInv

\* A step of the URL or of the choice that keeps what the label says.
LEMMA VisitRoutes ==
  ASSUME VisitInv, ListTypeOK',
         UNCHANGED <<serverVars, effectUrl, listed, status, visits, visitCount, overlapped, since>>,
         \A now \in ListRequests : ~overlapped /\ Labelled(now) => Labelled(now)'
  PROVE  VisitInv'
<1>1. Current \in ListRequests /\ Current' = Current /\ listed \in ListRequests
  BY NewestFacts, ListAssumption DEF Current, VisitInv, ListTypeOK, serverVars
<1>3. ASSUME NEW v \in visits, ~overlapped, Underway(v) PROVE Underway(v)'
  <2>1. v.stage = "items" => Labelled(Current)'
    BY <1>1, <1>3 DEF Underway, Labelled, NotNewer
  <2>2. v.stage = "told" /\ v.date = Undated => NotNewer(Newest(v.dates), Current)'
    BY <1>1, <1>3 DEF Underway, NotNewer
  <2> QED
    BY <1>3, <2>1, <2>2 DEF Underway, serverVars
<1>4. ~overlapped /\ Labelled(listed) => Labelled(listed)'
  BY <1>1 DEF Labelled, NotNewer
<1>5. OneVisit'
  BY <1>3, <1>4 DEF VisitInv, OneVisit
<1> QED
  BY <1>5 DEF VisitInv, ListSettles, serverVars

\* A load that ends, with the items and the status it leaves.
LEMMA VisitEnds ==
  ASSUME VisitInv, NEW v \in visits, Ends(v), listed' \in ListRequests,
         status' \in {"ready", "empty", "not-found", "error"},
         ~overlapped /\ Underway(v) /\ status' \in {"ready", "empty"} =>
           Labelled(listed)' /\ (effectUrl # Undated => listed' = effectUrl)
  PROVE  VisitInv'
<1>1. /\ visits' = visits \ {v}
      /\ UNCHANGED <<serverVars, requestedDate, pushing, effectUrl, selectedDate, dateOptions,
                     visitCount, overlapped, dropped, since>>
  BY DEF Ends, urlVars
<1>2. ListTypeOK'
  BY <1>1 DEF VisitInv, ListTypeOK, serverVars
<1>4. OneVisit'
  <2> SUFFICES ASSUME ~overlapped PROVE OneVisit'
    BY <1>1 DEF OneVisit
  <2>1. visits = {v} /\ Underway(v)
    BY DEF VisitInv, OneVisit
  <2>2. visits' = {}
    BY <1>1, <2>1
  <2> QED
    BY <1>1, <2>1, <2>2 DEF OneVisit
<1> QED
  BY <1>1, <1>2, <1>4 DEF VisitInv, ListSettles, serverVars

\* No step of the watchlist page breaks its invariant.
LEMMA VisitInductive == VisitInv /\ [ListNext]_listVars => VisitInv'
<1> SUFFICES ASSUME VisitInv, [ListNext]_listVars PROVE VisitInv'
  OBVIOUS
<1>t. /\ requestedDate \in ListRequests /\ effectUrl \in ListRequests /\ selectedDate \in ListRequests
      /\ listed \in ListRequests /\ pushing \in ListRequests \cup {Nowhere}
      /\ successes \subseteq ListDates /\ dateOptions \subseteq ListDates /\ executed \in BOOLEAN
      /\ visits \subseteq VisitRecord /\ LegacyDates \subseteq ListDates
      /\ ListDates \subseteq ListRequests /\ Undated \in ListRequests /\ Nowhere \notin ListRequests
  BY NewestFacts, ListAssumption DEF VisitInv, ListTypeOK, ListRequests, Nowhere
<1>1. ASSUME FirstExecution PROVE VisitInv'
  BY <1>t, <1>1, VisitCommits DEF FirstExecution
<1>2. ASSUME NEW d \in ListDates, PublishList(d) PROVE VisitInv'
  <2>1. successes' = successes \cup {d} /\ successes' \subseteq ListDates /\ executed' = executed /\ executed
        /\ Commits("publication")
    BY <1>t, <1>2 DEF PublishList
  <2>2. Newest(successes') >= Newest(successes)
    BY <1>t, <2>1, NewestFacts
  <2>3. Current' >= Current
    BY <2>1, <2>2 DEF Current
  <2> QED
    BY <1>t, <2>1, <2>3, VisitCommits
<1>3. ASSUME NEW d \in ListDates, ChooseDate(d) PROVE VisitInv'
  <2>1. /\ effectUrl = requestedDate /\ selectedDate' = d /\ pushing' = d
        /\ UNCHANGED <<serverVars, requestedDate, effectUrl, dateOptions, listed, status, visits,
                       visitCount, overlapped, dropped, since>>
    BY <1>3 DEF ChooseDate, visitVars
  <2>2. ListTypeOK'
    BY <1>t, <2>1 DEF VisitInv, ListTypeOK, serverVars
  <2>3. d # Undated /\ d # Nowhere
    BY <1>t, ListAssumption DEF Undated
  <2>4. \A now \in ListRequests : Labelled(now)'
    BY <2>1, <2>3 DEF Labelled
  <2> QED
    BY <2>1, <2>2, <2>4, VisitRoutes
<1>4. ASSUME NEW d \in ListRequests, Traverse(d) PROVE VisitInv'
  <2>1. /\ pushing' = d
        /\ dropped' = (dropped \/ (~overlapped /\ pushing # Nowhere /\ d = requestedDate))
        /\ UNCHANGED <<serverVars, requestedDate, effectUrl, selectedDate, dateOptions, listed, status,
                       visits, visitCount, overlapped, since>>
    BY <1>4 DEF Traverse, shownVars
  <2>2. dropped' \in BOOLEAN
    BY <2>1, Zenon
  <2>3. ListTypeOK'
    BY <1>t, <2>1, <2>2 DEF VisitInv, ListTypeOK, serverVars
  <2>4. /\ dropped => dropped'
        /\ ~overlapped /\ pushing # Nowhere /\ d = requestedDate => dropped'
    BY <2>1, Zenon
  <2>5. \A now \in ListRequests : ~overlapped /\ Labelled(now) => Labelled(now)'
    BY <1>t, <2>1, <2>4 DEF Labelled, NotNewer
  <2> QED
    BY <2>1, <2>3, <2>5, VisitRoutes
<1>5. ASSUME RetryList PROVE VisitInv'
  <2>1. /\ effectUrl' = requestedDate /\ Visit(requestedDate) /\ requestedDate' = requestedDate
        /\ pushing' = pushing
    BY <1>5 DEF RetryList, urlVars
  <2> QED
    BY <1>t, <2>1, VisitBegins
<1>6. ASSUME UrlChanges PROVE VisitInv'
  <2>1. /\ pushing # Nowhere /\ effectUrl = requestedDate /\ requestedDate' = pushing
        /\ pushing' = Nowhere
        /\ UNCHANGED <<serverVars, effectUrl, selectedDate, dateOptions, listed, status, visits,
                       visitCount, overlapped, dropped, since>>
    BY <1>6 DEF UrlChanges, shownVars, visitVars
  <2>2. ListTypeOK'
    BY <1>t, <2>1 DEF VisitInv, ListTypeOK, serverVars
  <2>3. \A now \in ListRequests : Labelled(now) => Labelled(now)'
    BY <1>t, <2>1 DEF Labelled, NotNewer
  <2> QED
    BY <2>1, <2>2, <2>3, VisitRoutes
<1>7. ASSUME ListEffect PROVE VisitInv'
  BY <1>t, <1>7, VisitBegins DEF ListEffect
<1>8. ASSUME NEW v \in visits, ServeHistory(v) PROVE VisitInv'
  <2> DEFINE early == successes = {} /\ ~executed
  <2>0. PICK w : w = IF early THEN [v EXCEPT !.stage = "legacy"]
                     ELSE [v EXCEPT !.stage = "told", !.dates = successes]
    OBVIOUS
  <2>1. /\ visits' = (visits \ {v}) \cup {w} /\ v \in VisitRecord /\ v.stage = "history"
        /\ UNCHANGED <<serverVars, urlVars, listed, status, visitCount, overlapped, dropped, since>>
        /\ UNCHANGED <<selectedDate, dateOptions>>
    BY <1>t, <1>8, <2>0 DEF ServeHistory, Advance
  <2>2. /\ w \in VisitRecord /\ w.date = v.date
        /\ w.stage = (IF early THEN "legacy" ELSE "told") /\ (~early => w.dates = successes)
    BY <1>t, <2>0, <2>1 DEF VisitRecord
  <2>3. successes # {} => executed
    BY DEF VisitInv
  <2>4. executed => Current' = Newest(successes)
    BY <2>1 DEF Current, serverVars
  <2>5. Newest(successes) \in Nat
    BY <1>t, NewestFacts
  <2>6. w.stage = "told" /\ w.date = Undated => NotNewer(Newest(w.dates), Current)'
    <3>1. CASE early
      BY <2>2, <3>1
    <3>2. CASE ~early
      <4>1. w.dates = successes /\ executed
        BY <2>2, <2>3, <3>2
      <4>2. Newest(w.dates) = Newest(successes) /\ Current' = Newest(successes)
        BY <2>4, <4>1
      <4> QED
        BY <2>5, <4>2 DEF NotNewer
    <3> QED
      BY <3>1, <3>2
  <2>7. w.stage = "legacy" => ~executed'
    BY <2>1, <2>2 DEF serverVars
  <2>8. Underway(v) => Underway(w)'
    BY <2>1, <2>2, <2>6, <2>7 DEF Underway, urlVars
  <2> QED
    BY <1>t, <2>1, <2>2, <2>8, VisitAdvances
<1>9. ASSUME NEW v \in visits, ServeLegacy(v) PROVE VisitInv'
  <2>0. PICK w : w = [v EXCEPT !.stage = "told", !.dates = LegacyDates \cup successes]
    OBVIOUS
  <2>1. /\ visits' = (visits \ {v}) \cup {w} /\ v \in VisitRecord /\ v.stage = "legacy"
        /\ UNCHANGED <<serverVars, urlVars, listed, status, visitCount, overlapped, dropped, since>>
        /\ UNCHANGED <<selectedDate, dateOptions>>
    BY <1>t, <1>9, <2>0 DEF ServeLegacy, Advance
  <2>2. /\ w \in VisitRecord /\ w.date = v.date /\ w.stage = "told" /\ w.dates = LegacyDates \cup successes
    BY <1>t, <2>0, <2>1 DEF VisitRecord
  <2>3. ~executed => successes = {}
    BY DEF VisitInv
  <2>4. ~executed => w.dates = LegacyDates /\ Current' = Newest(LegacyDates)
    BY <2>1, <2>2, <2>3 DEF Current, serverVars
  <2>5. Newest(LegacyDates) \in Nat
    BY <1>t, NewestFacts
  <2>6. Underway(v) => NotNewer(Newest(w.dates), Current)'
    <3>1. CASE executed
      BY <2>1, <3>1 DEF Underway, NotNewer
    <3>2. CASE ~executed
      <4>1. Newest(w.dates) = Newest(LegacyDates) /\ Current' = Newest(LegacyDates)
        BY <2>4, <3>2
      <4> QED
        BY <2>5, <4>1 DEF NotNewer
    <3> QED
      BY <3>1, <3>2
  <2>7. Underway(v) => Underway(w)'
    BY <2>1, <2>2, <2>6 DEF Underway, urlVars
  <2> QED
    BY <1>t, <2>1, <2>2, <2>7, VisitAdvances
<1>10. ASSUME NEW v \in visits, AnswerHistory(v) PROVE VisitInv'
  <2> DEFINE w == [v EXCEPT !.stage = "items"]
  <2>1. /\ visits' = (visits \ {v}) \cup {w} /\ v \in VisitRecord /\ v.stage = "told"
        /\ selectedDate' = (IF v.date # Undated THEN v.date ELSE Newest(v.dates))
        /\ dateOptions' = v.dates
        /\ UNCHANGED <<serverVars, urlVars, listed, status, visitCount, overlapped, dropped, since>>
    BY <1>t, <1>10 DEF AnswerHistory, Advance
  <2>2. /\ w \in VisitRecord /\ w.date = v.date /\ w.stage = "items"
        /\ v.date \in ListRequests /\ v.dates \subseteq ListDates
    BY <2>1 DEF VisitRecord
  <2>3. selectedDate' \in ListRequests
    BY <2>1, <2>2, NewestFacts
  <2>4. Current' = Current
    BY <2>1 DEF Current, serverVars
  <2> HIDE DEF w
  <2>5. Underway(v) => Labelled(Current)'
    BY <2>1, <2>2, <2>4 DEF Underway, Labelled, NotNewer, urlVars
  <2>6. Underway(v) => Underway(w)'
    BY <2>1, <2>2, <2>5 DEF Underway, urlVars
  <2> QED
    BY <2>1, <2>2, <2>3, <2>6, VisitAdvances
<1>11. ASSUME NEW v \in visits, NEW found \in {"ready", "empty", "not-found"}, AnswerItems(v, found)
       PROVE  VisitInv'
  <2> DEFINE list == IF v.date = Undated THEN Current ELSE v.date
  <2>1. /\ v.stage = "items" /\ Ends(v) /\ status' = found
        /\ listed' = IF found = "not-found" THEN listed ELSE list
    BY <1>11 DEF AnswerItems, Current
  <2>2. v.date \in ListRequests /\ Current \in ListRequests
    BY <1>t, NewestFacts DEF VisitRecord, Current
  <2>3. listed' \in ListRequests
    BY <1>t, <2>1, <2>2
  <2>4. Underway(v) /\ found # "not-found" =>
          Labelled(listed)' /\ (effectUrl # Undated => listed' = effectUrl)
    BY <2>1 DEF Underway, Labelled, NotNewer, Ends, urlVars
  <2> QED
    BY <2>1, <2>3, <2>4, VisitEnds
<1>12. ASSUME NEW v \in visits, ListFails(v) PROVE VisitInv'
  BY <1>t, <1>12, VisitEnds DEF ListFails
<1>13. CASE UNCHANGED listVars
  <2>1. UNCHANGED <<successes, executed, requestedDate, pushing, effectUrl, selectedDate, dateOptions, listed,
                    status, visits, visitCount, overlapped, dropped, since>>
    BY <1>13 DEF listVars, serverVars, urlVars, shownVars, visitVars
  <2>2. Current' = Current /\ (Labelled(listed)' <=> Labelled(listed))
    BY <2>1 DEF Current, Labelled, NotNewer
  <2>3. \A v \in visits : Underway(v)' <=> Underway(v)
    BY <2>1, <2>2 DEF Underway, Labelled, NotNewer
  <2>4. OneVisit'
    BY <2>1, <2>2, <2>3 DEF OneVisit, VisitInv
  <2> QED
    BY <2>1, <2>4 DEF VisitInv, ListTypeOK, ListSettles
<1> QED
  BY <1>1, <1>2, <1>3, <1>4, <1>5, <1>6, <1>7, <1>8, <1>9, <1>10, <1>11, <1>12, <1>13 DEF ListNext

\* The watchlist page starts in its invariant.
LEMMA VisitInitially == ListInit => VisitInv
<1> SUFFICES ASSUME ListInit PROVE VisitInv
  OBVIOUS
<1> DEFINE new == NewVisit(1, requestedDate)
<1>1. visits = {new} /\ requestedDate \in ListRequests /\ effectUrl = requestedDate
  BY DEF ListInit
<1>2. new \in VisitRecord /\ new.date = requestedDate /\ new.stage = "history"
  BY <1>1 DEF VisitRecord, NewVisit
<1>3. visitCount \in 1..MaxVisits
  BY ListAssumption DEF ListInit
<1>4. executed \in BOOLEAN /\ overlapped \in BOOLEAN /\ dropped \in BOOLEAN
  BY DEF ListInit
<1>5. ListTypeOK
  BY <1>3, <1>4 DEF ListInit, ListTypeOK, ListRequests
<1> HIDE DEF new
<1>6. OneVisit
  BY <1>1, <1>2 DEF ListInit, OneVisit, Underway
<1> QED
  BY <1>1, <1>2, <1>5, <1>6 DEF ListInit, VisitInv, ListSettles

\* On the watchlist page the items are those of the date its load effect ran
\* for; once router.push and the effect are done they belong to the date above
\* them, or without a date in the URL are never older than it; all this unless
\* two load() calls overlap.  And the last load to finish always takes the page
\* out of its loading view.
THEOREM WatchlistPageIsRight ==
  ListInit /\ [][ListNext]_listVars => [](ListTypeOK /\ ListMatchesDate /\ ListSettles)
  BY VisitKept, VisitInitially, VisitInductive, PTL

-----------------------------------------------------------------------------
(***************************************************************************)
(* The backtest pages.                                                     *)
(***************************************************************************)

WaitRecord == [run: Runs, active: BOOLEAN]
LoadRecord == [run: Runs \cup {NoResult}, offset: {0, 1}]

RecordsAreSound ==
  /\ panel \in [data: Runs \cup {NoResult}, error: BOOLEAN]
  /\ table \in LoadRecord
  /\ tableRows \in [run: Runs \cup {NoResult}, offset: {0, 1}, state: {"loading", "ready", "error"}]
  /\ waiting \subseteq WaitRecord
  /\ tableLoads \subseteq LoadRecord
  /\ details \subseteq Runs
  /\ tableCrossed \in BOOLEAN /\ crossed \in BOOLEAN

\* The map of running requests and the requests agree.
FetchesAreMapped ==
  /\ \A r \in Runs : fetches[r] = IF r \in fetchMap THEN 1 ELSE 0
  /\ results \cap fetchMap = {}

\* An active closure is that of the run on display; a panel that waits has
\* one, and its request is in flight.
PanelHasAClosure ==
  /\ \A w \in waiting : w.active => w.run = selected
  /\ panel.error => selected # NoResult
  /\ selected # NoResult /\ panel.data = NoResult /\ ~panel.error =>
       /\ selected \in fetchMap
       /\ \E w \in waiting : w.active /\ w.run = selected

\* Until two selections overlap, the one in flight is the last choice.
ChoiceIsPending == ~crossed => details \subseteq {choice}

\* Until two loads of the table overlap, the one in flight is for its page.
LoadIsThePage ==
  ~tableCrossed => \A l \in tableLoads : l.run = table.run /\ l.offset = table.offset

PanelInv == PanelsTypeOK /\ RecordsAreSound /\ FetchesAreMapped /\ PanelHasAClosure /\ PanelIsForRun
TableInv == ChoiceIsPending /\ SelectionIsLastChoice /\ LoadIsThePage /\ RowsAreThePage

\* Clearing the flags of the closures leaves no active one.
LEMMA DeactivatedFacts ==
  ASSUME PanelInv
  PROVE  Deactivated \subseteq WaitRecord /\ \A w \in Deactivated : ~w.active
<1>1. \A w \in waiting : [w EXCEPT !.active = FALSE] \in WaitRecord /\ ~[w EXCEPT !.active = FALSE].active
  BY DEF PanelInv, RecordsAreSound, WaitRecord
<1> QED
  BY <1>1 DEF Deactivated

\* What a panel's state has to satisfy after a step.
PanelPart ==
  /\ panel \in [data: Runs \cup {NoResult}, error: BOOLEAN]
  /\ waiting \subseteq WaitRecord
  /\ results \subseteq Runs /\ fetchMap \subseteq Runs /\ fetches \in [Runs -> Nat]
  /\ FetchesAreMapped /\ PanelHasAClosure /\ PanelIsForRun

\* The panel's effect restores the invariant for the run it is mounted with.
LEMMA PanelEffectFacts ==
  ASSUME PanelInv, NEW r \in Runs, PanelEffect(r), selected' = r
  PROVE  PanelPart'
<1> USE PanelsAssumption DEF PanelInv
<1>1. /\ results' = results /\ results \subseteq Runs /\ fetchMap \subseteq Runs /\ fetches \in [Runs -> Nat]
      /\ fetchMap' = IF r \in results THEN fetchMap ELSE fetchMap \cup {r}
      /\ fetches' = IF r \in results \cup fetchMap THEN fetches ELSE [fetches EXCEPT ![r] = @ + 1]
  BY DEF PanelEffect, LoadCached, PanelsTypeOK
<1>2. fetchMap' \subseteq Runs
  BY <1>1
<1>3. fetches' \in [Runs -> Nat]
  BY <1>1
<1>4. FetchesAreMapped'
  <2>1. results' \cap fetchMap' = {}
    BY <1>1 DEF FetchesAreMapped
  <2>2. ASSUME NEW s \in Runs PROVE fetches'[s] = IF s \in fetchMap' THEN 1 ELSE 0
    <3>1. fetches[s] = IF s \in fetchMap THEN 1 ELSE 0
      BY DEF FetchesAreMapped
    <3>2. CASE r \in results \cup fetchMap
      BY <1>1, <3>1, <3>2 DEF FetchesAreMapped
    <3>3. CASE r \notin results \cup fetchMap
      BY <1>1, <3>1, <3>3 DEF FetchesAreMapped
    <3> QED
      BY <3>2, <3>3
  <2> QED
    BY <2>1, <2>2 DEF FetchesAreMapped
<1>5. CASE r \in results
  <2>1. panel' = [data |-> r, error |-> FALSE] /\ waiting' = Deactivated
    BY <1>5 DEF PanelEffect
  <2>2. panel' \in [data: Runs \cup {NoResult}, error: BOOLEAN] /\ panel'.data = r /\ ~panel'.error
    BY <2>1
  <2>3. PanelHasAClosure' /\ PanelIsForRun' /\ waiting' \subseteq WaitRecord
    BY <2>1, <2>2, DeactivatedFacts DEF PanelHasAClosure, PanelIsForRun
  <2> QED
    BY <1>1, <1>2, <1>3, <1>4, <2>2, <2>3 DEF PanelPart
<1>6. CASE r \notin results
  <2> DEFINE new == [run |-> r, active |-> TRUE]
  <2>1. panel' = Blank /\ waiting' = Deactivated \cup {new}
    BY <1>6 DEF PanelEffect
  <2>2. panel' \in [data: Runs \cup {NoResult}, error: BOOLEAN] /\ panel'.data = NoResult /\ ~panel'.error
    BY <2>1 DEF Blank
  <2>3. new \in WaitRecord /\ new.run = r /\ new.active
    BY DEF WaitRecord
  <2> HIDE DEF new
  <2>4. r \in fetchMap'
    BY <1>1, <1>6
  <2>5. PanelHasAClosure' /\ PanelIsForRun' /\ waiting' \subseteq WaitRecord
    BY <2>1, <2>2, <2>3, <2>4, DeactivatedFacts DEF PanelHasAClosure, PanelIsForRun
  <2> QED
    BY <1>1, <1>2, <1>3, <1>4, <2>2, <2>5 DEF PanelPart
<1> QED
  BY <1>5, <1>6

\* The same when the promise of a run settles.
LEMMA SettlesFacts ==
  ASSUME PanelInv, NEW r \in Runs, NEW ok \in BOOLEAN, FetchSettles(r, ok)
  PROVE  PanelPart'
<1> USE PanelsAssumption DEF PanelInv
<1> DEFINE applied == \E w \in waiting : w.run = r /\ w.active
<1>1. /\ fetches[r] > 0 /\ fetches' = [fetches EXCEPT ![r] = @ - 1] /\ fetchMap' = fetchMap \ {r}
      /\ results' = (IF ok THEN results \cup {r} ELSE results)
      /\ waiting' = {w \in waiting : w.run # r} /\ selected' = selected
  BY DEF FetchSettles
<1>2. /\ results \subseteq Runs /\ fetchMap \subseteq Runs /\ fetches \in [Runs -> Nat]
      /\ waiting \subseteq WaitRecord /\ panel \in [data: Runs \cup {NoResult}, error: BOOLEAN]
  BY DEF PanelsTypeOK, RecordsAreSound
<1>3. r \in fetchMap /\ fetches[r] = 1
  BY <1>1 DEF FetchesAreMapped
<1>4. fetches' \in [Runs -> Nat] /\ results' \subseteq Runs /\ fetchMap' \subseteq Runs
  BY <1>1, <1>2, <1>3
<1>5. FetchesAreMapped'
  BY <1>1, <1>2, <1>3 DEF FetchesAreMapped
<1>6. waiting' \subseteq waiting /\ \A w \in waiting : w.run # r => w \in waiting'
  BY <1>1
<1>7. CASE ~applied
  <2>1. panel' = panel
    BY <1>7 DEF FetchSettles
  <2>2. PanelHasAClosure'
    BY <1>1, <1>6, <1>7, <2>1 DEF PanelHasAClosure
  <2> QED
    BY <1>1, <1>2, <1>4, <1>5, <1>6, <2>1, <2>2 DEF PanelPart, PanelIsForRun
<1>8. CASE applied
  <2>1. selected = r
    BY <1>8 DEF PanelHasAClosure
  <2>2. /\ panel' \in [data: Runs \cup {NoResult}, error: BOOLEAN]
        /\ \/ panel'.data = r /\ panel'.error = panel.error
           \/ panel'.data = panel.data /\ panel'.error = TRUE
    <3>1. CASE ok
      <4>1. panel' = [panel EXCEPT !.data = r]
        BY <1>8, <3>1 DEF FetchSettles
      <4> QED
        BY <1>2, <4>1
    <3>2. CASE ~ok
      <4>1. panel' = [panel EXCEPT !.error = TRUE]
        BY <1>8, <3>2 DEF FetchSettles
      <4> QED
        BY <1>2, <4>1
    <3> QED
      BY <3>1, <3>2
  <2>3. PanelIsForRun'
    BY <1>1, <2>1, <2>2 DEF PanelIsForRun
  <2>4. PanelHasAClosure'
    BY <1>1, <1>6, <2>1, <2>2 DEF PanelHasAClosure
  <2> QED
    BY <1>2, <1>4, <1>5, <1>6, <2>2, <2>3, <2>4 DEF PanelPart
<1> QED
  BY <1>7, <1>8

\* A step that leaves the cache and the panel alone.
LEMMA PanelKept ==
  ASSUME PanelInv, UNCHANGED <<selected, results, fetchMap, fetches, waiting, panel>>
  PROVE  PanelPart'
BY DEF PanelInv, PanelsTypeOK, RecordsAreSound, PanelPart, FetchesAreMapped, PanelHasAClosure, PanelIsForRun

\* What the table's and the selection's state has to satisfy after a step.
TablePart ==
  /\ table \in LoadRecord
  /\ tableRows \in [run: Runs \cup {NoResult}, offset: {0, 1}, state: {"loading", "ready", "error"}]
  /\ tableLoads \subseteq LoadRecord
  /\ tableCrossed \in BOOLEAN
  /\ LoadIsThePage /\ RowsAreThePage

TableTyped == PanelInv /\ TableInv

\* The table's effect on a new run.
LEMMA TableEffectFacts ==
  ASSUME TableTyped, NEW r \in Runs, TableEffect(r)
  PROVE  TablePart'
<1> DEFINE first == [run |-> r, offset |-> table.offset]
           again == [run |-> r, offset |-> 0]
<1>1. /\ table \in LoadRecord /\ tableLoads \subseteq LoadRecord
      /\ tableRows \in [run: Runs \cup {NoResult}, offset: {0, 1}, state: {"loading", "ready", "error"}]
  BY DEF TableTyped, PanelInv, RecordsAreSound
<1>2. first \in LoadRecord /\ again \in LoadRecord /\ again.run = r /\ again.offset = 0
  BY <1>1 DEF LoadRecord
<1>3. table' = again /\ tableLoads' \subseteq tableLoads \cup {first, again}
  BY DEF TableEffect
<1>4. tableCrossed' = (tableCrossed \/ tableLoads # {} \/ table.offset # 0)
  BY DEF TableEffect
<1>5. tableCrossed' \in BOOLEAN
  BY <1>4, Zenon
<1>6. /\ tableRows' \in [run: Runs \cup {NoResult}, offset: {0, 1}, state: {"loading", "ready", "error"}]
      /\ tableRows'.state = "loading"
  BY <1>1 DEF TableEffect
<1>7. ~tableCrossed' => first = again /\ tableLoads = {}
  BY <1>4
<1> HIDE DEF first, again
<1>8. LoadIsThePage' /\ RowsAreThePage'
  BY <1>2, <1>3, <1>6, <1>7 DEF LoadIsThePage, RowsAreThePage
<1> QED
  BY <1>1, <1>2, <1>3, <1>5, <1>6, <1>8 DEF TablePart

\* A step that leaves the table alone.
LEMMA TableKept ==
  ASSUME TableTyped, UNCHANGED <<table, tableLoads, tableRows, tableCrossed>>
  PROVE  TablePart'
BY DEF TableTyped, TableInv, PanelInv, RecordsAreSound, TablePart, LoadIsThePage, RowsAreThePage

\* Showing a run.
LEMMA ShowFacts ==
  ASSUME TableTyped, NEW r \in Runs, Show(r)
  PROVE  PanelPart' /\ TablePart' /\ selected' = r
<1>1. CASE r # selected
  BY <1>1, PanelEffectFacts, TableEffectFacts DEF Show, TableTyped
<1>2. CASE r = selected
  BY <1>2, PanelKept, TableKept DEF Show, TableTyped
<1> QED
  BY <1>1, <1>2

\* Turning the page of the table.
LEMMA TurnPageFacts ==
  ASSUME TableTyped, NEW offset \in {0, 1}, TurnPage(offset)
  PROVE  TablePart'
<1> DEFINE new == [run |-> table.run, offset |-> offset]
<1>1. /\ table \in LoadRecord /\ tableLoads \subseteq LoadRecord
      /\ tableRows \in [run: Runs \cup {NoResult}, offset: {0, 1}, state: {"loading", "ready", "error"}]
  BY DEF TableTyped, PanelInv, RecordsAreSound
<1>2. new \in LoadRecord /\ new.run = table.run /\ new.offset = offset
  BY <1>1 DEF LoadRecord
<1>3. tableLoads' = tableLoads \cup {new}
  BY DEF TurnPage
<1>4. table' \in LoadRecord /\ table'.run = table.run /\ table'.offset = offset
  BY <1>1 DEF TurnPage, LoadRecord
<1>5. tableCrossed' = (tableCrossed \/ tableLoads # {})
  BY DEF TurnPage
<1>6. tableCrossed' \in BOOLEAN
  BY <1>5, Zenon
<1>7. /\ tableRows' \in [run: Runs \cup {NoResult}, offset: {0, 1}, state: {"loading", "ready", "error"}]
      /\ tableRows'.state = "loading"
  BY <1>1 DEF TurnPage
<1> HIDE DEF new
<1>8. LoadIsThePage' /\ RowsAreThePage'
  BY <1>2, <1>3, <1>4, <1>5, <1>7 DEF LoadIsThePage, RowsAreThePage
<1> QED
  BY <1>1, <1>2, <1>3, <1>4, <1>6, <1>7, <1>8 DEF TablePart

\* An answer of the table's endpoint.
LEMMA TableAnswerFacts ==
  ASSUME TableTyped, NEW l \in tableLoads, NEW ok \in BOOLEAN, TableAnswer(l, ok)
  PROVE  TablePart'
<1>1. /\ table \in LoadRecord /\ tableLoads \subseteq LoadRecord /\ tableCrossed \in BOOLEAN
      /\ tableRows \in [run: Runs \cup {NoResult}, offset: {0, 1}, state: {"loading", "ready", "error"}]
  BY DEF TableTyped, PanelInv, RecordsAreSound
<1>2. UNCHANGED <<table, tableCrossed>> /\ tableLoads' = tableLoads \ {l}
  BY DEF TableAnswer
<1>3. /\ tableRows' \in [run: Runs \cup {NoResult}, offset: {0, 1}, state: {"loading", "ready", "error"}]
      /\ \/ tableRows'.state = "error"
         \/ tableRows'.run = l.run /\ tableRows'.offset = l.offset
  <2>1. CASE ok
    BY <1>1, <2>1 DEF TableAnswer, LoadRecord
  <2>2. CASE ~ok
    BY <1>1, <2>2 DEF TableAnswer, LoadRecord
  <2> QED
    BY <2>1, <2>2
<1>4. LoadIsThePage' /\ RowsAreThePage'
  BY <1>2, <1>3 DEF LoadIsThePage, RowsAreThePage, TableTyped, TableInv
<1> QED
  BY <1>1, <1>2, <1>3, <1>4 DEF TablePart

\* What the selection has to satisfy after a step.
ChoicePart ==
  /\ selected \in Runs \cup {NoResult} /\ choice \in Runs \cup {NoResult}
  /\ details \subseteq Runs /\ crossed \in BOOLEAN /\ clicks \in 0..MaxClicks
  /\ ChoiceIsPending /\ SelectionIsLastChoice

\* The parts make up the invariant.
LEMMA PartsAreAll == PanelPart /\ TablePart /\ ChoicePart <=> TableTyped
<1>1. PanelPart /\ TablePart /\ ChoicePart => TableTyped
  BY DEF PanelPart, TablePart, ChoicePart, TableTyped, PanelInv, TableInv, PanelsTypeOK,
     RecordsAreSound, LoadRecord, WaitRecord
<1>2. TableTyped => PanelPart /\ TablePart /\ ChoicePart
  BY DEF PanelPart, TablePart, ChoicePart, TableTyped, PanelInv, TableInv, PanelsTypeOK,
     RecordsAreSound, LoadRecord, WaitRecord
<1> QED
  BY <1>1, <1>2

\* No step of the backtest pages breaks their invariant.
LEMMA TableInductive == TableTyped /\ [PanelsNext]_panelVars => TableTyped'
<1> SUFFICES ASSUME TableTyped, [PanelsNext]_panelVars PROVE PanelPart' /\ TablePart' /\ ChoicePart'
  BY DEF PanelPart, TablePart, ChoicePart, TableTyped, PanelInv, TableInv, PanelsTypeOK,
     RecordsAreSound, LoadRecord, WaitRecord
<1>0. ChoicePart /\ PanelInv
  BY PartsAreAll DEF TableTyped
<1> USE PanelsAssumption
<1>1. ASSUME NEW r \in Runs, SelectRun(r) PROVE PanelPart' /\ TablePart' /\ ChoicePart'
  <2>1. /\ Show(r) /\ clicks < MaxClicks /\ clicks' = clicks + 1 /\ choice' = r /\ details' = details \cup {r}
        /\ crossed' = (crossed \/ details # {})
    BY <1>1 DEF SelectRun, Click
  <2>2. PanelPart' /\ TablePart' /\ selected' = r
    BY <2>1, ShowFacts
  <2>3. crossed' \in BOOLEAN
    BY <2>1, Zenon
  <2>4. clicks' \in 0..MaxClicks
    BY <1>0, <2>1 DEF ChoicePart
  <2>5. ChoicePart'
    BY <1>0, <2>1, <2>2, <2>3, <2>4 DEF ChoicePart, ChoiceIsPending, SelectionIsLastChoice
  <2> QED
    BY <2>2, <2>5
<1>2. ASSUME NEW r \in Runs, CreatedRun(r) PROVE PanelPart' /\ TablePart' /\ ChoicePart'
  <2>1. /\ clicks < MaxClicks /\ clicks' = clicks + 1 /\ choice' = r /\ details' = details \cup {r}
        /\ crossed' = (crossed \/ details # {})
        /\ UNCHANGED <<selected, results, fetchMap, fetches, waiting, panel, table, tableLoads,
                       tableRows, tableCrossed>>
    BY <1>2 DEF CreatedRun, Click
  <2>2. PanelPart' /\ TablePart'
    BY <1>0, <2>1, PanelKept, TableKept
  <2>3. crossed' \in BOOLEAN
    BY <2>1, Zenon
  <2>4. clicks' \in 0..MaxClicks
    BY <1>0, <2>1 DEF ChoicePart
  <2>5. ChoicePart'
    BY <1>0, <2>1, <2>3, <2>4 DEF ChoicePart, ChoiceIsPending, SelectionIsLastChoice
  <2> QED
    BY <2>2, <2>5
<1>3. ASSUME NEW r \in Runs, NEW ok \in BOOLEAN, FetchSettles(r, ok)
      PROVE  PanelPart' /\ TablePart' /\ ChoicePart'
  <2>1. PanelPart'
    BY <1>0, <1>3, SettlesFacts
  <2>2. TablePart'
    BY <1>3, TableKept DEF FetchSettles
  <2>3. ChoicePart'
    BY <1>0, <1>3 DEF FetchSettles, ChoicePart, ChoiceIsPending, SelectionIsLastChoice
  <2> QED
    BY <2>1, <2>2, <2>3
<1>4. ASSUME NEW r \in details, DetailsArrive(r) PROVE PanelPart' /\ TablePart' /\ ChoicePart'
  <2>1. r \in Runs /\ Show(r) /\ details' = details \ {r} /\ UNCHANGED <<choice, clicks, crossed>>
    BY <1>0, <1>4 DEF DetailsArrive, ChoicePart
  <2>2. PanelPart' /\ TablePart' /\ selected' = r
    BY <2>1, ShowFacts
  <2>3. ChoicePart'
    BY <1>0, <2>1, <2>2 DEF ChoicePart, ChoiceIsPending, SelectionIsLastChoice
  <2> QED
    BY <2>2, <2>3
<1>5. ASSUME NEW r \in details, DetailsFail(r) PROVE PanelPart' /\ TablePart' /\ ChoicePart'
  <2>1. PanelPart' /\ TablePart'
    BY <1>0, <1>5, PanelKept, TableKept DEF DetailsFail
  <2>2. ChoicePart'
    BY <1>0, <1>5 DEF DetailsFail, ChoicePart, ChoiceIsPending, SelectionIsLastChoice
  <2> QED
    BY <2>1, <2>2
<1>6. ASSUME RetryPanel PROVE PanelPart' /\ TablePart' /\ ChoicePart'
  <2>1. selected \in Runs
    BY <1>0, <1>6 DEF RetryPanel, PanelInv, PanelHasAClosure, ChoicePart
  <2>2. /\ PanelEffect(selected) /\ clicks < MaxClicks /\ clicks' = clicks + 1
        /\ UNCHANGED <<selected, choice, details, table, tableLoads, tableRows, crossed, tableCrossed>>
    BY <1>6 DEF RetryPanel, Click
  <2>3. PanelPart' /\ TablePart'
    BY <1>0, <2>1, <2>2, PanelEffectFacts, TableKept
  <2>4. clicks' \in 0..MaxClicks
    BY <1>0, <2>2 DEF ChoicePart
  <2>5. ChoicePart'
    BY <1>0, <2>2, <2>4 DEF ChoicePart, ChoiceIsPending, SelectionIsLastChoice
  <2> QED
    BY <2>3, <2>5
<1>7. ASSUME NEW offset \in {0, 1}, TurnPage(offset) PROVE PanelPart' /\ TablePart' /\ ChoicePart'
  <2>1. PanelPart'
    BY <1>0, <1>7, PanelKept DEF TurnPage
  <2>2. TablePart'
    BY <1>7, TurnPageFacts
  <2>3. clicks' \in 0..MaxClicks
    BY <1>0, <1>7 DEF ChoicePart, TurnPage, Click
  <2>4. ChoicePart'
    BY <1>0, <1>7, <2>3 DEF TurnPage, ChoicePart, ChoiceIsPending, SelectionIsLastChoice
  <2> QED
    BY <2>1, <2>2, <2>4
<1>8. ASSUME NEW l \in tableLoads, NEW ok \in BOOLEAN, TableAnswer(l, ok)
      PROVE  PanelPart' /\ TablePart' /\ ChoicePart'
  <2>1. PanelPart'
    BY <1>0, <1>8, PanelKept DEF TableAnswer
  <2>2. TablePart'
    BY <1>8, TableAnswerFacts
  <2>3. ChoicePart'
    BY <1>0, <1>8 DEF TableAnswer, ChoicePart, ChoiceIsPending, SelectionIsLastChoice
  <2> QED
    BY <2>1, <2>2, <2>3
<1>9. CASE UNCHANGED panelVars
  BY <1>0, <1>9, PanelKept, TableKept DEF panelVars, ChoicePart, ChoiceIsPending, SelectionIsLastChoice
<1> QED
  BY <1>1, <1>2, <1>3, <1>4, <1>5, <1>6, <1>7, <1>8, <1>9 DEF PanelsNext

\* The backtest pages open in the invariant.
LEMMA TableInitially == PanelsInit => TableTyped
<1> SUFFICES ASSUME PanelsInit PROVE PanelPart /\ TablePart /\ ChoicePart
  BY PartsAreAll
<1> USE PanelsAssumption
<1>1. PanelPart
  BY DEF PanelsInit, PanelPart, Blank, FetchesAreMapped, PanelHasAClosure, PanelIsForRun
<1>2. TablePart
  BY DEF PanelsInit, TablePart, LoadRecord, LoadIsThePage, RowsAreThePage
<1>3. ChoicePart
  <2>1. crossed \in BOOLEAN
    BY DEF PanelsInit
  <2>2. clicks \in 0..MaxClicks
    BY DEF PanelsInit
  <2> QED
    BY <2>1, <2>2 DEF PanelsInit, ChoicePart, ChoiceIsPending, SelectionIsLastChoice
<1> QED
  BY <1>1, <1>2, <1>3

\* The invariant of the backtest pages holds of every behaviour.
LEMMA TableInvariant == PanelsInit /\ [][PanelsNext]_panelVars => []TableTyped
  BY TableInitially, TableInductive, PTL

\* On the backtest pages the panel shows the selected run's analysis and never
\* waits without a request; the selection and the table's rows are the last
\* choice until two requests overlap.
THEOREM BacktestPagesAreRight ==
  PanelsInit /\ [][PanelsNext]_panelVars =>
    [](PanelsTypeOK /\ PanelIsForRun /\ PanelIsServed /\ SelectionIsLastChoice /\ RowsAreThePage)
<1>1. TableTyped => PanelsTypeOK /\ PanelIsForRun /\ PanelIsServed /\ SelectionIsLastChoice /\ RowsAreThePage
  BY DEF TableTyped, PanelInv, TableInv, PanelIsServed, FetchesAreMapped, PanelHasAClosure, PanelsTypeOK
<1> QED
  BY <1>1, TableInvariant, PTL

\* However often a run is opened, retried or left while its request is in
\* flight, the cache sends at most one GET for it, and none once it has it.
THEOREM CacheFetchesOnce == PanelsInit /\ [][PanelsNext]_panelVars => []OneFetchPerRun
<1>1. TableTyped => OneFetchPerRun
  <2> SUFFICES ASSUME TableTyped, NEW r \in Runs PROVE fetches[r] <= IF r \in results THEN 0 ELSE 1
    BY DEF OneFetchPerRun
  <2>1. fetches[r] = (IF r \in fetchMap THEN 1 ELSE 0) /\ ~(r \in results /\ r \in fetchMap)
    BY DEF TableTyped, PanelInv, FetchesAreMapped
  <2> QED
    BY <2>1
<1> QED
  BY <1>1, TableInvariant, PTL

-----------------------------------------------------------------------------
(***************************************************************************)
(* The whole.  A behaviour of WebSpec, seen through the variables of one   *)
(* part, is a behaviour of that part: it starts in one of the part's       *)
(* initial states, and a step of another part is a stutter.  That is one   *)
(* lemma per part; the theorems then follow from the component theorems.   *)
(***************************************************************************)

\* Seen through the variables of the session endpoints and the browser's guards, a behaviour of the web
\* application is a behaviour of that part alone.
LEMMA AuthPart == WebSpec => AuthInit /\ [][AuthNext]_authVars
  <1>1. WebInit => AuthInit
    BY DEF WebInit
  <1>2. [WebNext]_webVars => [AuthNext]_authVars
    BY DEF WebNext, Only, webVars
  <1> QED
    BY <1>1, <1>2, PTL DEF WebSpec

\* Seen through the variables of the read endpoints, a behaviour of the web
\* application is a behaviour of that part alone.
LEMMA ResultsPart == WebSpec => ResultsInit /\ [][ResultsNext]_resultsVars
  <1>1. WebInit => ResultsInit
    BY DEF WebInit
  <1>2. [WebNext]_webVars => [ResultsNext]_resultsVars
    BY DEF WebNext, Only, webVars
  <1> QED
    BY <1>1, <1>2, PTL DEF WebSpec

\* Seen through the variables of the screener page, a behaviour of the web
\* application is a behaviour of that part alone.
LEMMA ScreenerPart == WebSpec => PageInit /\ [][PageNext]_pageVars
  <1>1. WebInit => PageInit
    BY DEF WebInit
  <1>2. [WebNext]_webVars => [PageNext]_pageVars
    BY DEF WebNext, Only, webVars
  <1> QED
    BY <1>1, <1>2, PTL DEF WebSpec

\* Seen through the variables of the analysis page, a behaviour of the web
\* application is a behaviour of that part alone.
LEMMA AnalysisPart == WebSpec => AnalysisInit /\ [][AnalysisNext]_analysisVars
  <1>1. WebInit => AnalysisInit
    BY DEF WebInit
  <1>2. [WebNext]_webVars => [AnalysisNext]_analysisVars
    BY DEF WebNext, Only, webVars
  <1> QED
    BY <1>1, <1>2, PTL DEF WebSpec

\* Seen through the variables of the watchlist page, a behaviour of the web
\* application is a behaviour of that part alone.
LEMMA ListPart == WebSpec => ListInit /\ [][ListNext]_listVars
  <1>1. WebInit => ListInit
    BY DEF WebInit
  <1>2. [WebNext]_webVars => [ListNext]_listVars
    BY DEF WebNext, Only, webVars
  <1> QED
    BY <1>1, <1>2, PTL DEF WebSpec

\* Seen through the variables of the backtest pages, a behaviour of the web
\* application is a behaviour of that part alone.
LEMMA PanelsPart == WebSpec => PanelsInit /\ [][PanelsNext]_panelVars
  <1>1. WebInit => PanelsInit
    BY DEF WebInit
  <1>2. [WebNext]_webVars => [PanelsNext]_panelVars
    BY DEF WebNext, Only, webVars
  <1> QED
    BY <1>1, <1>2, PTL DEF WebSpec

\* Seen through the variables of the backtest endpoint, a behaviour of the web
\* application is a behaviour of that part alone.
LEMMA RunsPart == WebSpec => RunsInit /\ [][RunsNext]_runVars
  <1>1. WebInit => RunsInit
    BY DEF WebInit
  <1>2. [WebNext]_webVars => [RunsNext]_runVars
    BY DEF WebNext, Only, webVars
  <1> QED
    BY <1>1, <1>2, PTL DEF WebSpec

\* Seen through the variables of the provider's chart pages, a behaviour of the web
\* application is a behaviour of that part alone.
LEMMA ChartsPart == WebSpec => ChartsInit /\ [][ChartsNext]_chartVars
  <1>1. WebInit => ChartsInit
    BY DEF WebInit
  <1>2. [WebNext]_webVars => [ChartsNext]_chartVars
    BY DEF WebNext, Only, webVars
  <1> QED
    BY <1>1, <1>2, PTL DEF WebSpec

\* Seen through the variables of the notifications, a behaviour of the web
\* application is a behaviour of that part alone.
LEMMA NotifyPart == WebSpec => NotifyInit /\ [][NotifyNext]_notifyVars
  <1>1. WebInit => NotifyInit
    BY DEF WebInit
  <1>2. [WebNext]_webVars => [NotifyNext]_notifyVars
    BY DEF WebNext, Only, webVars
  <1> QED
    BY <1>1, <1>2, PTL DEF WebSpec

\* The part that moves is chosen at the start and never changes.
LEMMA OnePartMoves == WebSpec => [](part \in Parts)
  <1>1. WebInit => part \in Parts
    BY DEF WebInit
  <1>2. part \in Parts /\ [WebNext]_webVars => (part \in Parts)'
    BY DEF WebNext, Only, webVars
  <1> QED
    BY <1>1, <1>2, PTL DEF WebSpec

\* Every variable of the request/response side keeps its type, whatever the
\* sets of tabs, dates, runs, symbols, days and providers.
THEOREM WebTypeOKAlways == WebSpec => []WebTypeOK
  <1>1. WebSpec => [](AuthTypeOK /\ ResultsTypeOK /\ PageTypeOK)
    BY AuthPart, ResultsPart, ScreenerPart, AuthTypes, ReadersSeeOneState,
       ScreenerPageIsRight, PTL
  <1>2. WebSpec => [](AnalysisTypeOK /\ ListTypeOK /\ PanelsTypeOK)
    BY AnalysisPart, ListPart, PanelsPart, AnalysisPageIsRight, WatchlistPageIsRight,
       BacktestPagesAreRight, PTL
  <1>3. WebSpec => [](RunsTypeOK /\ ChartsTypeOK /\ NotifyTypeOK)
    BY RunsPart, ChartsPart, NotifyPart, RunsAreStoredWhole, ChartHasEveryDay,
       RunIsAnnouncedOnce, PTL
  <1>4. /\ part \in Parts
        /\ AuthTypeOK /\ ResultsTypeOK /\ PageTypeOK
        /\ AnalysisTypeOK /\ ListTypeOK /\ PanelsTypeOK
        /\ RunsTypeOK /\ ChartsTypeOK /\ NotifyTypeOK
        => WebTypeOK
    BY DEF WebTypeOK
  <1> QED
    BY <1>1, <1>2, <1>3, <1>4, OnePartMoves, PTL

\* Each page shows the data of the date, symbol, run or page number chosen
\* last: the four component theorems about late answers, in one statement.
THEOREM LateAnswersAreDropped == WebSpec => []PagesShowTheSelection
  <1>1. WebSpec => [](ShownIsSelected /\ AnalysisIsForSymbol /\ ListMatchesDate)
    BY ScreenerPart, AnalysisPart, ListPart, ScreenerPageIsRight, AnalysisPageIsRight,
       WatchlistPageIsRight, PTL
  <1>2. WebSpec => [](SelectionIsLastChoice /\ PanelIsForRun /\ RowsAreThePage)
    BY PanelsPart, BacktestPagesAreRight, PTL
  <1>3. /\ ShownIsSelected /\ AnalysisIsForSymbol /\ ListMatchesDate
        /\ SelectionIsLastChoice /\ PanelIsForRun /\ RowsAreThePage
        => PagesShowTheSelection
    BY DEF PagesShowTheSelection
  <1> QED
    BY <1>1, <1>2, <1>3, PTL

\* No page is left spinning: the request that takes an indicator off is open
\* as long as the indicator is on, and a page at rest shows data or an error.
THEOREM IndicatorsAreOwned == WebSpec => []PagesSettle
  <1>1. WebSpec => [](LoadingHasAnOwner /\ RunIsWaiting /\ SpinnerIsOwned)
    BY ScreenerPart, AnalysisPart, ScreenerPageIsRight, AnalysisPageIsRight, PTL
  <1>2. WebSpec => [](ListSettles /\ PanelIsServed)
    BY ListPart, PanelsPart, WatchlistPageIsRight, BacktestPagesAreRight, PTL
  <1>3. /\ LoadingHasAnOwner /\ RunIsWaiting /\ SpinnerIsOwned
        /\ ListSettles /\ PanelIsServed
        => PagesSettle
    BY DEF PagesSettle
  <1> QED
    BY <1>1, <1>2, <1>3, PTL

\* The remaining properties of the run, for every behaviour of the whole: the
\* browser is left with a cookie it can refresh with and a login has one
\* session, a reader sees one committed state, a run is fetched once and
\* stored whole, a chart has every day, and a notification is sent once.
THEOREM PartsKeepTheirPromises ==
  WebSpec => [](/\ CookieIsUsable /\ SessionsOfALogin /\ ReadersAreConsistent
                /\ OneFetchPerRun /\ StoredRunsAreSound /\ ChartIsWhole /\ NotifiedOnce)
  <1>1. WebSpec => [](CookieIsUsable /\ SessionsOfALogin /\ ReadersAreConsistent)
    BY AuthPart, ResultsPart, CookieStaysUsable, LoginHasOneSession, ReadersSeeOneState, PTL
  <1>2. WebSpec => [](OneFetchPerRun /\ StoredRunsAreSound /\ ChartIsWhole /\ NotifiedOnce)
    BY PanelsPart, RunsPart, ChartsPart, NotifyPart, CacheFetchesOnce, RunsAreStoredWhole,
       ChartHasEveryDay, RunIsAnnouncedOnce, PTL
  <1> QED
    BY <1>1, <1>2, PTL
=============================================================================
