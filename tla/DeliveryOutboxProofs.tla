------------------------ MODULE DeliveryOutboxProofs ------------------------
(***************************************************************************)
(* Theorems about DeliveryOutbox, for every set of calls, administrators,  *)
(* lines, periods and requests and every bound on the attempts.            *)
(*                                                                         *)
(* TypeOK and DeliveredPeriodSound are proved from one inductive           *)
(* invariant.  Its parts speak of the tables (who holds a row, and which   *)
(* rows can be held), and most actions change the tables in one of a few   *)
(* ways, so there is one lemma for each way (write, commit, lease,         *)
(* rollback, insert, refresh) and the actions cite them.                   *)
(***************************************************************************)
EXTENDS DeliveryOutbox, TLAPS

CallStates     == {"idle", "claiming", "publishing", "replied", "completing"}
ResolverStates == {"idle", "locking", "resolving"}

\* What an invocation works on, in the places where it works on something.
ControlInv ==
  /\ \A c \in Calls :
       /\ pc[c] \in CallStates
       /\ Working(c) => claim[c] \in Claim
       /\ pc[c] \in {"replied", "completing"} => claim[c].outcome \in Outcomes
  /\ \A a \in Resolvers :
       /\ pc[a] \in ResolverStates
       /\ pc[a] # "idle" => request[a] \in Requests

\* A locked row was pending, in_flight or settled when it was locked, and its new
\* version is out of flight; an unlocked row has one version.
RowsInv ==
  \A d \in Deliveries :
    /\ holder[d] = NoOne => written[d] = lines[d]
    /\ holder[d] # NoOne => /\ lines[d].status \notin {"absent", "delivered"}
                            /\ written[d].status \notin {"absent", "in_flight"}
                            /\ written[d].owner = NoWorker

\* The same for the rows of billing_periods; a line exists exactly with its period.
PeriodsInv ==
  /\ \A p \in Periods :
       /\ periodHolder[p] = NoOne => periodWritten[p] = periods[p]
       /\ periodHolder[p] # NoOne => /\ periods[p] # "absent"
                                     /\ periodWritten[p] # "absent"
  /\ \A d \in Deliveries : lines[d].status = "absent" <=> periods[PeriodOf[d]] = "absent"

\* A refresh is owed only for rows the transaction holds, and computed only for
\* periods that exist.
RefreshInv ==
  \A x \in Actors :
    /\ \A d \in todo[x] : holder[d] = x
    /\ reading[x] # NoReading => periods[reading[x].period] # "absent"

\* Every line of p is delivered in the rows of an image.
AllDelivered(image, p) ==
  \A d \in Deliveries : PeriodOf[d] = p => image[d].status = "delivered"

\* "delivered" is true of the committed rows where it is committed, and of the rows
\* the transaction sees where it is still private: written, or only computed.
SoundInv ==
  /\ \A p \in Periods : periods[p] = "delivered" => AllDelivered(lines, p)
  /\ \A x \in Actors, p \in Periods :
       periodHolder[p] = x /\ periodWritten[p] = "delivered" => AllDelivered(Seen(x), p)
  /\ \A x \in Actors :
       reading[x] # NoReading /\ reading[x].status = "delivered"
         => AllDelivered(Seen(x), reading[x].period)

TableInv == RowsInv /\ PeriodsInv /\ RefreshInv /\ SoundInv
IInv     == TypeOK /\ ControlInv /\ TableInv

-----------------------------------------------------------------------------
(***************************************************************************)
(* Operators.                                                              *)
(***************************************************************************)

\* refresh_period_status yields a status a period may have, and "delivered" only from
\* an image in which every line of the period is delivered.
LEMMA PeriodStatusMeaning ==
  ASSUME NEW image, NEW p
  PROVE  /\ PeriodStatusOf(image, p) \in PeriodStates \ {"absent"}
         /\ PeriodStatusOf(image, p) = "delivered" => AllDelivered(image, p)
<1> DEFINE states == {image[d].status : d \in {e \in Deliveries : PeriodOf[e] = p}}
<1>1. PeriodStatusOf(image, p) \in PeriodStates \ {"absent"}
  BY DEF PeriodStatusOf, PeriodStates
<1>2. PeriodStatusOf(image, p) = "delivered" => states = {"delivered"}
  BY DEF PeriodStatusOf
<1>3. states = {"delivered"} => AllDelivered(image, p)
  BY DEF AllDelivered
<1> QED
  BY <1>1, <1>2, <1>3

\* What a transaction sees is typed like the table.
LEMMA SeenType ==
  ASSUME TypeOK, NEW x
  PROVE  /\ Seen(x) \in [Deliveries -> Line]
         /\ SeenPeriods(x) \in [Periods -> PeriodStates]
  BY DEF TypeOK, Seen, SeenPeriods

-----------------------------------------------------------------------------
(***************************************************************************)
(* The ways the tables change.                                             *)
(***************************************************************************)

\* An UPDATE of unlocked rows that are neither absent nor delivered.
LEMMA WriteKeepsTables ==
  ASSUME TypeOK, TableInv,
         NEW x \in Actors, NEW ds \in SUBSET Deliveries,
         Unlocked(ds),
         \A d \in ds : lines[d].status \notin {"absent", "delivered"},
         \A d \in ds : /\ written'[d].status \notin {"absent", "in_flight"}
                       /\ written'[d].owner = NoWorker,
         \A d \in Deliveries \ ds : written'[d] = written[d],
         holder' = [d \in Deliveries |-> IF d \in ds THEN x ELSE holder[d]],
         todo' = [todo EXCEPT ![x] = ds],
         UNCHANGED <<lines, tables, reading>>
  PROVE  TableInv'
<1> USE ActorsAssumption
<1>1. RowsInv'
  BY DEF TableInv, RowsInv, TypeOK, Unlocked
<1>2. PeriodsInv'
  BY DEF TableInv, PeriodsInv, tables
<1>3. RefreshInv'
  BY DEF TableInv, RefreshInv, TypeOK, Unlocked, tables
<1>4. ASSUME NEW y \in Actors, NEW p, AllDelivered(Seen(y), p)
      PROVE  AllDelivered(Seen(y), p)'
  BY <1>4 DEF AllDelivered, Seen, Unlocked
<1>5. SoundInv'
  <2>1. \A p \in Periods : periods'[p] = "delivered" => AllDelivered(lines, p)'
    BY DEF TableInv, SoundInv, AllDelivered, tables
  <2>2. ASSUME NEW y \in Actors, NEW p \in Periods,
               periodHolder'[p] = y, periodWritten'[p] = "delivered"
        PROVE  AllDelivered(Seen(y), p)'
    BY <1>4, <2>2 DEF TableInv, SoundInv, tables
  <2>3. ASSUME NEW y \in Actors, reading'[y] # NoReading, reading'[y].status = "delivered"
        PROVE  AllDelivered(Seen(y), reading[y].period)'
    <3>1. AllDelivered(Seen(y), reading[y].period)
      BY <2>3 DEF TableInv, SoundInv
    <3> QED
      BY <1>4, <3>1
  <2> QED
    BY <2>1, <2>2, <2>3 DEF SoundInv
<1> QED
  BY <1>1, <1>2, <1>3, <1>5 DEF TableInv

\* A COMMIT of a transaction that has no refresh left to do.
LEMMA CommitKeepsTables ==
  ASSUME TypeOK, TableInv, NEW x \in Actors,
         Refreshed(x), CommitRows(x), CommitPeriods(x), UNCHANGED <<todo, reading>>
  PROVE  TableInv'
<1> USE ActorsAssumption
<1>1. RowsInv'
  BY DEF TableInv, RowsInv, TypeOK, CommitRows, Seen
<1>2. PeriodsInv'
  <2>1. \A p \in Periods : periods'[p] = "absent" <=> periods[p] = "absent"
    BY DEF TableInv, PeriodsInv, CommitPeriods, SeenPeriods
  <2>2. \A d \in Deliveries : lines'[d].status = "absent" <=> lines[d].status = "absent"
    BY DEF TableInv, RowsInv, CommitRows, Seen
  <2> QED
    BY <2>1, <2>2, PeriodsAssumption
       DEF TableInv, PeriodsInv, CommitPeriods, SeenPeriods
<1>3. RefreshInv'
  <2>1. \A y \in Actors : \A d \in todo[y] : d \in Deliveries /\ holder[d] = y
    BY DEF TableInv, RefreshInv, TypeOK
  <2>2. \A y \in Actors : \A d \in todo'[y] : holder'[d] = y
    BY <2>1 DEF CommitRows, Refreshed
  <2>3. \A y \in Actors : reading[y] # NoReading =>
          reading[y].period \in Periods /\ periods[reading[y].period] # "absent"
    BY DEF TableInv, RefreshInv, TypeOK, Reading, NoReading
  <2>4. \A p \in Periods : periods'[p] = "absent" <=> periods[p] = "absent"
    BY DEF TableInv, PeriodsInv, CommitPeriods, SeenPeriods
  <2> QED
    BY <2>2, <2>3, <2>4 DEF RefreshInv
<1>4. ASSUME NEW y \in Actors, y # x, NEW p, AllDelivered(Seen(y), p)
      PROVE  AllDelivered(Seen(y), p)'
  <2> SUFFICES ASSUME NEW d \in Deliveries, PeriodOf[d] = p
               PROVE  Seen(y)'[d].status = "delivered"
    BY DEF AllDelivered
  <2>1. Seen(y)[d].status = "delivered"
    BY <1>4 DEF AllDelivered
  <2>2. holder[d] # x
    BY <1>4, <2>1 DEF TableInv, RowsInv, Seen
  <2> QED
    BY <1>4, <2>1, <2>2 DEF Seen, CommitRows
<1>5. ASSUME NEW p, AllDelivered(lines, p)
      PROVE  AllDelivered(lines, p)'
  BY <1>5 DEF AllDelivered, CommitRows, Seen, TableInv, RowsInv
<1>6. SoundInv'
  <2>1. ASSUME NEW p \in Periods, periods'[p] = "delivered"
        PROVE  AllDelivered(lines, p)'
    <3>1. CASE periodHolder[p] = x
      <4>1. AllDelivered(Seen(x), p)
        BY <2>1, <3>1 DEF CommitPeriods, SeenPeriods, TableInv, SoundInv
      <4> QED
        BY <4>1 DEF AllDelivered, CommitRows
    <3>2. CASE periodHolder[p] # x
      <4>1. AllDelivered(lines, p)
        BY <2>1, <3>2 DEF CommitPeriods, SeenPeriods, TableInv, SoundInv
      <4> QED
        BY <4>1, <1>5
    <3> QED
      BY <3>1, <3>2
  <2>2. ASSUME NEW y \in Actors, NEW p \in Periods,
               periodHolder'[p] = y, periodWritten'[p] = "delivered"
        PROVE  AllDelivered(Seen(y), p)'
    <3>1. y # x /\ periodHolder[p] = y
      BY <2>2 DEF CommitPeriods
    <3>2. AllDelivered(Seen(y), p)
      BY <2>2, <3>1 DEF CommitPeriods, TableInv, SoundInv
    <3> QED
      BY <1>4, <3>1, <3>2
  <2>3. ASSUME NEW y \in Actors, reading'[y] # NoReading, reading'[y].status = "delivered"
        PROVE  AllDelivered(Seen(y), reading[y].period)'
    <3>1. y # x /\ AllDelivered(Seen(y), reading[y].period)
      BY <2>3 DEF Refreshed, TableInv, SoundInv
    <3> QED
      BY <1>4, <3>1
  <2> QED
    BY <2>1, <2>2, <2>3 DEF SoundInv
<1> QED
  BY <1>1, <1>2, <1>3, <1>6 DEF TableInv

\* A ROLLBACK, which also drops what the transaction computed.
LEMMA RollbackKeepsTables ==
  ASSUME TypeOK, TableInv, NEW x \in Actors, Rollback(x)
  PROVE  TableInv'
<1> USE ActorsAssumption
<1>1. RowsInv'
  BY DEF TableInv, RowsInv, Rollback
<1>2. PeriodsInv'
  BY DEF TableInv, PeriodsInv, Rollback
<1>3. RefreshInv'
  <2>1. \A y \in Actors : \A d \in todo[y] : d \in Deliveries /\ holder[d] = y
    BY DEF TableInv, RefreshInv, TypeOK
  <2> QED
    BY <2>1 DEF TableInv, RefreshInv, TypeOK, Rollback, NoReading
<1>4. ASSUME NEW y \in Actors, y # x, NEW p, AllDelivered(Seen(y), p)
      PROVE  AllDelivered(Seen(y), p)'
  BY <1>4 DEF AllDelivered, Seen, Rollback
<1>5. SoundInv'
  <2>1. \A p \in Periods : periods'[p] = "delivered" => AllDelivered(lines, p)'
    BY DEF TableInv, SoundInv, AllDelivered, Rollback
  <2>2. ASSUME NEW y \in Actors, NEW p \in Periods,
               periodHolder'[p] = y, periodWritten'[p] = "delivered"
        PROVE  AllDelivered(Seen(y), p)'
    <3>1. y # x /\ periodHolder[p] = y /\ periodWritten[p] = "delivered"
      BY <2>2 DEF Rollback
    <3> QED
      BY <1>4, <3>1 DEF TableInv, SoundInv
  <2>3. ASSUME NEW y \in Actors, reading'[y] # NoReading, reading'[y].status = "delivered"
        PROVE  AllDelivered(Seen(y), reading[y].period)'
    <3>1. y # x /\ reading'[y] = reading[y]
      BY <2>3 DEF Rollback, TypeOK
    <3>2. AllDelivered(Seen(y), reading[y].period)
      BY <2>3, <3>1 DEF TableInv, SoundInv
    <3> QED
      BY <1>4, <3>1, <3>2
  <2> QED
    BY <2>1, <2>2, <2>3 DEF SoundInv
<1> QED
  BY <1>1, <1>2, <1>3, <1>5 DEF TableInv

\* The last statement of a claim: commit, and lease a row that is pending or whose
\* lease has run out.
LEMMA ClaimKeepsTables ==
  ASSUME TypeOK, TableInv, NEW c \in Calls, NEW w \in Workers, NEW d \in Deliveries,
         ClaimNext(c, w, d)
  PROVE  TableInv'
<1> DEFINE leased == [lines[d] EXCEPT !.status = "in_flight", !.attempts = @ + 1, !.owner = w]
<1> USE ActorsAssumption
<1>0. /\ c \in Actors /\ Refreshed(c) /\ CommitPeriods(c) /\ UNCHANGED <<todo, reading>>
      /\ lines' = [Seen(c) EXCEPT ![d] = leased]
      /\ written' = [written EXCEPT ![d] = leased]
      /\ holder' = [e \in Deliveries |-> IF holder[e] = c THEN NoOne ELSE holder[e]]
  BY DEF ClaimNext, Actors
<1>1. /\ holder[d] = NoOne
      /\ lines[d].status \in {"pending", "in_flight"}
  BY <1>0 DEF ClaimNext, Claimable, Unlocked, Seen, Actors
<1>2. leased.status = "in_flight"
  BY DEF TypeOK, Line
<1>3. \A e \in Deliveries : e # d => lines'[e] = Seen(c)[e] /\ written'[e] = written[e]
  BY <1>0 DEF Seen, TypeOK
<1>4. lines'[d] = leased /\ written'[d] = leased /\ holder'[d] = NoOne
  BY <1>0, <1>1 DEF Seen, TypeOK
<1>5. RowsInv'
  <2> SUFFICES ASSUME NEW e \in Deliveries
               PROVE  /\ holder'[e] = NoOne => written'[e] = lines'[e]
                      /\ holder'[e] # NoOne => /\ lines'[e].status \notin {"absent", "delivered"}
                                               /\ written'[e].status \notin {"absent", "in_flight"}
                                               /\ written'[e].owner = NoWorker
    BY DEF RowsInv
  <2>1. CASE e = d
    BY <2>1, <1>4
  <2>2. CASE e # d
    BY <2>2, <1>0, <1>3 DEF Seen, TableInv, RowsInv
  <2> QED
    BY <2>1, <2>2
<1>6. \A p \in Periods : periods'[p] = "absent" <=> periods[p] = "absent"
  BY <1>0 DEF TableInv, PeriodsInv, CommitPeriods, SeenPeriods
<1>7. PeriodsInv'
  <2>1. ASSUME NEW e \in Deliveries
        PROVE  lines'[e].status = "absent" <=> lines[e].status = "absent"
    <3>1. CASE e = d
      <4> HIDE DEF leased
      <4> QED
        BY <1>1, <1>2, <1>4, <3>1
    <3>2. CASE e # d
      <4>1. lines'[e] = Seen(c)[e]
        BY <1>3, <3>2
      <4>2. Seen(c)[e].status = "absent" <=> lines[e].status = "absent"
        <5>1. CASE holder[e] = c
          <6>1. holder[e] # NoOne
            BY <1>0, <5>1
          <6>2. written[e].status # "absent" /\ lines[e].status # "absent"
            BY <6>1 DEF TableInv, RowsInv
          <6> QED
            BY <5>1, <6>2 DEF Seen
        <5>2. CASE holder[e] # c
          BY <5>2 DEF Seen
        <5> QED
          BY <5>1, <5>2
      <4> QED
        BY <4>1, <4>2
    <3> QED
      BY <3>1, <3>2
  <2> QED
    BY <2>1, <1>0, <1>6, PeriodsAssumption
       DEF TableInv, PeriodsInv, CommitPeriods, SeenPeriods
<1>8. RefreshInv'
  <2>1. \A y \in Actors : \A e \in todo[y] : e \in Deliveries /\ holder[e] = y
    BY DEF TableInv, RefreshInv, TypeOK
  <2>2. \A y \in Actors : \A e \in todo'[y] : holder'[e] = y
    BY <2>1, <1>0 DEF Refreshed
  <2>3. \A y \in Actors : reading[y] # NoReading =>
          reading[y].period \in Periods /\ periods[reading[y].period] # "absent"
    BY DEF TableInv, RefreshInv, TypeOK, Reading, NoReading
  <2> QED
    BY <2>2, <2>3, <1>0, <1>6 DEF RefreshInv
<1>9. ASSUME NEW y \in Actors, y # c, NEW p, AllDelivered(Seen(y), p)
      PROVE  AllDelivered(Seen(y), p)'
  <2> SUFFICES ASSUME NEW e \in Deliveries, PeriodOf[e] = p
               PROVE  Seen(y)'[e].status = "delivered"
    BY DEF AllDelivered
  <2>1. Seen(y)[e].status = "delivered"
    BY <1>9 DEF AllDelivered
  <2>2. holder[e] # c /\ e # d
    BY <1>0, <1>1, <1>9, <2>1 DEF TableInv, RowsInv, Seen
  <2> QED
    BY <1>0, <1>3, <1>9, <2>1, <2>2 DEF Seen
<1>10. ASSUME NEW p, AllDelivered(Seen(c), p)
       PROVE  AllDelivered(lines, p)'
  <2>1. PeriodOf[d] # p
    BY <1>0, <1>1, <1>10 DEF AllDelivered, Seen
  <2> QED
    BY <1>3, <1>10, <2>1 DEF AllDelivered
<1>11. ASSUME NEW p, AllDelivered(lines, p)
       PROVE  AllDelivered(Seen(c), p)
  BY <1>11 DEF AllDelivered, Seen, TableInv, RowsInv
<1>12. SoundInv'
  <2>1. ASSUME NEW p \in Periods, periods'[p] = "delivered"
        PROVE  AllDelivered(lines, p)'
    <3>1. AllDelivered(Seen(c), p)
      BY <2>1, <1>0, <1>11 DEF CommitPeriods, SeenPeriods, TableInv, SoundInv
    <3> QED
      BY <3>1, <1>10
  <2>2. ASSUME NEW y \in Actors, NEW p \in Periods,
               periodHolder'[p] = y, periodWritten'[p] = "delivered"
        PROVE  AllDelivered(Seen(y), p)'
    <3>1. y # c /\ periodHolder[p] = y /\ periodWritten[p] = "delivered"
      BY <2>2, <1>0 DEF CommitPeriods
    <3> QED
      BY <1>9, <3>1 DEF TableInv, SoundInv
  <2>3. ASSUME NEW y \in Actors, reading'[y] # NoReading, reading'[y].status = "delivered"
        PROVE  AllDelivered(Seen(y), reading[y].period)'
    <3>1. y # c /\ AllDelivered(Seen(y), reading[y].period)
      BY <2>3, <1>0 DEF Refreshed, TableInv, SoundInv
    <3> QED
      BY <1>0, <1>9, <3>1
  <2> QED
    BY <2>1, <2>2, <2>3 DEF SoundInv
<1> QED
  BY <1>5, <1>7, <1>8, <1>12 DEF TableInv

\* The insert of a period with all its lines.
LEMMA InsertKeepsTables ==
  ASSUME TypeOK, TableInv, NEW p \in Periods, ClosePeriod(p)
  PROVE  TableInv'
<1> USE ActorsAssumption, PeriodsAssumption
<1>1. \A d \in Deliveries : PeriodOf[d] = p =>
        /\ lines[d].status = "absent" /\ holder[d] = NoOne
        /\ lines'[d] = NewLine("pending") /\ written'[d] = NewLine("pending")
  BY DEF ClosePeriod, TableInv, PeriodsInv, RowsInv
<1>2. \A d \in Deliveries : PeriodOf[d] # p => lines'[d] = lines[d] /\ written'[d] = written[d]
  BY DEF ClosePeriod
<1>3. RowsInv'
  BY <1>1, <1>2 DEF ClosePeriod, TableInv, RowsInv
<1>4. periodHolder[p] = NoOne
  BY DEF ClosePeriod, TableInv, PeriodsInv
<1>5. PeriodsInv'
  <2>1. NewLine("pending").status # "absent"
    BY DEF NewLine
  <2> QED
    BY <1>1, <1>2, <1>4, <2>1 DEF ClosePeriod, TableInv, PeriodsInv, TypeOK
<1>6. RefreshInv'
  BY DEF ClosePeriod, TableInv, RefreshInv, TypeOK
<1>7. ASSUME NEW y \in Actors, NEW q, q # p
      PROVE  /\ AllDelivered(Seen(y), q) => AllDelivered(Seen(y), q)'
             /\ AllDelivered(lines, q) => AllDelivered(lines, q)'
  BY <1>2, <1>7 DEF AllDelivered, Seen, ClosePeriod
<1>8. SoundInv'
  <2>1. ASSUME NEW q \in Periods, periods'[q] = "delivered"
        PROVE  AllDelivered(lines, q)'
    <3>1. q # p /\ periods[q] = "delivered"
      BY <2>1 DEF ClosePeriod, TypeOK
    <3> QED
      BY <1>2, <3>1 DEF TableInv, SoundInv, AllDelivered
  <2>2. ASSUME NEW y \in Actors, NEW q \in Periods,
               periodHolder'[q] = y, periodWritten'[q] = "delivered"
        PROVE  AllDelivered(Seen(y), q)'
    <3>1. q # p /\ periodHolder[q] = y /\ periodWritten[q] = "delivered"
      BY <2>2, <1>4 DEF ClosePeriod, TypeOK
    <3> QED
      BY <1>7, <3>1 DEF TableInv, SoundInv
  <2>3. ASSUME NEW y \in Actors, reading'[y] # NoReading, reading'[y].status = "delivered"
        PROVE  AllDelivered(Seen(y), reading[y].period)'
    <3>1. reading'[y] = reading[y] /\ reading[y].period # p
      BY <2>3 DEF ClosePeriod, TableInv, RefreshInv
    <3>2. AllDelivered(Seen(y), reading[y].period)
      BY <2>3, <3>1 DEF TableInv, SoundInv
    <3> QED
      BY <1>7, <3>1, <3>2
  <2> QED
    BY <2>1, <2>2, <2>3 DEF SoundInv
<1> QED
  BY <1>3, <1>5, <1>6, <1>8 DEF TableInv

\* The two halves of a refresh.
LEMMA RefreshKeepsTables ==
  ASSUME TypeOK, TableInv, NEW x \in Actors, Refreshing(x)
  PROVE  TableInv'
<1> USE ActorsAssumption, PeriodsAssumption
<1>1. CASE RefreshRead(x)
  <2>1. PICK d \in todo[x] :
          /\ reading' = [reading EXCEPT ![x] =
                           [period |-> PeriodOf[d],
                            status |-> RefreshedStatus(x, PeriodOf[d])]]
          /\ todo' = [todo EXCEPT ![x] = @ \ {d}]
    BY <1>1 DEF RefreshRead
  <2>2. UNCHANGED <<rows, tables>>
    BY <1>1 DEF RefreshRead
  <2>3. d \in Deliveries /\ holder[d] = x /\ periods[PeriodOf[d]] # "absent"
    BY <2>1 DEF TypeOK, TableInv, RefreshInv, RowsInv, PeriodsInv
  <2>4. RowsInv' /\ PeriodsInv'
    BY <2>2 DEF TableInv, RowsInv, PeriodsInv, rows, tables
  <2>5. reading' = [reading EXCEPT ![x] = reading'[x]] /\ reading'[x].period = PeriodOf[d]
    BY <2>1 DEF TypeOK
  <2>6. RefreshInv'
    BY <2>1, <2>2, <2>3, <2>5 DEF TableInv, RefreshInv, TypeOK, rows, tables
  <2>7. reading'[x].status = "delivered" => AllDelivered(Seen(x), PeriodOf[d])
    BY <2>1, PeriodStatusMeaning DEF TypeOK, RefreshedStatus
  <2>8. SoundInv'
    <3>1. \A y, p : AllDelivered(Seen(y), p) => AllDelivered(Seen(y), p)'
      BY <2>2 DEF AllDelivered, Seen, rows
    <3>2. \A p \in Periods : periods'[p] = "delivered" => AllDelivered(lines, p)'
      BY <2>2 DEF AllDelivered, TableInv, SoundInv, rows, tables
    <3>3. ASSUME NEW y \in Actors, reading'[y] # NoReading, reading'[y].status = "delivered"
          PROVE  AllDelivered(Seen(y), reading'[y].period)
      <4>1. CASE y = x
        BY <2>5, <2>7, <3>3, <4>1
      <4>2. CASE y # x
        BY <2>5, <3>3, <4>2 DEF TableInv, SoundInv, TypeOK
      <4> QED
        BY <4>1, <4>2
    <3> QED
      BY <2>2, <3>1, <3>2, <3>3 DEF TableInv, SoundInv, tables
  <2> QED
    BY <2>4, <2>6, <2>8 DEF TableInv
<1>2. CASE RefreshWrite(x)
  <2> DEFINE p == reading[x].period
  <2>1. p \in Periods /\ reading[x].status \in PeriodStates \ {"absent"} /\ periods[p] # "absent"
    BY <1>2 DEF RefreshWrite, TypeOK, Reading, NoReading, TableInv, RefreshInv
  <2>2. RowsInv' /\ RefreshInv'
    BY <1>2 DEF RefreshWrite, TableInv, RowsInv, RefreshInv, TypeOK, rows
  <2>3. PeriodsInv'
    BY <1>2, <2>1 DEF RefreshWrite, TableInv, PeriodsInv, TypeOK, rows
  <2>4. \A y, q : AllDelivered(Seen(y), q) => AllDelivered(Seen(y), q)'
    BY <1>2 DEF RefreshWrite, AllDelivered, Seen, rows
  <2>5. \A q \in Periods : periods'[q] = "delivered" => AllDelivered(lines, q)'
    BY <1>2 DEF RefreshWrite, AllDelivered, TableInv, SoundInv, rows
  <2>6. ASSUME NEW y \in Actors, NEW q \in Periods,
               periodHolder'[q] = y, periodWritten'[q] = "delivered"
        PROVE  AllDelivered(Seen(y), q)
    <3>1. CASE q = p
      <4>1. y = x /\ reading[x].status = "delivered"
        BY <1>2, <2>1, <2>6, <3>1 DEF RefreshWrite, TypeOK
      <4> QED
        BY <1>2, <3>1, <4>1 DEF RefreshWrite, TableInv, SoundInv
    <3>2. CASE q # p
      BY <1>2, <2>6, <3>2 DEF RefreshWrite, TypeOK, TableInv, SoundInv
    <3> QED
      BY <3>1, <3>2
  <2>7. ASSUME NEW y \in Actors, reading'[y] # NoReading, reading'[y].status = "delivered"
        PROVE  AllDelivered(Seen(y), reading'[y].period)
    BY <1>2, <2>7 DEF RefreshWrite, TypeOK, TableInv, SoundInv
  <2> QED
    BY <2>2, <2>3, <2>4, <2>5, <2>6, <2>7 DEF TableInv, SoundInv
<1> QED
  BY <1>1, <1>2 DEF Refreshing

\* The other actions leave the tables and the refreshes alone.
LEMMA OthersKeepTables ==
  ASSUME TableInv, UNCHANGED <<lines, written, holder, tables, todo, reading>>
  PROVE  TableInv'
  BY DEF TableInv, RowsInv, PeriodsInv, RefreshInv, SoundInv, AllDelivered, Seen, tables

\* Each action keeps the invariant of the tables.
LEMMA NextKeepsTables == IInv /\ [Next]_vars => TableInv'
<1> SUFFICES ASSUME IInv, [Next]_vars PROVE TableInv'
  OBVIOUS
<1> USE DEF IInv
<1>1. ASSUME NEW p \in Periods, ClosePeriod(p) PROVE TableInv'
  BY <1>1, InsertKeepsTables
<1>2. ASSUME NEW c \in Calls, Claiming(c) PROVE TableInv'
  <2>0. c \in Actors
    BY DEF Actors
  <2>1. CASE ClaimBegin(c)
    <3>1. \A d \in Exhausted : lines[d].status = "pending" /\ d \in Deliveries
      BY DEF Exhausted
    <3>2. \A d \in Exhausted : /\ written'[d].status = "failed"
                               /\ written'[d].owner = NoWorker
      BY <2>1, <3>1 DEF ClaimBegin, WriteRows, TypeOK, Line
    <3>3. Exhausted \in SUBSET Deliveries
      BY <3>1
    <3>4. \A d \in Deliveries \ Exhausted : written'[d] = written[d]
      BY <2>1 DEF ClaimBegin, WriteRows
    <3> QED
      BY <2>0, <2>1, <3>1, <3>2, <3>3, <3>4, WriteKeepsTables DEF ClaimBegin, WriteRows
  <2>2. CASE ClaimIdle(c)
    BY <2>0, <2>2, CommitKeepsTables DEF ClaimIdle
  <2>3. ASSUME NEW w \in Workers, NEW d \in Deliveries, ClaimNext(c, w, d) PROVE TableInv'
    BY <2>3, ClaimKeepsTables
  <2> QED
    BY <1>2, <2>1, <2>2, <2>3 DEF Claiming
<1>3. ASSUME NEW c \in Calls, SinkReply(c) PROVE TableInv'
  BY <1>3, OthersKeepTables DEF SinkReply, rows
<1>4. ASSUME NEW c \in Calls, Completing(c) PROVE TableInv'
  <2>0. c \in Actors
    BY DEF Actors
  <2>1. CASE CompleteBegin(c)
    <3> DEFINE d == claim[c].delivery
    <3>1. claim[c] \in Claim /\ claim[c].outcome \in Outcomes
      BY <2>1 DEF CompleteBegin, ControlInv, Working
    <3>2. d \in Deliveries /\ lines[d].status = "in_flight"
      BY <2>1, <3>1 DEF CompleteBegin, Owns, Claim
    <3>3. written'[d].status \in Outcomes /\ written'[d].owner = NoWorker
      BY <2>1, <3>1, <3>2 DEF CompleteBegin, WriteRows, Completed, TypeOK, Line
    <3>4. \A e \in Deliveries \ {d} : written'[e] = written[e]
      BY <2>1 DEF CompleteBegin, WriteRows
    <3> QED
      BY <2>0, <2>1, <3>2, <3>3, <3>4, WriteKeepsTables DEF CompleteBegin, WriteRows, Outcomes
  <2>2. CASE CompleteLost(c)
    BY <2>2, OthersKeepTables DEF CompleteLost, rows
  <2>3. CASE CompleteCommit(c)
    BY <2>0, <2>3, CommitKeepsTables DEF CompleteCommit
  <2> QED
    BY <1>4, <2>1, <2>2, <2>3 DEF Completing
<1>5. ASSUME NEW a \in Resolvers, Resolving(a) PROVE TableInv'
  <2>0. a \in Actors
    BY DEF Actors
  <2>1. CASE ResolveLock(a)
    <3> DEFINE r == request[a]
               d == r.delivery
    <3>1. r \in Requests /\ d \in Deliveries /\ r.resolution \in Resolutions
      BY <2>1, RequestsAssumption DEF ResolveLock, ControlInv
    <3>2. lines[d].status \in Settled
      BY <2>1 DEF ResolveLock, Resolvable
    <3>3. written'[d] = Resolved(r)
      BY <2>1, <3>1 DEF ResolveLock, WriteRows
    <3>4. /\ Resolved(r).status \notin {"absent", "in_flight"}
          /\ Resolved(r).owner = NoWorker
      BY <3>1, <3>2 DEF Resolved, Resolutions, Settled, TypeOK, Line
    <3>5. \A e \in Deliveries \ {d} : written'[e] = written[e]
      BY <2>1 DEF ResolveLock, WriteRows
    <3> QED
      BY <2>0, <2>1, <3>1, <3>2, <3>3, <3>4, <3>5, WriteKeepsTables
         DEF ResolveLock, WriteRows, Settled
  <2>2. CASE ResolveRefuse(a)
    BY <2>2, OthersKeepTables DEF ResolveRefuse, rows
  <2>3. CASE ResolveCommit(a)
    BY <2>0, <2>3, CommitKeepsTables DEF ResolveCommit
  <2>4. CASE ResolveDuplicate(a)
    BY <2>0, <2>4, RollbackKeepsTables DEF ResolveDuplicate
  <2> QED
    BY <1>5, <2>1, <2>2, <2>3, <2>4 DEF Resolving
<1>6. ASSUME NEW a \in Resolvers, NEW r \in Requests, ResolveStart(a, r) PROVE TableInv'
  BY <1>6, OthersKeepTables DEF ResolveStart, rows
<1>7. ASSUME NEW x \in Actors, Refreshing(x) PROVE TableInv'
  BY <1>7, RefreshKeepsTables
<1>8. ASSUME NEW x \in Actors, Die(x) PROVE TableInv'
  BY <1>8, RollbackKeepsTables DEF Die
<1>9. ASSUME NEW d \in Deliveries, LeaseExpires(d) PROVE TableInv'
  BY <1>9, OthersKeepTables DEF LeaseExpires
<1>10. CASE UNCHANGED vars
  BY <1>10, OthersKeepTables DEF vars, rows
<1> QED
  BY <1>1, <1>2, <1>3, <1>4, <1>5, <1>6, <1>7, <1>8, <1>9, <1>10 DEF Next

-----------------------------------------------------------------------------
(***************************************************************************)
(* Control and types.                                                      *)
(***************************************************************************)

\* Each action leaves every invocation with what its place calls for.
LEMMA NextKeepsControl == IInv /\ [Next]_vars => ControlInv'
<1> SUFFICES ASSUME IInv, [Next]_vars PROVE ControlInv'
  OBVIOUS
<1> USE ActorsAssumption DEF IInv, ControlInv, CallStates, ResolverStates, Working, Actors
<1>1. ASSUME NEW p \in Periods, ClosePeriod(p) PROVE ControlInv'
  BY <1>1 DEF ClosePeriod, calls
<1>2. ASSUME NEW c \in Calls, Claiming(c) PROVE ControlInv'
  <2>1. CASE ClaimBegin(c)
    BY <2>1 DEF ClaimBegin, TypeOK
  <2>2. CASE ClaimIdle(c)
    BY <2>2 DEF ClaimIdle, TypeOK
  <2>3. ASSUME NEW w \in Workers, NEW d \in Deliveries, ClaimNext(c, w, d) PROVE ControlInv'
    <3> DEFINE n == lines[d].attempts + 1
               k == [delivery |-> d, worker |-> w, attempt |-> n, outcome |-> "none"]
    <3>1. lines[d].attempts \in 0..MaxAttempts /\ lines[d].attempts < MaxAttempts
      BY <2>3, AttemptsAssumption DEF ClaimNext, Claimable, Unlocked, Seen, TypeOK, Line
    <3>2. k \in Claim
      BY <3>1, AttemptsAssumption DEF Claim
    <3>3. claim' = [claim EXCEPT ![c] = k]
      BY <2>3, <3>1 DEF ClaimNext, TypeOK, Line
    <3> QED
      BY <2>3, <3>2, <3>3 DEF ClaimNext, TypeOK
  <2> QED
    BY <1>2, <2>1, <2>2, <2>3 DEF Claiming
<1>3. ASSUME NEW c \in Calls, SinkReply(c) PROVE ControlInv'
  <2>1. PICK o \in Outcomes : claim' = [claim EXCEPT ![c].outcome = o]
    BY <1>3 DEF SinkReply
  <2>2. claim[c] \in Claim
    BY <1>3 DEF SinkReply
  <2>3. claim'[c] \in Claim /\ claim'[c].outcome \in Outcomes
    BY <2>1, <2>2 DEF Claim, TypeOK
  <2> QED
    BY <1>3, <2>1, <2>3 DEF SinkReply, TypeOK
<1>4. ASSUME NEW c \in Calls, Completing(c) PROVE ControlInv'
  BY <1>4 DEF Completing, CompleteBegin, CompleteLost, CompleteCommit, TypeOK
<1>5. ASSUME NEW a \in Resolvers, Resolving(a) PROVE ControlInv'
  BY <1>5 DEF Resolving, ResolveLock, ResolveRefuse, ResolveCommit, ResolveDuplicate, TypeOK
<1>6. ASSUME NEW a \in Resolvers, NEW r \in Requests, ResolveStart(a, r) PROVE ControlInv'
  BY <1>6 DEF ResolveStart, TypeOK
<1>7. ASSUME NEW x \in Actors, Refreshing(x) PROVE ControlInv'
  BY <1>7 DEF Refreshing, RefreshRead, RefreshWrite, calls
<1>8. ASSUME NEW x \in Actors, Die(x) PROVE ControlInv'
  BY <1>8 DEF Die, TypeOK
<1>9. ASSUME NEW d \in Deliveries, LeaseExpires(d) PROVE ControlInv'
  BY <1>9 DEF LeaseExpires, calls
<1>10. CASE UNCHANGED vars
  BY <1>10 DEF vars, calls
<1> QED
  BY <1>1, <1>2, <1>3, <1>4, <1>5, <1>6, <1>7, <1>8, <1>9, <1>10 DEF Next

\* The part of the type invariant that speaks of the tables.
TablesTyped ==
  /\ lines \in [Deliveries -> Line]
  /\ written \in [Deliveries -> Line]
  /\ holder \in [Deliveries -> Actors \cup {NoOne}]
  /\ periods \in [Periods -> PeriodStates]
  /\ periodWritten \in [Periods -> PeriodStates]
  /\ periodHolder \in [Periods -> Actors \cup {NoOne}]
  /\ expired \subseteq {d \in Deliveries : lines[d].status = "in_flight"}
  /\ \A d \in Deliveries : lines[d].status = "in_flight" <=> lines[d].owner # NoWorker

\* A commit publishes typed rows, and leases exactly with the rows in flight.
LEMMA CommitKeepsTypes ==
  ASSUME TypeOK, RowsInv, NEW x \in Actors, CommitRows(x), CommitPeriods(x)
  PROVE  TablesTyped'
<1>1. \A d \in Deliveries : Seen(x)[d].status = "in_flight" <=> Seen(x)[d].owner # NoWorker
  BY ActorsAssumption DEF TypeOK, RowsInv, Seen
<1>2. expired' \subseteq {d \in Deliveries : lines'[d].status = "in_flight"}
  BY DEF CommitRows, LeasesOf, TypeOK
<1> QED
  BY <1>1, <1>2, SeenType DEF TablesTyped, TypeOK, CommitRows, CommitPeriods

\* A rollback restores typed rows.
LEMMA RollbackKeepsTypes ==
  ASSUME TypeOK, NEW x \in Actors, Rollback(x)
  PROVE  /\ TablesTyped'
         /\ todo' \in [Actors -> SUBSET Deliveries]
         /\ reading' \in [Actors -> Reading \cup {NoReading}]
  BY DEF TablesTyped, TypeOK, Rollback

\* The updates of a line that the code makes yield lines.
LEMMA LineUpdates ==
  ASSUME NEW r \in Line, NEW s \in LineStates, NEW w \in Workers \cup {NoWorker},
         NEW f \in {"none", "sink", "operator"}
  PROVE  /\ [r EXCEPT !.status = s] \in Line
         /\ [r EXCEPT !.status = s, !.owner = w, !.reference = f] \in Line
         /\ r.attempts < MaxAttempts =>
              [r EXCEPT !.status = s, !.attempts = @ + 1, !.owner = w] \in Line
<1>1. [r EXCEPT !.status = s] \in Line
  BY DEF Line
<1>2. [r EXCEPT !.status = s, !.owner = w, !.reference = f] \in Line
  BY DEF Line
<1>3. ASSUME r.attempts < MaxAttempts
      PROVE  [r EXCEPT !.status = s, !.attempts = @ + 1, !.owner = w] \in Line
  <2>1. r.attempts + 1 \in 0..MaxAttempts
    BY <1>3, AttemptsAssumption DEF Line
  <2> QED
    BY <2>1 DEF Line
<1> QED
  BY <1>1, <1>2, <1>3

\* So does a resolution.
LEMMA ResolvedIsLine ==
  ASSUME NEW r, lines[r.delivery] \in Line, r.resolution \in Resolutions
  PROVE  Resolved(r) \in Line
<1> DEFINE s == IF r.resolution = "retry" THEN "pending" ELSE r.resolution
           f == IF r.resolution # "retry" /\ r.reference THEN "operator" ELSE "none"
<1>1. s \in LineStates /\ f \in {"none", "sink", "operator"}
  BY DEF Resolutions, LineStates
<1>2. Resolved(r) = [lines[r.delivery] EXCEPT !.status = s, !.reference = f]
  BY DEF Resolved
<1> HIDE DEF s, f
<1> QED
  BY <1>1, <1>2 DEF Line

\* Each action keeps every variable in its type.
LEMMA NextKeepsTypes == IInv /\ [Next]_vars => TypeOK'
<1> SUFFICES ASSUME IInv, [Next]_vars PROVE TypeOK'
  OBVIOUS
<1> USE DEF IInv, TypeOK, Actors
<1>1. ASSUME NEW p \in Periods, ClosePeriod(p) PROVE TypeOK'
  <2>1. NewLine("pending") \in Line /\ NewLine("pending").status = "pending"
           /\ NewLine("pending").owner = NoWorker
    BY AttemptsAssumption DEF NewLine, Line, LineStates
  <2>2. \A d \in Deliveries : PeriodOf[d] = p => lines[d].status = "absent"
    BY <1>1 DEF ClosePeriod, TableInv, PeriodsInv
  <2>3. /\ lines' \in [Deliveries -> Line] /\ written' \in [Deliveries -> Line]
        /\ expired' \subseteq {d \in Deliveries : lines'[d].status = "in_flight"}
        /\ \A d \in Deliveries : lines'[d].status = "in_flight" <=> lines'[d].owner # NoWorker
    BY <1>1, <2>1, <2>2 DEF ClosePeriod
  <2>4. periods' \in [Periods -> PeriodStates] /\ periodWritten' \in [Periods -> PeriodStates]
    BY <1>1 DEF ClosePeriod, PeriodStates
  <2> QED
    BY <1>1, <2>3, <2>4 DEF ClosePeriod, calls
<1>2. ASSUME NEW c \in Calls, Claiming(c) PROVE TypeOK'
  <2>1. CASE ClaimBegin(c)
    <3>1. \A d \in Deliveries : [lines[d] EXCEPT !.status = "failed"] \in Line
      BY LineUpdates DEF LineStates
    <3>2. written' \in [Deliveries -> Line] /\ holder' \in [Deliveries -> Actors \cup {NoOne}]
      BY <2>1, <3>1 DEF ClaimBegin, WriteRows
    <3>3. todo' \in [Actors -> SUBSET Deliveries]
      BY <2>1 DEF ClaimBegin, Exhausted
    <3> QED
      BY <2>1, <3>2, <3>3 DEF ClaimBegin, WriteRows, tables
  <2>2. CASE ClaimIdle(c)
    <3>1. TablesTyped'
      BY <2>2, CommitKeepsTypes DEF ClaimIdle, TableInv
    <3> QED
      BY <2>2, <3>1 DEF ClaimIdle, TablesTyped
  <2>3. ASSUME NEW w \in Workers, NEW d \in Deliveries, ClaimNext(c, w, d) PROVE TypeOK'
    <3> DEFINE leased == [lines[d] EXCEPT !.status = "in_flight", !.attempts = @ + 1, !.owner = w]
               k == [delivery |-> d, worker |-> w, attempt |-> leased.attempts, outcome |-> "none"]
    <3>1. holder[d] # c /\ lines[d].attempts < MaxAttempts
      BY <2>3, ActorsAssumption DEF ClaimNext, Claimable, Unlocked, Seen
    <3>2. leased \in Line
      BY <3>1, LineUpdates DEF LineStates
    <3>3. leased.status = "in_flight" /\ leased.owner = w /\ w # NoWorker
      BY ActorsAssumption DEF Line
    <3>4. k \in Claim
      BY <3>1, AttemptsAssumption DEF Claim, Line
    <3>5. \A e \in Deliveries : Seen(c)[e].status = "in_flight" <=> Seen(c)[e].owner # NoWorker
      BY ActorsAssumption DEF TableInv, RowsInv, Seen
    <3>6. /\ lines' = [Seen(c) EXCEPT ![d] = leased]
          /\ written' = [written EXCEPT ![d] = leased]
          /\ expired' = LeasesOf(Seen(c)) \ {d}
          /\ CommitPeriods(c)
      BY <2>3 DEF ClaimNext
    <3>7. /\ lines' \in [Deliveries -> Line] /\ written' \in [Deliveries -> Line]
          /\ expired' \subseteq {e \in Deliveries : lines'[e].status = "in_flight"}
          /\ \A e \in Deliveries : lines'[e].status = "in_flight" <=> lines'[e].owner # NoWorker
      BY <3>2, <3>3, <3>5, <3>6, SeenType DEF LeasesOf
    <3>8. /\ periods' \in [Periods -> PeriodStates] /\ periodWritten' \in [Periods -> PeriodStates]
          /\ periodHolder' \in [Periods -> Actors \cup {NoOne}]
      BY <3>6, SeenType DEF CommitPeriods
    <3>9. /\ claim' \in [Calls -> Claim \cup {NoClaim}]
          /\ holder' \in [Deliveries -> Actors \cup {NoOne}]
      BY <2>3, <3>4 DEF ClaimNext
    <3> QED
      BY <2>3, <3>7, <3>8, <3>9 DEF ClaimNext
  <2> QED
    BY <1>2, <2>1, <2>2, <2>3 DEF Claiming
<1>3. ASSUME NEW c \in Calls, SinkReply(c) PROVE TypeOK'
  <2>1. PICK o \in Outcomes :
          /\ claim' = [claim EXCEPT ![c].outcome = o]
          /\ charged' \in {charged, charged \cup {claim[c].delivery}}
    BY <1>3 DEF SinkReply, Outcomes
  <2>2. claim[c] \in Claim
    BY <1>3 DEF SinkReply, ControlInv, Working
  <2>3. claim'[c] \in Claim /\ claim[c].delivery \in Deliveries
    BY <2>1, <2>2 DEF Claim
  <2>4. claim' \in [Calls -> Claim \cup {NoClaim}] /\ charged' \subseteq Deliveries
    BY <2>1, <2>3
  <2> QED
    BY <1>3, <2>4 DEF SinkReply, rows, tables
<1>4. ASSUME NEW c \in Calls, Completing(c) PROVE TypeOK'
  <2>1. CASE CompleteBegin(c)
    <3> DEFINE d == claim[c].delivery
    <3>1. d \in Deliveries /\ claim[c].outcome \in Outcomes
      BY <2>1 DEF CompleteBegin, ControlInv, Working, Claim
    <3>2. Completed(c) \in Line
      BY <3>1, LineUpdates DEF Completed, Outcomes, LineStates
    <3>3. written' \in [Deliveries -> Line] /\ holder' \in [Deliveries -> Actors \cup {NoOne}]
      BY <2>1, <3>2 DEF CompleteBegin, WriteRows
    <3> QED
      BY <2>1, <3>1, <3>3 DEF CompleteBegin, WriteRows, tables
  <2>2. CASE CompleteLost(c)
    BY <2>2 DEF CompleteLost, rows, tables
  <2>3. CASE CompleteCommit(c)
    <3>1. TablesTyped'
      BY <2>3, CommitKeepsTypes DEF CompleteCommit, TableInv
    <3> QED
      BY <2>3, <3>1 DEF CompleteCommit, TablesTyped
  <2> QED
    BY <1>4, <2>1, <2>2, <2>3 DEF Completing
<1>5. ASSUME NEW a \in Resolvers, Resolving(a) PROVE TypeOK'
  <2>1. CASE ResolveLock(a)
    <3> DEFINE r == request[a]
    <3>1. r.delivery \in Deliveries /\ r.resolution \in Resolutions
      BY <2>1, RequestsAssumption DEF ResolveLock, ControlInv
    <3>2. Resolved(r) \in Line
      BY <3>1, ResolvedIsLine
    <3>3. written' \in [Deliveries -> Line] /\ holder' \in [Deliveries -> Actors \cup {NoOne}]
      BY <2>1, <3>2 DEF ResolveLock, WriteRows
    <3> QED
      BY <2>1, <3>1, <3>3 DEF ResolveLock, WriteRows, tables
  <2>2. CASE ResolveRefuse(a)
    BY <2>2 DEF ResolveRefuse, rows, tables
  <2>3. CASE ResolveCommit(a)
    <3>1. TablesTyped'
      BY <2>3, CommitKeepsTypes DEF ResolveCommit, TableInv
    <3>2. commands' \subseteq Requests
      BY <2>3 DEF ResolveCommit, StoreCommand, ControlInv
    <3> QED
      BY <2>3, <3>1, <3>2 DEF ResolveCommit, TablesTyped
  <2>4. CASE ResolveDuplicate(a)
    BY <2>4, RollbackKeepsTypes DEF ResolveDuplicate, TablesTyped
  <2> QED
    BY <1>5, <2>1, <2>2, <2>3, <2>4 DEF Resolving
<1>6. ASSUME NEW a \in Resolvers, NEW r \in Requests, ResolveStart(a, r) PROVE TypeOK'
  BY <1>6 DEF ResolveStart, rows, tables
<1>7. ASSUME NEW x \in Actors, Refreshing(x) PROVE TypeOK'
  <2>1. CASE RefreshRead(x)
    <3>1. PICK d \in todo[x] :
            /\ reading' = [reading EXCEPT ![x] =
                             [period |-> PeriodOf[d],
                              status |-> RefreshedStatus(x, PeriodOf[d])]]
            /\ todo' = [todo EXCEPT ![x] = @ \ {d}]
      BY <2>1 DEF RefreshRead
    <3>2. [period |-> PeriodOf[d], status |-> RefreshedStatus(x, PeriodOf[d])] \in Reading
      BY PeriodStatusMeaning, PeriodsAssumption DEF RefreshedStatus, Reading
    <3> QED
      BY <2>1, <3>1, <3>2 DEF RefreshRead, rows, tables, calls
  <2>2. CASE RefreshWrite(x)
    <3>1. reading[x].period \in Periods /\ reading[x].status \in PeriodStates
      BY <2>2 DEF RefreshWrite, Reading
    <3> QED
      BY <2>2, <3>1 DEF RefreshWrite, rows, calls
  <2> QED
    BY <1>7, <2>1, <2>2 DEF Refreshing
<1>8. ASSUME NEW x \in Actors, Die(x) PROVE TypeOK'
  <2>1. charged' \subseteq Deliveries
    BY <1>8, ActorsAssumption DEF Die, ControlInv, Working, Claim, ResolverStates
  <2>2. deaths' \in 0..MaxDeaths
    BY <1>8, AttemptsAssumption DEF Die
  <2> QED
    BY <1>8, <2>1, <2>2, RollbackKeepsTypes DEF Die, TablesTyped
<1>9. ASSUME NEW d \in Deliveries, LeaseExpires(d) PROVE TypeOK'
  BY <1>9 DEF LeaseExpires, tables, calls
<1>10. CASE UNCHANGED vars
  BY <1>10 DEF vars, rows, tables, calls
<1> QED
  BY <1>1, <1>2, <1>3, <1>4, <1>5, <1>6, <1>7, <1>8, <1>9, <1>10 DEF Next

-----------------------------------------------------------------------------
(***************************************************************************)
(* Theorems.                                                               *)
(***************************************************************************)
LEMMA InitIInv == Init => IInv
<1> SUFFICES ASSUME Init PROVE IInv
  OBVIOUS
<1>1. NewLine("absent") \in Line
  BY AttemptsAssumption DEF NewLine, Line, LineStates
<1>2. TypeOK
  BY <1>1, AttemptsAssumption DEF Init, TypeOK, Actors, PeriodStates, NewLine
<1>3. ControlInv
  BY DEF Init, ControlInv, CallStates, ResolverStates, Working, Actors
<1>4. TableInv
  BY PeriodsAssumption, ActorsAssumption
     DEF Init, TableInv, RowsInv, PeriodsInv, RefreshInv, SoundInv, NewLine
<1> QED
  BY <1>2, <1>3, <1>4 DEF IInv

\* The invariant that carries the theorems below.
THEOREM Inductive == Spec => []IInv
<1>1. IInv /\ [Next]_vars => IInv'
  BY NextKeepsTypes, NextKeepsControl, NextKeepsTables DEF IInv
<1> QED
  BY <1>1, InitIInv, PTL DEF Spec

\* Every variable stays in its type, and a row has a lease exactly while it is in
\* flight, for any number of calls, administrators, lines, periods and attempts.
THEOREM TypeCorrect == Spec => []TypeOK
<1>1. IInv => TypeOK
  BY DEF IInv
<1> QED
  BY <1>1, Inductive, PTL

\* No period is ever reported delivered while one of its lines is not, whatever
\* refreshes of it race: refresh_period_status is at worst late, never early.
THEOREM DeliveredPeriodsAreSound == Spec => []DeliveredPeriodSound
<1>1. IInv => DeliveredPeriodSound
  BY DEF IInv, TableInv, SoundInv, AllDelivered, DeliveredPeriodSound
<1> QED
  BY <1>1, Inductive, PTL

\* One step, whoever takes it, leaves every delivered line as it is.
LEMMA NextKeepsDelivered ==
  ASSUME IInv, Next, NEW d \in Deliveries, lines[d].status = "delivered"
  PROVE  lines'[d] = lines[d]
<1> USE DEF IInv, TableInv
<1>1. \A x \in Actors : Seen(x)[d] = lines[d]
  BY ActorsAssumption DEF RowsInv, Seen
<1>2. ASSUME NEW p \in Periods, ClosePeriod(p) PROVE lines'[d] = lines[d]
  BY <1>2 DEF ClosePeriod, PeriodsInv
<1>3. ASSUME NEW c \in Calls, Claiming(c) PROVE lines'[d] = lines[d]
  <2>1. ASSUME NEW w \in Workers, NEW e \in Deliveries, ClaimNext(c, w, e)
        PROVE  lines'[d] = lines[d]
    <3>1. Seen(c)[e].status # "delivered"
      BY <2>1 DEF ClaimNext, Claimable
    <3> QED
      BY <1>1, <2>1, <3>1, SeenType DEF ClaimNext, Actors
  <2> QED
    BY <1>1, <1>3, <2>1
       DEF Claiming, ClaimBegin, ClaimIdle, WriteRows, CommitRows, Actors
<1>4. ASSUME NEW c \in Calls, Completing(c) PROVE lines'[d] = lines[d]
  BY <1>1, <1>4
     DEF Completing, CompleteBegin, CompleteLost, CompleteCommit, WriteRows, CommitRows, rows,
         Actors
<1>5. ASSUME NEW a \in Resolvers, Resolving(a) PROVE lines'[d] = lines[d]
  BY <1>1, <1>5
     DEF Resolving, ResolveLock, ResolveRefuse, ResolveCommit, ResolveDuplicate, WriteRows,
         CommitRows, Rollback, rows, Actors
<1> QED
  BY <1>2, <1>3, <1>4, <1>5
     DEF Next, SinkReply, ResolveStart, Refreshing, RefreshRead, RefreshWrite, Die, Rollback,
         LeaseExpires, rows

\* A delivered line is charged for good: no retry, late completion, expired lease,
\* resolution or rollback takes it back or changes its provider reference.
THEOREM DeliveredStays == Spec => DeliveredIsFinal
<1>1. IInv /\ [Next]_vars =>
        [\A d \in Deliveries : lines[d].status = "delivered" => lines'[d] = lines[d]]_vars
  BY NextKeepsDelivered
<1> QED
  BY <1>1, Inductive, PTL DEF Spec, DeliveredIsFinal
=============================================================================
