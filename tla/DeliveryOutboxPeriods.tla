----------------------- MODULE DeliveryOutboxPeriods -----------------------
(***************************************************************************)
(* What DeliveryOutbox promises about period rows, for every instance: the *)
(* transactions that refresh them never wait for each other in a cycle,    *)
(* and a period of one line always shows the state of that line.           *)
(*                                                                         *)
(* Both follow from who may still owe a refresh.  A completion or a        *)
(* resolution changes one line and takes one period row.  A claim may take *)
(* several, one after the other, but it holds exhausted lines then, and    *)
(* any other claim would have to wait for these lines first.               *)
(***************************************************************************)
EXTENDS DeliveryOutboxProofs

\* x holds no row and owes no refresh.
Clean(x) ==
  /\ todo[x] = {} /\ reading[x] = NoReading
  /\ \A d \in Deliveries : holder[d] # x
  /\ \A p \in Periods : periodHolder[p] # x

\* A transaction with one line takes its period row with its last refresh.
OnePeriod(x) ==
  /\ \A d, e \in todo[x] : d = e
  /\ todo[x] # {} => reading[x] = NoReading
  /\ todo[x] # {} \/ reading[x] # NoReading => \A p \in Periods : periodHolder[p] # x

ClaimsApart ==
  \A x, y \in Actors, d, e \in Deliveries :
    pc[x] = "claiming" /\ pc[y] = "claiming" /\ holder[d] = x /\ holder[e] = y => x = y

LockInv ==
  /\ \A x \in Actors :
       /\ ~Clean(x) => OpenTransaction(x) /\ \E d \in Deliveries : holder[d] = x
       /\ pc[x] # "claiming" => OnePeriod(x)
       /\ pc[x] = "claiming" => \A d \in Deliveries : holder[d] = x => d \in Exhausted
  /\ ClaimsApart

-----------------------------------------------------------------------------
(***************************************************************************)
(* The steps, as far as rows and refreshes go.                             *)
(***************************************************************************)

\* Only x goes on to another place.
Alone(x) == \A y \in Actors \ {x} : pc'[y] = pc[y]

\* x opens a transaction with an UPDATE of the lines ds.
Takes(x, ds) ==
  /\ ~OpenTransaction(x) /\ OpenTransaction(x)' /\ Alone(x)
  /\ Unlocked(ds)
  /\ IF pc'[x] = "claiming" THEN ds = Exhausted ELSE \E d \in Deliveries : ds = {d}
  /\ holder' = [d \in Deliveries |-> IF d \in ds THEN x ELSE holder[d]]
  /\ \A d \in Deliveries \ ds : written'[d] = written[d]
  /\ todo' = [todo EXCEPT ![x] = ds]
  /\ UNCHANGED <<lines, tables, reading>>

\* x commits, perhaps with a lease of a row nobody holds.
Finishes(x) ==
  /\ ~OpenTransaction(x)' /\ Alone(x) /\ Refreshed(x)
  /\ holder' = [d \in Deliveries |-> IF holder[d] = x THEN NoOne ELSE holder[d]]
  /\ \A d \in Deliveries :
       \/ lines'[d] = Seen(x)[d] /\ written'[d] = written[d]
       \/ /\ holder[d] = NoOne
          /\ lines[d].status \in {"pending", "in_flight"} /\ lines'[d].status = "in_flight"
  /\ CommitPeriods(x)
  /\ UNCHANGED <<todo, reading>>

Aborts(x) == ~OpenTransaction(x)' /\ Alone(x) /\ Rollback(x)

\* Neither rows nor refreshes change, and no transaction opens or ends.
Elsewhere ==
  /\ UNCHANGED <<lines, written, holder, tables, todo, reading>>
  /\ \A y \in Actors : pc'[y] # pc[y] => ~OpenTransaction(y) /\ ~OpenTransaction(y)'

LEMMA Steps ==
  ASSUME IInv, [Next]_vars
  PROVE  \/ \E p \in Periods : ClosePeriod(p)
         \/ \E x \in Actors : \/ \E ds \in SUBSET Deliveries : Takes(x, ds)
                              \/ RefreshRead(x) \/ RefreshWrite(x)
                              \/ Finishes(x) \/ Aborts(x)
         \/ Elsewhere
<1> USE DEF IInv
<1>1. ASSUME NEW c \in Calls, Claiming(c)
      PROVE  c \in Actors /\ (Finishes(c) \/ \E ds \in SUBSET Deliveries : Takes(c, ds))
  <2>0. c \in Actors
    BY DEF Actors
  <2>1. CASE ClaimBegin(c)
    <3>1. Takes(c, Exhausted)
      BY <2>0, <2>1 DEF ClaimBegin, WriteRows, Takes, Alone, OpenTransaction, TypeOK
    <3>2. Exhausted \in SUBSET Deliveries
      BY DEF Exhausted
    <3> QED
      BY <2>0, <3>1, <3>2
  <2>2. CASE ClaimIdle(c)
    BY <2>0, <2>2
       DEF ClaimIdle, CommitRows, Finishes, Alone, OpenTransaction, TypeOK
  <2>3. ASSUME NEW w \in Workers, NEW d \in Deliveries, ClaimNext(c, w, d)
        PROVE  Finishes(c)
    <3> DEFINE leased == [lines[d] EXCEPT !.status = "in_flight", !.attempts = @ + 1, !.owner = w]
    <3>1. holder[d] = NoOne /\ lines[d].status \in {"pending", "in_flight"}
      BY <2>0, <2>3, ActorsAssumption DEF ClaimNext, Claimable, Unlocked, Seen
    <3>2. /\ lines' = [Seen(c) EXCEPT ![d] = leased]
          /\ written' = [written EXCEPT ![d] = leased]
          /\ holder' = [e \in Deliveries |-> IF holder[e] = c THEN NoOne ELSE holder[e]]
          /\ Refreshed(c) /\ CommitPeriods(c) /\ UNCHANGED <<todo, reading>>
          /\ ~OpenTransaction(c)' /\ Alone(c)
      BY <2>0, <2>3 DEF ClaimNext, OpenTransaction, Alone, TypeOK
    <3>3. leased.status = "in_flight"
      BY DEF TypeOK, Line
    <3>4. lines'[d] = leased
      BY <3>2 DEF Seen
    <3>5. \A e \in Deliveries \ {d} : lines'[e] = Seen(c)[e] /\ written'[e] = written[e]
      BY <3>2 DEF Seen, TypeOK
    <3> HIDE DEF leased
    <3> QED
      BY <3>1, <3>2, <3>3, <3>4, <3>5 DEF Finishes
  <2> QED
    BY <1>1, <2>0, <2>1, <2>2, <2>3 DEF Claiming
<1>2. ASSUME NEW c \in Calls, Completing(c)
      PROVE  /\ c \in Actors
             /\ Finishes(c) \/ Elsewhere \/ \E ds \in SUBSET Deliveries : Takes(c, ds)
  <2>0. c \in Actors
    BY DEF Actors
  <2>1. CASE CompleteBegin(c)
    <3>1. claim[c].delivery \in Deliveries
      BY <2>1 DEF CompleteBegin, ControlInv, Working, Claim
    <3>2. Takes(c, {claim[c].delivery})
      BY <2>0, <2>1, <3>1
         DEF CompleteBegin, WriteRows, Takes, Alone, OpenTransaction, TypeOK
    <3> QED
      BY <2>0, <3>1, <3>2
  <2>2. CASE CompleteLost(c)
    BY <2>0, <2>2 DEF CompleteLost, Elsewhere, OpenTransaction, rows, TypeOK
  <2>3. CASE CompleteCommit(c)
    BY <2>0, <2>3
       DEF CompleteCommit, CommitRows, Finishes, Alone, OpenTransaction, TypeOK
  <2> QED
    BY <1>2, <2>0, <2>1, <2>2, <2>3 DEF Completing
<1>3. ASSUME NEW a \in Resolvers, Resolving(a)
      PROVE  /\ a \in Actors
             /\ \/ Finishes(a) \/ Aborts(a) \/ Elsewhere
                \/ \E ds \in SUBSET Deliveries : Takes(a, ds)
  <2>0. a \in Actors
    BY DEF Actors
  <2>1. CASE ResolveLock(a)
    <3>1. request[a].delivery \in Deliveries
      BY <2>1, RequestsAssumption DEF ResolveLock, ControlInv
    <3>2. Takes(a, {request[a].delivery})
      BY <2>0, <2>1, <3>1
         DEF ResolveLock, WriteRows, Takes, Alone, OpenTransaction, TypeOK
    <3> QED
      BY <2>0, <3>1, <3>2
  <2>2. CASE ResolveRefuse(a)
    BY <2>0, <2>2 DEF ResolveRefuse, Elsewhere, OpenTransaction, rows, TypeOK
  <2>3. CASE ResolveCommit(a)
    BY <2>0, <2>3
       DEF ResolveCommit, CommitRows, Finishes, Alone, OpenTransaction, TypeOK
  <2>4. CASE ResolveDuplicate(a)
    BY <2>0, <2>4 DEF ResolveDuplicate, Aborts, Alone, OpenTransaction, TypeOK
  <2> QED
    BY <1>3, <2>0, <2>1, <2>2, <2>3, <2>4 DEF Resolving
<1>4. ASSUME NEW a \in Resolvers, NEW r \in Requests, ResolveStart(a, r)
      PROVE  Elsewhere
  BY <1>4 DEF ResolveStart, Elsewhere, OpenTransaction, rows, TypeOK, Actors
<1>5. ASSUME NEW c \in Calls, SinkReply(c)
      PROVE  Elsewhere
  BY <1>5 DEF SinkReply, Elsewhere, OpenTransaction, rows, TypeOK, Actors
<1>6. ASSUME NEW x \in Actors, Die(x)
      PROVE  Aborts(x)
  BY <1>6 DEF Die, Aborts, Alone, OpenTransaction, TypeOK
<1>7. ASSUME NEW d \in Deliveries, LeaseExpires(d)
      PROVE  Elsewhere
  BY <1>7 DEF LeaseExpires, Elsewhere, calls
<1>8. CASE UNCHANGED vars
  BY <1>8 DEF vars, rows, calls, Elsewhere
<1> QED
  BY <1>1, <1>2, <1>3, <1>4, <1>5, <1>6, <1>7, <1>8 DEF Next, Refreshing

-----------------------------------------------------------------------------
(***************************************************************************)
(* Locks.                                                                  *)
(***************************************************************************)

\* A step that leaves the rows, the periods and the refreshes of y alone.
LEMMA CleanKept ==
  ASSUME NEW y \in Actors, Clean(y),
         todo'[y] = todo[y], reading'[y] = reading[y],
         \A d \in Deliveries : holder'[d] = y => holder[d] = y,
         \A p \in Periods : periodHolder'[p] = y => periodHolder[p] = y
  PROVE  Clean(y)'
  BY DEF Clean, NoReading

LEMMA TakesKeepsLocks ==
  ASSUME IInv, LockInv, NEW x \in Actors, NEW ds \in SUBSET Deliveries, Takes(x, ds)
  PROVE  LockInv'
<1> USE DEF IInv
<1>0. Clean(x)
  BY DEF LockInv, Takes
<1>1. \A y \in Actors \ {x} : todo'[y] = todo[y] /\ pc'[y] = pc[y]
  BY DEF Takes, Alone, TypeOK
<1>2. \A y \in Actors : reading'[y] = reading[y]
  BY DEF Takes
<1>3. \A p \in Periods : periodHolder'[p] = periodHolder[p]
  BY DEF Takes, tables
<1>4. \A y \in Actors \ {x}, d \in Deliveries : holder'[d] = y <=> holder[d] = y
  BY ActorsAssumption DEF Takes, Unlocked
<1>5. /\ \A d \in Deliveries : holder'[d] = x <=> d \in ds
      /\ todo'[x] = ds
  BY <1>0 DEF Takes, Clean, TypeOK
<1>6. \A y \in Actors : ~Clean(y)' =>
        OpenTransaction(y)' /\ \E d \in Deliveries : holder'[d] = y
  <2>1. ASSUME NEW y \in Actors, y # x, ~Clean(y)'
        PROVE  OpenTransaction(y)' /\ \E d \in Deliveries : holder'[d] = y
    BY <2>1, <1>1, <1>2, <1>3, <1>4, CleanKept DEF LockInv, OpenTransaction
  <2>2. ASSUME ~Clean(x)'
        PROVE  OpenTransaction(x)' /\ \E d \in Deliveries : holder'[d] = x
    <3>1. ds # {}
      BY <2>2, <1>0, <1>2, <1>3, <1>5 DEF Clean, NoReading
    <3> QED
      BY <3>1, <1>5 DEF Takes
  <2> QED
    BY <2>1, <2>2
<1>7. \A y \in Actors : pc'[y] # "claiming" => OnePeriod(y)'
  <2>1. ASSUME NEW y \in Actors, y # x, pc'[y] # "claiming"
        PROVE  OnePeriod(y)'
    BY <2>1, <1>1, <1>2, <1>3 DEF LockInv, OnePeriod, NoReading
  <2>2. ASSUME pc'[x] # "claiming"
        PROVE  OnePeriod(x)'
    BY <2>2, <1>0, <1>2, <1>3, <1>5 DEF Takes, OnePeriod, Clean, NoReading
  <2> QED
    BY <2>1, <2>2
<1>8. \A y \in Actors : pc'[y] = "claiming" =>
        \A d \in Deliveries : holder'[d] = y => d \in Exhausted'
  BY <1>1, <1>4, <1>5 DEF LockInv, Takes, Exhausted
<1>9. ASSUME pc'[x] = "claiming"
      PROVE  \A y \in Actors \ {x}, d \in Deliveries :
               pc'[y] = "claiming" => holder'[d] # y
  BY <1>1, <1>4, <1>9, ActorsAssumption DEF LockInv, Takes, Unlocked
<1>10. ClaimsApart'
  BY <1>1, <1>4, <1>9 DEF LockInv, ClaimsApart
<1> QED
  BY <1>6, <1>7, <1>8, <1>10 DEF LockInv

LEMMA RefreshKeepsLocks ==
  ASSUME IInv, LockInv, NEW x \in Actors, Refreshing(x)
  PROVE  LockInv'
<1> USE DEF IInv
<1>0. UNCHANGED <<lines, holder, pc>>
  BY DEF Refreshing, RefreshRead, RefreshWrite, rows, calls
<1>1. ~Clean(x)
  BY DEF Refreshing, RefreshRead, RefreshWrite, Clean
<1>2. /\ \A y \in Actors \ {x} : todo'[y] = todo[y] /\ reading'[y] = reading[y]
      /\ \A y \in Actors \ {x}, p \in Periods : periodHolder'[p] = y => periodHolder[p] = y
  BY DEF Refreshing, RefreshRead, RefreshWrite, tables, TypeOK
<1>3. \A y \in Actors : ~Clean(y)' =>
        OpenTransaction(y)' /\ \E d \in Deliveries : holder'[d] = y
  BY <1>0, <1>1, <1>2, CleanKept DEF LockInv, OpenTransaction
<1>4. ASSUME pc[x] # "claiming" PROVE OnePeriod(x)'
  <2>0. OnePeriod(x)
    BY <1>4 DEF LockInv
  <2>1. CASE RefreshRead(x)
    <3>1. PICK d \in todo[x] : todo'[x] = todo[x] \ {d}
      BY <2>1 DEF RefreshRead, TypeOK
    <3>2. todo'[x] = {}
      BY <2>0, <3>1 DEF OnePeriod
    <3>3. \A p \in Periods : periodHolder'[p] # x
      BY <2>0, <2>1, <3>1 DEF OnePeriod, RefreshRead, tables
    <3> QED
      BY <3>2, <3>3 DEF OnePeriod
  <2>2. CASE RefreshWrite(x)
    <3>1. todo'[x] = {} /\ reading'[x] = NoReading
      BY <2>0, <2>2 DEF OnePeriod, RefreshWrite, TypeOK
    <3> QED
      BY <3>1 DEF OnePeriod, NoReading
  <2> QED
    BY <2>1, <2>2 DEF Refreshing
<1>5. ASSUME NEW y \in Actors, y # x, pc[y] # "claiming" PROVE OnePeriod(y)'
  BY <1>2, <1>5 DEF LockInv, OnePeriod, NoReading
<1>6. Exhausted' = Exhausted
  BY <1>0 DEF Exhausted
<1>7. ClaimsApart'
  BY <1>0 DEF LockInv, ClaimsApart
<1> QED
  BY <1>0, <1>3, <1>4, <1>5, <1>6, <1>7 DEF LockInv

\* A commit or a rollback: x is clean after it, and the others hold what they held.
LEMMA EndKeepsLocks ==
  ASSUME IInv, LockInv, NEW x \in Actors, Finishes(x) \/ Aborts(x)
  PROVE  LockInv'
<1> USE DEF IInv
<1>1. Clean(x)'
  BY ActorsAssumption
     DEF Finishes, Aborts, Rollback, CommitPeriods, Refreshed, Clean, NoReading, TypeOK
<1>2. \A y \in Actors \ {x} : /\ todo'[y] = todo[y] /\ reading'[y] = reading[y]
                              /\ pc'[y] = pc[y]
  BY DEF Finishes, Aborts, Rollback, Alone, TypeOK
<1>3. /\ \A y \in Actors \ {x}, d \in Deliveries : holder'[d] = y <=> holder[d] = y
      /\ \A y \in Actors \ {x}, p \in Periods : periodHolder'[p] = y <=> periodHolder[p] = y
  BY ActorsAssumption DEF Finishes, Aborts, Rollback, CommitPeriods
<1>4. \A y \in Actors \ {x}, d \in Deliveries : holder[d] = y => lines'[d] = lines[d]
  BY ActorsAssumption DEF Finishes, Aborts, Rollback, Seen
<1>5. \A y \in Actors : ~Clean(y)' =>
        OpenTransaction(y)' /\ \E d \in Deliveries : holder'[d] = y
  BY <1>1, <1>2, <1>3, CleanKept DEF LockInv, OpenTransaction
<1>6. pc'[x] # "claiming" /\ OnePeriod(x)'
  BY <1>1 DEF Finishes, Aborts, OpenTransaction, Clean, OnePeriod, NoReading
<1>7. ASSUME NEW y \in Actors, y # x, pc[y] # "claiming" PROVE OnePeriod(y)'
  BY <1>2, <1>3, <1>7 DEF LockInv, OnePeriod, NoReading
<1>8. ASSUME NEW y \in Actors, y # x, pc[y] = "claiming", NEW d \in Deliveries, holder'[d] = y
      PROVE  d \in Exhausted'
  <2>1. d \in Exhausted
    BY <1>3, <1>8 DEF LockInv
  <2> QED
    BY <2>1, <1>3, <1>4, <1>8 DEF Exhausted
<1>9. ClaimsApart'
  BY <1>2, <1>3, <1>6 DEF LockInv, ClaimsApart
<1> QED
  BY <1>2, <1>5, <1>6, <1>7, <1>8, <1>9 DEF LockInv

LEMMA ElsewhereKeepsLocks ==
  ASSUME IInv, LockInv, Elsewhere
  PROVE  LockInv'
<1>1. UNCHANGED <<lines, holder, periodHolder, todo, reading>>
  BY DEF Elsewhere, tables
<1>2. \A y \in Actors : pc'[y] = pc[y] \/ (Clean(y) /\ pc[y] # "claiming" /\ pc'[y] # "claiming")
  BY DEF Elsewhere, LockInv, OpenTransaction
<1>3. \A y \in Actors : Clean(y)' <=> Clean(y)
  BY <1>1 DEF Clean, NoReading
<1>4. \A y \in Actors : OnePeriod(y)' <=> OnePeriod(y)
  BY <1>1 DEF OnePeriod, NoReading
<1>5. Exhausted' = Exhausted
  BY <1>1 DEF Exhausted
<1>6. ClaimsApart'
  BY <1>1, <1>2 DEF LockInv, ClaimsApart
<1>7. \A y \in Actors : ~Clean(y)' =>
        OpenTransaction(y)' /\ \E d \in Deliveries : holder'[d] = y
  BY <1>1, <1>2, <1>3 DEF LockInv, OpenTransaction
<1> QED
  BY <1>1, <1>2, <1>4, <1>5, <1>6, <1>7 DEF LockInv

\* A new period has lines that nobody holds.
LEMMA CloseKeepsLocks ==
  ASSUME IInv, LockInv, NEW p \in Periods, ClosePeriod(p)
  PROVE  LockInv'
<1>1. UNCHANGED <<holder, periodHolder, pc, todo, reading>>
  BY DEF ClosePeriod, calls
<1>2. \A d \in Deliveries : holder[d] # NoOne => lines'[d] = lines[d]
  BY DEF ClosePeriod, IInv, TableInv, RowsInv, PeriodsInv
<1>3. \A y \in Actors : Clean(y)' <=> Clean(y)
  BY <1>1 DEF Clean, NoReading
<1>4. \A y \in Actors : OnePeriod(y)' <=> OnePeriod(y)
  BY <1>1 DEF OnePeriod, NoReading
<1>5. ASSUME NEW y \in Actors, pc[y] = "claiming", NEW d \in Deliveries, holder[d] = y
      PROVE  d \in Exhausted'
  <2>1. d \in Exhausted
    BY <1>5 DEF LockInv
  <2> QED
    BY <2>1, <1>2, <1>5, ActorsAssumption DEF Exhausted
<1>6. ClaimsApart'
  BY <1>1 DEF LockInv, ClaimsApart
<1>7. \A y \in Actors : ~Clean(y)' =>
        OpenTransaction(y)' /\ \E d \in Deliveries : holder'[d] = y
  BY <1>1, <1>3 DEF LockInv, OpenTransaction
<1> QED
  BY <1>1, <1>4, <1>5, <1>6, <1>7 DEF LockInv

\* The invariant behind the theorem on waits.
THEOREM InductiveLocks == Spec => [](IInv /\ LockInv)
<1>1. Init => LockInv
  BY ActorsAssumption DEF Init, LockInv, Clean, OnePeriod, ClaimsApart
<1>2. ASSUME IInv, LockInv, [Next]_vars PROVE LockInv'
  BY <1>2, Steps, CloseKeepsLocks, TakesKeepsLocks, RefreshKeepsLocks, EndKeepsLocks,
     ElsewhereKeepsLocks DEF Refreshing
<1> QED
  BY <1>1, <1>2, Inductive, PTL DEF Spec

\* No group of open transactions waits for period rows held inside the group: who waits
\* and holds a period row is a claim with exhausted lines, and there is only one.
THEOREM WaitsEnd == Spec => []NoLockWaitCycle
<1>1. IInv /\ LockInv => NoLockWaitCycle
  <2> SUFFICES ASSUME IInv, LockInv, NEW S \in SUBSET Actors, S # {},
                      \A x \in S : WaitsFor(x) \cap S # {}
               PROVE  FALSE
    BY DEF NoLockWaitCycle
  <2>1. ASSUME NEW x \in S
        PROVE  \E y \in S \ {x} : /\ pc[y] = "claiming"
                                  /\ \E d \in Deliveries : holder[d] = y
    <3>1. PICK y \in S : y \in WaitsFor(x)
      BY <2>1
    <3>2. /\ y # x /\ periodHolder[reading[x].period] = y
          /\ reading[x] # NoReading
      BY <3>1 DEF WaitsFor
    <3>3. reading[x].period \in Periods
      BY <2>1, <3>2 DEF IInv, TypeOK, Reading
    <3>4. reading[y] # NoReading
      BY <3>1 DEF WaitsFor
    <3>5. ~Clean(y) /\ ~OnePeriod(y)
      BY <3>2, <3>3, <3>4 DEF Clean, OnePeriod
    <3> QED
      BY <3>1, <3>2, <3>5 DEF LockInv
  <2>2. PICK x \in S : TRUE
    OBVIOUS
  <2>3. PICK y \in S : pc[y] = "claiming" /\ \E d \in Deliveries : holder[d] = y
    BY <2>1, <2>2
  <2>4. PICK z \in S \ {y} : pc[z] = "claiming" /\ \E d \in Deliveries : holder[d] = z
    BY <2>1, <2>3
  <2> QED
    BY <2>3, <2>4 DEF LockInv, ClaimsApart
<1> QED
  BY <1>1, InductiveLocks, PTL

-----------------------------------------------------------------------------
(***************************************************************************)
(* Periods of one line.                                                    *)
(***************************************************************************)
SingleLines == \A d, e \in Deliveries : PeriodOf[d] = PeriodOf[e] => d = e

\* The status of a period whose only line is this row.
StatusFor(row) ==
  IF row.status \in {"unknown", "failed", "delivered"} THEN row.status ELSE "pending"

LEMMA StatusOfOne ==
  ASSUME SingleLines, NEW image, NEW d \in Deliveries
  PROVE  PeriodStatusOf(image, PeriodOf[d]) = StatusFor(image[d])
<1>1. {e \in Deliveries : PeriodOf[e] = PeriodOf[d]} = {d}
  BY DEF SingleLines
<1>2. {image[e].status : e \in {f \in Deliveries : PeriodOf[f] = PeriodOf[d]}} = {image[d].status}
  BY <1>1
<1> QED
  BY <1>2 DEF PeriodStatusOf, StatusFor

Read(x, d) == reading[x] # NoReading /\ reading[x].period = PeriodOf[d]

\* The committed status is that of the line; what a transaction has written or computed
\* is that of its version of the line; and who holds the line has done so or will.
MirrorInv ==
  \A d \in Deliveries :
    /\ periods[PeriodOf[d]] # "absent" => periods[PeriodOf[d]] = StatusFor(lines[d])
    /\ \A x \in Actors :
         /\ periodHolder[PeriodOf[d]] = x =>
              holder[d] = x /\ periodWritten[PeriodOf[d]] = StatusFor(written[d])
         /\ Read(x, d) => holder[d] = x /\ reading[x].status = StatusFor(written[d])
         /\ holder[d] = x => d \in todo[x] \/ Read(x, d) \/ periodHolder[PeriodOf[d]] = x

LEMMA CloseMirrors ==
  ASSUME IInv, MirrorInv, NEW p \in Periods, ClosePeriod(p)
  PROVE  MirrorInv'
<1> USE DEF IInv
<1>1. UNCHANGED <<holder, periodHolder, todo, reading>>
  BY DEF ClosePeriod
<1> SUFFICES ASSUME NEW d \in Deliveries
             PROVE  /\ periods'[PeriodOf[d]] # "absent" =>
                         periods'[PeriodOf[d]] = StatusFor(lines'[d])
                    /\ \A x \in Actors :
                         /\ periodHolder[PeriodOf[d]] = x =>
                              holder[d] = x /\ periodWritten'[PeriodOf[d]] = StatusFor(written'[d])
                         /\ Read(x, d) =>
                              holder[d] = x /\ reading[x].status = StatusFor(written'[d])
                         /\ holder[d] = x =>
                              d \in todo[x] \/ Read(x, d) \/ periodHolder[PeriodOf[d]] = x
  BY <1>1 DEF MirrorInv, Read, NoReading
<1>2. CASE PeriodOf[d] = p
  <2>1. holder[d] = NoOne /\ periodHolder[p] = NoOne /\ \A x \in Actors : ~Read(x, d)
    BY <1>2 DEF ClosePeriod, TableInv, RowsInv, PeriodsInv, RefreshInv, Read
  <2>2. periods'[p] = "pending" /\ StatusFor(lines'[d]) = "pending"
    BY <1>2 DEF ClosePeriod, TypeOK, StatusFor, NewLine
  <2> QED
    BY <1>2, <2>1, <2>2, ActorsAssumption
<1>3. CASE PeriodOf[d] # p
  <2>1. /\ periods'[PeriodOf[d]] = periods[PeriodOf[d]]
        /\ periodWritten'[PeriodOf[d]] = periodWritten[PeriodOf[d]]
        /\ lines'[d] = lines[d] /\ written'[d] = written[d]
    BY <1>3, PeriodsAssumption DEF ClosePeriod, TypeOK
  <2> QED
    BY <2>1 DEF MirrorInv
<1> QED
  BY <1>2, <1>3

LEMMA TakesMirrors ==
  ASSUME IInv, LockInv, MirrorInv, NEW x \in Actors, NEW ds \in SUBSET Deliveries, Takes(x, ds)
  PROVE  MirrorInv'
<1> USE DEF IInv
<1>0. Clean(x)
  BY DEF LockInv, Takes
<1>1. /\ UNCHANGED <<lines, periods, periodWritten, periodHolder, reading>>
      /\ \A y \in Actors \ {x} : todo'[y] = todo[y]
      /\ todo'[x] = ds
  BY DEF Takes, tables, TypeOK
<1>2. \A y \in Actors, d \in Deliveries : Read(y, d)' <=> Read(y, d)
  BY <1>1 DEF Read, NoReading
<1>3. ASSUME NEW d \in ds, NEW y \in Actors
      PROVE  /\ periodHolder[PeriodOf[d]] # y /\ ~Read(y, d)
             /\ holder'[d] = y => y = x
  BY <1>3, ActorsAssumption DEF Takes, Unlocked, MirrorInv
<1>4. ASSUME NEW d \in Deliveries \ ds
      PROVE  holder'[d] = holder[d] /\ written'[d] = written[d] /\ holder[d] # x
  BY <1>0 DEF Takes, Clean
<1> QED
  BY <1>1, <1>2, <1>3, <1>4 DEF MirrorInv

LEMMA RefreshMirrors ==
  ASSUME SingleLines, IInv, MirrorInv, NEW x \in Actors, Refreshing(x)
  PROVE  MirrorInv'
<1> USE DEF IInv
<1>1. UNCHANGED <<lines, written, holder, periods>>
  BY DEF Refreshing, RefreshRead, RefreshWrite, rows, tables
<1>2. \A y \in Actors \ {x} : /\ todo'[y] = todo[y] /\ reading'[y] = reading[y]
                              /\ \A d \in Deliveries : Read(y, d)' <=> Read(y, d)
  BY DEF Refreshing, RefreshRead, RefreshWrite, Read, NoReading, TypeOK
<1>3. CASE RefreshRead(x)
  <2>0. UNCHANGED <<periodWritten, periodHolder>> /\ reading[x] = NoReading
    BY <1>3 DEF RefreshRead, tables
  <2>1. PICK d \in todo[x] :
          /\ reading'[x] = [period |-> PeriodOf[d], status |-> RefreshedStatus(x, PeriodOf[d])]
          /\ todo'[x] = todo[x] \ {d}
    BY <1>3 DEF RefreshRead, TypeOK
  <2>2. d \in Deliveries /\ holder[d] = x
    BY <2>1 DEF TableInv, RefreshInv, TypeOK
  <2>3. RefreshedStatus(x, PeriodOf[d]) = StatusFor(written[d])
    BY <2>2, StatusOfOne DEF RefreshedStatus, Seen
  <2>4. reading'[x] # NoReading
    BY <2>1, PeriodsAssumption, PeriodStatusMeaning DEF NoReading, RefreshedStatus
  <2>5. /\ reading'[x].status = StatusFor(written[d])
        /\ \A e \in Deliveries : Read(x, e)' <=> e = d
    BY <2>1, <2>2, <2>3, <2>4 DEF Read, NoReading, SingleLines
  <2>6. \A e \in Deliveries : ~Read(x, e)
    BY <2>0 DEF Read
  <2> QED
    BY <1>1, <1>2, <2>0, <2>1, <2>2, <2>5, <2>6 DEF MirrorInv
<1>4. CASE RefreshWrite(x)
  <2> DEFINE p == reading[x].period
  <2>0. reading[x] # NoReading /\ p \in Periods
    BY <1>4 DEF RefreshWrite, TypeOK, Reading
  <2>1. /\ periodWritten'[p] = reading[x].status /\ periodHolder'[p] = x
        /\ \A q \in Periods \ {p} : /\ periodWritten'[q] = periodWritten[q]
                                    /\ periodHolder'[q] = periodHolder[q]
        /\ reading'[x] = NoReading /\ todo'[x] = todo[x]
    BY <1>4, <2>0 DEF RefreshWrite, TypeOK
  <2>2. \A e \in Deliveries : /\ ~Read(x, e)'
                              /\ Read(x, e) <=> PeriodOf[e] = p
    BY <2>0, <2>1 DEF Read, NoReading
  <2>3. ASSUME NEW e \in Deliveries, PeriodOf[e] = p
        PROVE  holder[e] = x /\ periodWritten'[p] = StatusFor(written[e])
    BY <2>1, <2>2, <2>3 DEF MirrorInv
  <2>4. ASSUME NEW e \in Deliveries
        PROVE  /\ periods'[PeriodOf[e]] # "absent" => periods'[PeriodOf[e]] = StatusFor(lines'[e])
               /\ \A y \in Actors :
                    /\ periodHolder'[PeriodOf[e]] = y =>
                         holder[e] = y /\ periodWritten'[PeriodOf[e]] = StatusFor(written[e])
                    /\ Read(y, e)' => holder[e] = y /\ reading'[y].status = StatusFor(written[e])
                    /\ holder[e] = y =>
                         e \in todo'[y] \/ Read(y, e)' \/ periodHolder'[PeriodOf[e]] = y
    <3> HIDE DEF p
    <3>1. CASE PeriodOf[e] = p
      BY <1>1, <1>2, <2>1, <2>2, <2>3, <3>1 DEF MirrorInv
    <3>2. CASE PeriodOf[e] # p
      <4>1. /\ periodWritten'[PeriodOf[e]] = periodWritten[PeriodOf[e]]
            /\ periodHolder'[PeriodOf[e]] = periodHolder[PeriodOf[e]]
        BY <2>1, <3>2, PeriodsAssumption
      <4> QED
        BY <1>1, <1>2, <2>1, <2>2, <3>2, <4>1 DEF MirrorInv
    <3> QED
      BY <3>1, <3>2
  <2> QED
    BY <1>1, <2>4 DEF MirrorInv
<1> QED
  BY <1>3, <1>4 DEF Refreshing

\* A commit publishes the status it has written together with the line it is about; the
\* lease of a claim leaves its period pending.
LEMMA FinishMirrors ==
  ASSUME IInv, MirrorInv, NEW x \in Actors, Finishes(x)
  PROVE  MirrorInv'
<1> USE DEF IInv
<1>1. /\ UNCHANGED <<todo, reading, periodWritten>>
      /\ \A y \in Actors, d \in Deliveries : Read(y, d)' <=> Read(y, d)
  BY DEF Finishes, CommitPeriods, Read, NoReading
<1>2. \A d \in Deliveries : holder'[d] = IF holder[d] = x THEN NoOne ELSE holder[d]
  BY DEF Finishes
<1>3. \A p \in Periods :
        /\ periods'[p] = IF periodHolder[p] = x THEN periodWritten[p] ELSE periods[p]
        /\ periodHolder'[p] = IF periodHolder[p] = x THEN NoOne ELSE periodHolder[p]
  BY DEF Finishes, CommitPeriods, SeenPeriods
<1>4. ASSUME NEW d \in Deliveries
      PROVE  /\ periods'[PeriodOf[d]] # "absent" => periods'[PeriodOf[d]] = StatusFor(lines'[d])
             /\ \A y \in Actors :
                  /\ periodHolder'[PeriodOf[d]] = y =>
                       holder'[d] = y /\ periodWritten[PeriodOf[d]] = StatusFor(written'[d])
                  /\ Read(y, d) => holder'[d] = y /\ reading[y].status = StatusFor(written'[d])
                  /\ holder'[d] = y =>
                       d \in todo[y] \/ Read(y, d) \/ periodHolder'[PeriodOf[d]] = y
  <2>0. PeriodOf[d] \in Periods
    BY PeriodsAssumption
  <2>1. CASE holder[d] = x
    <3>1. periodHolder[PeriodOf[d]] = x /\ periodWritten[PeriodOf[d]] = StatusFor(written[d])
      BY <2>1 DEF MirrorInv, Finishes, Refreshed, Read
    <3>2. lines'[d] = written[d]
      BY <2>1, ActorsAssumption DEF Finishes, Seen
    <3>3. \A y \in Actors : ~Read(y, d)
      BY <2>1 DEF MirrorInv, Finishes, Refreshed, Read
    <3> QED
      BY <1>2, <1>3, <2>0, <2>1, <3>1, <3>2, <3>3, ActorsAssumption
  <2>2. CASE holder[d] # x
    <3>1. periodHolder[PeriodOf[d]] # x
      BY <2>2 DEF MirrorInv
    <3>2. StatusFor(lines'[d]) = StatusFor(lines[d])
      BY <2>2 DEF Finishes, Seen, StatusFor
    <3>3. \A y \in Actors : holder[d] = y => written'[d] = written[d]
      BY ActorsAssumption DEF Finishes
    <3> QED
      BY <1>2, <1>3, <2>0, <2>2, <3>1, <3>2, <3>3 DEF MirrorInv
  <2> QED
    BY <2>1, <2>2
<1> QED
  BY <1>1, <1>4 DEF MirrorInv

LEMMA AbortMirrors ==
  ASSUME IInv, MirrorInv, NEW x \in Actors, Aborts(x)
  PROVE  MirrorInv'
<1> USE DEF IInv
<1>1. /\ UNCHANGED <<lines, periods>>
      /\ todo'[x] = {} /\ reading'[x] = NoReading
      /\ \A y \in Actors \ {x} : todo'[y] = todo[y] /\ reading'[y] = reading[y]
  BY DEF Aborts, Rollback, TypeOK
<1>2. \A d \in Deliveries :
        /\ holder'[d] = IF holder[d] = x THEN NoOne ELSE holder[d]
        /\ holder[d] # x => written'[d] = written[d]
  BY DEF Aborts, Rollback
<1>3. \A p \in Periods :
        /\ periodHolder'[p] = IF periodHolder[p] = x THEN NoOne ELSE periodHolder[p]
        /\ periodHolder[p] # x => periodWritten'[p] = periodWritten[p]
  BY DEF Aborts, Rollback
<1>4. \A d \in Deliveries : /\ ~Read(x, d)'
                            /\ \A y \in Actors \ {x} : Read(y, d)' <=> Read(y, d)
  BY <1>1 DEF Read, NoReading
<1>5. ASSUME NEW d \in Deliveries, NEW y \in Actors
      PROVE  /\ periodHolder'[PeriodOf[d]] = y =>
                  holder'[d] = y /\ periodWritten'[PeriodOf[d]] = StatusFor(written'[d])
             /\ Read(y, d)' => holder'[d] = y /\ reading'[y].status = StatusFor(written'[d])
             /\ holder'[d] = y =>
                  d \in todo'[y] \/ Read(y, d)' \/ periodHolder'[PeriodOf[d]] = y
  <2>0. PeriodOf[d] \in Periods
    BY PeriodsAssumption
  <2>1. CASE y = x
    BY <1>2, <1>3, <1>4, <2>0, <2>1, ActorsAssumption
  <2>2. CASE y # x
    BY <1>1, <1>2, <1>3, <1>4, <2>0, <2>2, ActorsAssumption DEF MirrorInv
  <2> QED
    BY <2>1, <2>2
<1> QED
  BY <1>1, <1>5 DEF MirrorInv

\* While every period has one line, its stored status is at all times the one this line
\* gives: the lost update of refresh_period_status needs two lines of one period.
THEOREM SingleLinesAreReflected ==
  ASSUME SingleLines
  PROVE  Spec => []PeriodReflectsLines
<1>1. Init => MirrorInv
  BY ActorsAssumption, PeriodsAssumption DEF Init, MirrorInv, Read
<1>2. ASSUME IInv, LockInv, MirrorInv, [Next]_vars PROVE MirrorInv'
  <2>1. CASE Elsewhere
    BY <1>2, <2>1 DEF Elsewhere, tables, MirrorInv, Read, NoReading
  <2> QED
    BY <1>2, <2>1, Steps, CloseMirrors, TakesMirrors, RefreshMirrors, FinishMirrors,
       AbortMirrors DEF Refreshing
<1>3. IInv /\ MirrorInv => PeriodReflectsLines
  <2> SUFFICES ASSUME IInv, MirrorInv, NEW p \in Periods, periods[p] # "absent"
               PROVE  periods[p] = PeriodStatusOf(lines, p)
    BY DEF PeriodReflectsLines
  <2>1. PICK d \in Deliveries : PeriodOf[d] = p
    BY PeriodsAssumption
  <2> QED
    BY <2>1, StatusOfOne DEF MirrorInv
<1> QED
  BY <1>1, <1>2, <1>3, InductiveLocks, PTL DEF Spec
=============================================================================
