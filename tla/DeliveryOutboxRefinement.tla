---------------------- MODULE DeliveryOutboxRefinement ----------------------
(***************************************************************************)
(* DeliveryOutbox implements Delivery, and what its runs check about the   *)
(* holders of rows, for every instance.                                    *)
(*                                                                         *)
(* IInv knows which rows can be locked.  HoldInv adds who holds them and   *)
(* what the new version says: a claim only exhausted lines, a completion   *)
(* the line of its claim, a resolution the line of its request.  With that *)
(* each commit is one step of Delivery and every other step is a stutter.  *)
(***************************************************************************)
EXTENDS DeliveryOutboxProofs

\* c's open claim fails d, which has no attempt left.
Exhausting(c, d) ==
  /\ pc[c] = "claiming"
  /\ lines[d].status = "pending" /\ lines[d].attempts >= MaxAttempts
  /\ written[d] = [lines[d] EXCEPT !.status = "failed"]

\* c's open completion concludes the very generation it claimed.
Answering(c, d) ==
  /\ pc[c] = "completing"
  /\ d = claim[c].delivery
  /\ Owns(c)
  /\ written[d] = Completed(c)

\* a's open transaction applies its request to a settled line.
Deciding(a, d) ==
  /\ pc[a] = "resolving"
  /\ d = request[a].delivery
  /\ Resolvable(request[a])
  /\ written[d] = Resolved(request[a])

\* What the transaction of y holds, and that it still holds what it is about.
HoldsProperly(y) ==
  /\ y \in Calls =>
       /\ \A d \in Deliveries : holder[d] = y => Exhausting(y, d) \/ Answering(y, d)
       /\ pc[y] = "completing" => holder[claim[y].delivery] = y
  /\ y \in Resolvers =>
       /\ \A d \in Deliveries : holder[d] = y => Deciding(y, d)
       /\ pc[y] = "resolving" => holder[request[y].delivery] = y

HoldInv == \A y \in Actors : HoldsProperly(y)

\* A line that does not exist yet has not been tried; a claim is not ahead of its row,
\* and no other call works on the same attempt (ClaimGenerations); an answer that says
\* delivered is about an accepted event.
GenerationInv ==
  /\ \A d \in Deliveries : lines[d].status = "absent" => lines[d].attempts = 0
  /\ ClaimGenerations
AnswerInv ==
  \A c \in Calls : pc[c] \in {"replied", "completing"} /\ claim[c].outcome = "delivered"
                     => claim[c].delivery \in charged

HInv == IInv /\ HoldInv
RInv == HInv /\ GenerationInv /\ AnswerInv

-----------------------------------------------------------------------------
(***************************************************************************)
(* Who holds which rows.                                                   *)
(***************************************************************************)

\* A transaction whose rows and invocation a step leaves alone still holds properly.
LEMMA HoldKept ==
  ASSUME ControlInv, NEW y \in Actors, HoldsProperly(y),
         \A d \in Deliveries : holder'[d] = y <=> holder[d] = y,
         \A d \in Deliveries : holder[d] = y => lines'[d] = lines[d] /\ written'[d] = written[d],
         pc'[y] = pc[y],
         y \in Calls => claim'[y] = claim[y],
         y \in Resolvers => request'[y] = request[y]
  PROVE  HoldsProperly(y)'
<1>1. CASE y \in Calls
  <2>1. ASSUME NEW d \in Deliveries, holder'[d] = y
        PROVE  Exhausting(y, d)' \/ Answering(y, d)'
    <3>1. Exhausting(y, d) \/ Answering(y, d)
      BY <1>1, <2>1 DEF HoldsProperly
    <3>2. lines'[d] = lines[d] /\ written'[d] = written[d] /\ claim'[y] = claim[y]
      BY <1>1, <2>1
    <3>3. Exhausting(y, d) => Exhausting(y, d)'
      BY <3>2 DEF Exhausting
    <3>4. ASSUME Answering(y, d) PROVE Answering(y, d)'
      <4>1. d = claim[y].delivery /\ lines'[claim'[y].delivery] = lines[claim[y].delivery]
        BY <3>2, <3>4 DEF Answering
      <4>2. Owns(y)' /\ Completed(y)' = Completed(y)
        BY <3>2, <3>4, <4>1 DEF Answering, Owns, Completed
      <4> QED
        BY <3>2, <3>4, <4>1, <4>2 DEF Answering
    <3> QED
      BY <3>1, <3>3, <3>4
  <2>2. pc'[y] = "completing" => holder'[claim'[y].delivery] = y
    <3> SUFFICES ASSUME pc'[y] = "completing" PROVE holder'[claim'[y].delivery] = y
      OBVIOUS
    <3>1. claim[y].delivery \in Deliveries
      BY <1>1 DEF ControlInv, Working, Claim
    <3> QED
      BY <1>1, <3>1 DEF HoldsProperly
  <2> QED
    BY <1>1, <2>1, <2>2, ActorsAssumption DEF HoldsProperly
<1>2. CASE y \in Resolvers
  <2>1. ASSUME NEW d \in Deliveries, holder'[d] = y
        PROVE  Deciding(y, d)'
    <3>1. Deciding(y, d)
      BY <1>2, <2>1 DEF HoldsProperly
    <3>2. lines'[d] = lines[d] /\ written'[d] = written[d] /\ request'[y] = request[y]
      BY <1>2, <2>1
    <3> QED
      BY <3>1, <3>2 DEF Deciding, Resolvable, Resolved
  <2>2. pc'[y] = "resolving" => holder'[request'[y].delivery] = y
    <3> SUFFICES ASSUME pc'[y] = "resolving" PROVE holder'[request'[y].delivery] = y
      OBVIOUS
    <3>1. request[y].delivery \in Deliveries
      BY <1>2, RequestsAssumption DEF ControlInv
    <3> QED
      BY <1>2, <3>1 DEF HoldsProperly
  <2> QED
    BY <1>2, <2>1, <2>2, ActorsAssumption DEF HoldsProperly
<1> QED
  BY <1>1, <1>2 DEF Actors

\* A step of x that leaves the rows and the calls of the others alone.
OnlyMoves(x) ==
  \A y \in Actors \ {x} :
    /\ \A d \in Deliveries : holder'[d] = y <=> holder[d] = y
    /\ \A d \in Deliveries :
         holder[d] = y => lines'[d] = lines[d] /\ written'[d] = written[d]
    /\ pc'[y] = pc[y]
    /\ y \in Calls => claim'[y] = claim[y]
    /\ y \in Resolvers => request'[y] = request[y]

LEMMA OneMoves ==
  ASSUME ControlInv, HoldInv, NEW x \in Actors, OnlyMoves(x), HoldsProperly(x)'
  PROVE  HoldInv'
<1> SUFFICES ASSUME NEW y \in Actors, y # x PROVE HoldsProperly(y)'
  BY DEF HoldInv
<1>1. HoldsProperly(y)
  BY DEF HoldInv
<1> HIDE DEF HoldsProperly
<1> QED
  BY <1>1, HoldKept DEF OnlyMoves

\* An invocation that is not in a transaction holds nothing.
LEMMA IdleHoldsNothing ==
  ASSUME HoldInv, NEW x \in Actors, pc[x] \notin {"claiming", "completing", "resolving"}
  PROVE  \A d \in Deliveries : holder[d] # x
  BY DEF HoldInv, HoldsProperly, Exhausting, Answering, Deciding, Actors

\* And one that holds nothing holds properly, outside a completion or resolution.
LEMMA NothingHeld ==
  ASSUME NEW x \in Actors, \A d \in Deliveries : holder'[d] # x,
         pc'[x] \notin {"completing", "resolving"}
  PROVE  HoldsProperly(x)'
  BY DEF HoldsProperly

\* The tables after a commit or a rollback of x, for the rows others hold.
LEMMA CommitMovesOne ==
  ASSUME TypeOK, NEW x \in Actors, CommitRows(x),
         \A y \in Actors \ {x} :
           /\ pc'[y] = pc[y]
           /\ y \in Calls => claim'[y] = claim[y]
           /\ y \in Resolvers => request'[y] = request[y]
  PROVE  OnlyMoves(x) /\ \A d \in Deliveries : holder'[d] # x
  BY ActorsAssumption DEF OnlyMoves, CommitRows, Seen

LEMMA RollbackMovesOne ==
  ASSUME TypeOK, NEW x \in Actors, Rollback(x),
         \A y \in Actors \ {x} :
           /\ pc'[y] = pc[y]
           /\ y \in Calls => claim'[y] = claim[y]
           /\ y \in Resolvers => request'[y] = request[y]
  PROVE  OnlyMoves(x) /\ \A d \in Deliveries : holder'[d] # x
  BY ActorsAssumption DEF OnlyMoves, Rollback

LEMMA NextKeepsHolds ==
  ASSUME HInv, [Next]_vars
  PROVE  HoldInv'
<1> USE DEF HInv, IInv
<1>1. ASSUME NEW p \in Periods, ClosePeriod(p) PROVE HoldInv'
  <2>1. \A d \in Deliveries : holder[d] # NoOne => lines'[d] = lines[d] /\ written'[d] = written[d]
    BY <1>1 DEF ClosePeriod, TableInv, RowsInv, PeriodsInv
  <2>2. ASSUME NEW y \in Actors PROVE HoldsProperly(y)'
    <3>1. HoldsProperly(y)
      BY DEF HoldInv
    <3> QED
      BY <1>1, <2>1, <3>1, HoldKept, ActorsAssumption DEF ClosePeriod, calls
  <2> QED
    BY <2>2 DEF HoldInv
<1>2. ASSUME NEW c \in Calls, Claiming(c) PROVE HoldInv'
  <2>0. c \in Actors
    BY DEF Actors
  <2>1. CASE ClaimBegin(c)
    <3>1. \A d \in Deliveries : holder[d] # c
      BY <2>0, <2>1, IdleHoldsNothing DEF ClaimBegin
    <3>2. /\ written' = [d \in Deliveries |-> IF d \in Exhausted
                                            THEN [lines[d] EXCEPT !.status = "failed"]
                                            ELSE written[d]]
          /\ holder' = [d \in Deliveries |-> IF d \in Exhausted THEN c ELSE holder[d]]
          /\ UNCHANGED lines
          /\ pc' = [pc EXCEPT ![c] = "claiming"]
          /\ UNCHANGED <<claim, request>>
      BY <2>1 DEF ClaimBegin, WriteRows
    <3>3. OnlyMoves(c)
      BY <2>1, <3>2, ActorsAssumption DEF OnlyMoves, ClaimBegin, Unlocked, TypeOK
    <3>4. \A d \in Deliveries : holder'[d] = c => Exhausting(c, d)'
      BY <2>0, <3>1, <3>2 DEF Exhausting, Exhausted, TypeOK
    <3>5. HoldsProperly(c)'
      BY <2>0, <3>2, <3>4, ActorsAssumption DEF HoldsProperly, TypeOK
    <3> QED
      BY <2>0, <3>3, <3>5, OneMoves
  <2>2. CASE ClaimIdle(c)
    <3>1. OnlyMoves(c) /\ (\A d \in Deliveries : holder'[d] # c) /\ pc'[c] = "idle"
      BY <2>0, <2>2, CommitMovesOne DEF ClaimIdle, TypeOK
    <3> QED
      BY <2>0, <3>1, NothingHeld, OneMoves
  <2>3. ASSUME NEW w \in Workers, NEW d \in Deliveries, ClaimNext(c, w, d) PROVE HoldInv'
    <3>1. holder[d] = NoOne
      BY <2>3 DEF ClaimNext, Claimable, Unlocked
    <3>2. /\ \A e \in Deliveries : holder'[e] = IF holder[e] = c THEN NoOne ELSE holder[e]
          /\ \A e \in Deliveries \ {d} :
               /\ lines'[e] = IF holder[e] = c THEN written[e] ELSE lines[e]
               /\ written'[e] = written[e]
      BY <2>3 DEF ClaimNext, Seen, TypeOK
    <3>3. /\ \A y \in Actors \ {c} : pc'[y] = pc[y] /\ (y \in Calls => claim'[y] = claim[y])
          /\ UNCHANGED request
          /\ pc'[c] = "publishing"
      BY <2>0, <2>3 DEF ClaimNext, TypeOK
    <3>4. OnlyMoves(c) /\ \A e \in Deliveries : holder'[e] # c
      BY <2>0, <3>1, <3>2, <3>3, ActorsAssumption DEF OnlyMoves
    <3> QED
      BY <2>0, <3>3, <3>4, NothingHeld, OneMoves
  <2> QED
    BY <1>2, <2>1, <2>2, <2>3 DEF Claiming
<1>3. ASSUME NEW c \in Calls, SinkReply(c) PROVE HoldInv'
  <2>1. c \in Actors /\ \A d \in Deliveries : holder[d] # c
    BY <1>3, IdleHoldsNothing DEF SinkReply, Actors
  <2>2. OnlyMoves(c) /\ pc'[c] = "replied" /\ UNCHANGED holder
    BY <1>3, <2>1 DEF OnlyMoves, SinkReply, rows, TypeOK
  <2> QED
    BY <2>1, <2>2, NothingHeld, OneMoves
<1>4. ASSUME NEW c \in Calls, Completing(c) PROVE HoldInv'
  <2>0. c \in Actors
    BY DEF Actors
  <2>1. CASE CompleteBegin(c)
    <3> DEFINE d == claim[c].delivery
    <3>0. d \in Deliveries /\ holder[d] = NoOne /\ Owns(c)
      BY <2>1 DEF CompleteBegin, Unlocked, ControlInv, Working, Claim
    <3>1. \A e \in Deliveries : holder[e] # c
      BY <2>0, <2>1, IdleHoldsNothing DEF CompleteBegin
    <3>2. /\ written' = [e \in Deliveries |-> IF e \in {d} THEN Completed(c) ELSE written[e]]
          /\ holder' = [e \in Deliveries |-> IF e \in {d} THEN c ELSE holder[e]]
          /\ UNCHANGED lines
          /\ pc' = [pc EXCEPT ![c] = "completing"]
          /\ UNCHANGED <<claim, request>>
      BY <2>1 DEF CompleteBegin, WriteRows
    <3>3. OnlyMoves(c)
      BY <3>0, <3>2, ActorsAssumption DEF OnlyMoves, TypeOK
    <3>4. Answering(c, d)' /\ holder'[d] = c
      BY <2>0, <3>0, <3>2 DEF Answering, Owns, Completed, TypeOK
    <3>5. \A e \in Deliveries : holder'[e] = c => e = d
      BY <3>1, <3>2
    <3>6. HoldsProperly(c)'
      BY <2>0, <3>2, <3>4, <3>5, ActorsAssumption DEF HoldsProperly, TypeOK
    <3> QED
      BY <2>0, <3>3, <3>6, OneMoves
  <2>2. CASE CompleteLost(c)
    <3>1. \A d \in Deliveries : holder[d] # c
      BY <2>0, <2>2, IdleHoldsNothing DEF CompleteLost
    <3>2. OnlyMoves(c) /\ pc'[c] = "idle" /\ UNCHANGED holder
      BY <2>0, <2>2 DEF OnlyMoves, CompleteLost, rows, TypeOK
    <3> QED
      BY <2>0, <3>1, <3>2, NothingHeld, OneMoves
  <2>3. CASE CompleteCommit(c)
    <3>1. OnlyMoves(c) /\ (\A d \in Deliveries : holder'[d] # c) /\ pc'[c] = "idle"
      BY <2>0, <2>3, CommitMovesOne DEF CompleteCommit, TypeOK
    <3> QED
      BY <2>0, <3>1, NothingHeld, OneMoves
  <2> QED
    BY <1>4, <2>1, <2>2, <2>3 DEF Completing
<1>5. ASSUME NEW a \in Resolvers, Resolving(a) PROVE HoldInv'
  <2>0. a \in Actors
    BY DEF Actors
  <2>1. CASE ResolveLock(a)
    <3> DEFINE d == request[a].delivery
    <3>0. d \in Deliveries /\ holder[d] = NoOne /\ Resolvable(request[a])
      BY <2>1, RequestsAssumption DEF ResolveLock, Unlocked, ControlInv
    <3>1. \A e \in Deliveries : holder[e] # a
      BY <2>0, <2>1, IdleHoldsNothing DEF ResolveLock
    <3>2. /\ written' = [e \in Deliveries |-> IF e \in {d} THEN Resolved(request[a]) ELSE written[e]]
          /\ holder' = [e \in Deliveries |-> IF e \in {d} THEN a ELSE holder[e]]
          /\ UNCHANGED lines
          /\ pc' = [pc EXCEPT ![a] = "resolving"]
          /\ UNCHANGED <<claim, request>>
      BY <2>1 DEF ResolveLock, WriteRows
    <3>3. OnlyMoves(a)
      BY <3>0, <3>2, ActorsAssumption DEF OnlyMoves, TypeOK
    <3>4. Deciding(a, d)' /\ holder'[d] = a
      BY <2>0, <3>0, <3>2 DEF Deciding, Resolvable, Resolved, TypeOK
    <3>5. \A e \in Deliveries : holder'[e] = a => e = d
      BY <3>1, <3>2
    <3>6. HoldsProperly(a)'
      BY <2>0, <3>2, <3>4, <3>5, ActorsAssumption DEF HoldsProperly, TypeOK
    <3> QED
      BY <2>0, <3>3, <3>6, OneMoves
  <2>2. CASE ResolveRefuse(a)
    <3>1. \A d \in Deliveries : holder[d] # a
      BY <2>0, <2>2, IdleHoldsNothing DEF ResolveRefuse
    <3>2. OnlyMoves(a) /\ pc'[a] = "idle" /\ UNCHANGED holder
      BY <2>0, <2>2 DEF OnlyMoves, ResolveRefuse, rows, TypeOK
    <3> QED
      BY <2>0, <3>1, <3>2, NothingHeld, OneMoves
  <2>3. CASE ResolveCommit(a)
    <3>1. OnlyMoves(a) /\ (\A d \in Deliveries : holder'[d] # a) /\ pc'[a] = "idle"
      BY <2>0, <2>3, CommitMovesOne DEF ResolveCommit, TypeOK
    <3> QED
      BY <2>0, <3>1, NothingHeld, OneMoves
  <2>4. CASE ResolveDuplicate(a)
    <3>1. OnlyMoves(a) /\ (\A d \in Deliveries : holder'[d] # a) /\ pc'[a] = "idle"
      BY <2>0, <2>4, RollbackMovesOne DEF ResolveDuplicate, TypeOK
    <3> QED
      BY <2>0, <3>1, NothingHeld, OneMoves
  <2> QED
    BY <1>5, <2>1, <2>2, <2>3, <2>4 DEF Resolving
<1>6. ASSUME NEW a \in Resolvers, NEW r \in Requests, ResolveStart(a, r) PROVE HoldInv'
  <2>1. a \in Actors /\ \A d \in Deliveries : holder[d] # a
    BY <1>6, IdleHoldsNothing DEF ResolveStart, Actors
  <2>2. OnlyMoves(a) /\ pc'[a] = "locking" /\ UNCHANGED holder
    BY <1>6, <2>1 DEF OnlyMoves, ResolveStart, rows, TypeOK
  <2> QED
    BY <2>1, <2>2, NothingHeld, OneMoves
<1>7. ASSUME NEW x \in Actors, Die(x) PROVE HoldInv'
  <2>1. pc'[x] = "idle" /\ \A y \in Actors \ {x} : pc'[y] = pc[y]
    BY <1>7 DEF Die, TypeOK
  <2>2. \A y \in Actors \ {x} :
          /\ y \in Calls => claim'[y] = claim[y]
          /\ y \in Resolvers => request'[y] = request[y]
    BY <1>7 DEF Die, TypeOK
  <2>3. OnlyMoves(x) /\ \A d \in Deliveries : holder'[d] # x
    BY <1>7, <2>1, <2>2, RollbackMovesOne DEF Die
  <2> QED
    BY <2>1, <2>3, NothingHeld, OneMoves
<1>8. CASE UNCHANGED <<lines, written, holder, pc, claim, request>>
  <2>1. ASSUME NEW y \in Actors PROVE HoldsProperly(y)'
    <3>1. HoldsProperly(y)
      BY DEF HoldInv
    <3> QED
      BY <1>8, <3>1, HoldKept
  <2> QED
    BY <2>1 DEF HoldInv
<1>9. ASSUME NEW x \in Actors, Refreshing(x) PROVE HoldInv'
  BY <1>8, <1>9 DEF Refreshing, RefreshRead, RefreshWrite, rows, calls
<1>10. ASSUME NEW d \in Deliveries, LeaseExpires(d) PROVE HoldInv'
  BY <1>8, <1>10 DEF LeaseExpires, calls
<1>11. CASE UNCHANGED vars
  BY <1>8, <1>11 DEF vars, rows, calls
<1> QED
  BY <1>1, <1>2, <1>3, <1>4, <1>5, <1>6, <1>7, <1>9, <1>10, <1>11 DEF Next

-----------------------------------------------------------------------------
(***************************************************************************)
(* Generations and answers.                                                *)
(***************************************************************************)

\* A version that is not committed keeps the attempts of its row.
LEMMA HeldAttempts ==
  ASSUME HInv, NEW d \in Deliveries, holder[d] # NoOne
  PROVE  written[d].attempts = lines[d].attempts
<1> USE DEF HInv, IInv
<1>1. lines[d] \in Line
  BY DEF TypeOK
<1>2. ASSUME NEW c \in Calls, holder[d] = c
      PROVE  written[d].attempts = lines[d].attempts
  <2>1. Exhausting(c, d) \/ Answering(c, d)
    BY <1>2 DEF HoldInv, HoldsProperly, Actors
  <2>2. CASE Exhausting(c, d)
    BY <1>1, <2>2 DEF Exhausting, Line
  <2>3. CASE Answering(c, d)
    BY <1>1, <2>3 DEF Answering, Completed, Line
  <2> QED
    BY <2>1, <2>2, <2>3
<1>3. ASSUME NEW a \in Resolvers, holder[d] = a
      PROVE  written[d].attempts = lines[d].attempts
  <2>1. Deciding(a, d)
    BY <1>3 DEF HoldInv, HoldsProperly, Actors
  <2> QED
    BY <1>1, <2>1 DEF Deciding, Resolved, Line
<1> QED
  BY <1>2, <1>3 DEF TypeOK, Actors

\* The committed rows change by a close, a claim or another commit only.
LEMMA LinesMove ==
  ASSUME [Next]_vars
  PROVE  \/ UNCHANGED lines
         \/ \E p \in Periods : ClosePeriod(p)
         \/ \E c \in Calls, w \in Workers, d \in Deliveries : ClaimNext(c, w, d)
         \/ \E x \in Actors : CommitRows(x)
<1>1. ASSUME NEW c \in Calls, Completing(c) PROVE UNCHANGED lines \/ CommitRows(c)
  BY <1>1 DEF Completing, CompleteBegin, CompleteLost, CompleteCommit, WriteRows, rows
<1>2. ASSUME NEW c \in Calls, Claiming(c)
      PROVE  \/ UNCHANGED lines \/ CommitRows(c)
             \/ \E w \in Workers, d \in Deliveries : ClaimNext(c, w, d)
  BY <1>2 DEF Claiming, ClaimBegin, ClaimIdle, WriteRows
<1>3. ASSUME NEW a \in Resolvers, Resolving(a) PROVE UNCHANGED lines \/ CommitRows(a)
  BY <1>3 DEF Resolving, ResolveLock, ResolveRefuse, ResolveCommit, ResolveDuplicate,
              WriteRows, Rollback, rows
<1>4. ASSUME NEW x \in Actors, Refreshing(x) \/ Die(x) PROVE UNCHANGED lines
  BY <1>4 DEF Refreshing, RefreshRead, RefreshWrite, Die, Rollback, rows
<1> QED
  BY <1>1, <1>2, <1>3, <1>4
     DEF Next, vars, rows, SinkReply, ResolveStart, LeaseExpires, Actors

\* No commit takes an attempt back, and none makes a line absent again.
LEMMA AttemptsGrow ==
  ASSUME HInv, GenerationInv, [Next]_vars, NEW d \in Deliveries
  PROVE  /\ lines'[d].attempts >= lines[d].attempts
         /\ lines'[d].status = "absent" => lines'[d].attempts = 0
<1> USE DEF HInv, IInv
<1>0. /\ lines[d] \in Line /\ lines[d].attempts \in 0..MaxAttempts
      /\ lines[d].status = "absent" => lines[d].attempts = 0
  BY DEF TypeOK, Line, GenerationInv
<1>1. CASE UNCHANGED lines
  BY <1>0, <1>1, AttemptsAssumption
<1>2. ASSUME NEW p \in Periods, ClosePeriod(p)
      PROVE  /\ lines'[d].attempts >= lines[d].attempts
             /\ lines'[d].status = "absent" => lines'[d].attempts = 0
  <2>1. PeriodOf[d] = p => lines[d].status = "absent"
    BY <1>2 DEF ClosePeriod, TableInv, PeriodsInv
  <2>2. lines'[d] = IF PeriodOf[d] = p THEN NewLine("pending") ELSE lines[d]
    BY <1>2 DEF ClosePeriod
  <2> QED
    BY <1>0, <2>1, <2>2, AttemptsAssumption DEF NewLine
<1>3. ASSUME NEW x \in Actors
      PROVE  /\ Seen(x)[d].attempts = lines[d].attempts
             /\ Seen(x)[d].status = "absent" => lines[d].status = "absent"
  BY HeldAttempts, ActorsAssumption DEF Seen, TableInv, RowsInv
<1>4. ASSUME NEW x \in Actors, CommitRows(x)
      PROVE  /\ lines'[d].attempts >= lines[d].attempts
             /\ lines'[d].status = "absent" => lines'[d].attempts = 0
  <2>1. lines'[d] = Seen(x)[d]
    BY <1>4 DEF CommitRows
  <2> QED
    BY <1>0, <1>3, <2>1, AttemptsAssumption
<1>5. ASSUME NEW c \in Calls, NEW w \in Workers, NEW e \in Deliveries, ClaimNext(c, w, e)
      PROVE  /\ lines'[d].attempts >= lines[d].attempts
             /\ lines'[d].status = "absent" => lines'[d].attempts = 0
  <2>1. CASE d = e
    <3>1. lines'[d] = [lines[d] EXCEPT !.status = "in_flight", !.attempts = @ + 1, !.owner = w]
      BY <1>5, <2>1 DEF ClaimNext, Seen
    <3>2. lines'[d].status = "in_flight" /\ lines'[d].attempts = lines[d].attempts + 1
      BY <1>0, <3>1 DEF Line
    <3> QED
      BY <1>0, <3>2, AttemptsAssumption
  <2>2. CASE d # e
    <3>1. lines'[d] = Seen(c)[d]
      BY <1>5, <2>2 DEF ClaimNext, Seen
    <3> QED
      BY <1>0, <1>3, <3>1, AttemptsAssumption DEF Actors
  <2> QED
    BY <2>1, <2>2
<1> QED
  BY <1>1, <1>2, <1>4, <1>5, LinesMove

\* Between two claims a call keeps the generation it works on.
LEMMA WorkKept ==
  ASSUME HInv, [Next]_vars, NEW c \in Calls, Working(c)',
         \A w \in Workers, d \in Deliveries : ~ClaimNext(c, w, d)
  PROVE  /\ Working(c)
         /\ claim'[c].delivery = claim[c].delivery
         /\ claim'[c].attempt = claim[c].attempt
         /\ claim'[c].worker = claim[c].worker
<1> USE ActorsAssumption DEF Working, Actors
<1>0. /\ pc \in [Actors -> {"idle", "claiming", "publishing", "replied", "completing",
                           "locking", "resolving"}]
      /\ claim \in [Calls -> Claim \cup {NoClaim}]
      /\ ControlInv
  BY DEF HInv, IInv, TypeOK
<1> HIDE DEF HInv
<1>1. ASSUME NEW b \in Calls, Claiming(b)
      PROVE  Working(c) /\ claim'[c] = claim[c]
  <2>1. CASE ClaimBegin(b) \/ ClaimIdle(b)
    BY <1>0, <2>1 DEF ClaimBegin, ClaimIdle
  <2>2. ASSUME NEW w \in Workers, NEW d \in Deliveries, ClaimNext(b, w, d)
        PROVE  Working(c) /\ claim'[c] = claim[c]
    <3>1. b # c
      BY <2>2
    <3>2. pc'[c] = pc[c] /\ claim'[c] = claim[c]
      BY <1>0, <2>2, <3>1 DEF ClaimNext
    <3> QED
      BY <3>2
  <2> QED
    BY <1>1, <2>1, <2>2 DEF Claiming
<1>2. ASSUME NEW b \in Calls, SinkReply(b)
      PROVE  /\ Working(c)
             /\ claim'[c].delivery = claim[c].delivery
             /\ claim'[c].attempt = claim[c].attempt
             /\ claim'[c].worker = claim[c].worker
  <2>1. PICK o \in Outcomes : claim' = [claim EXCEPT ![b].outcome = o]
    BY <1>2 DEF SinkReply
  <2>2. claim[b] \in Claim
    BY <1>0, <1>2 DEF SinkReply, ControlInv
  <2> QED
    BY <1>0, <1>2, <2>1, <2>2 DEF SinkReply, Claim
<1>3. ASSUME NEW b \in Calls, Completing(b)
      PROVE  Working(c) /\ claim'[c] = claim[c]
  BY <1>0, <1>3 DEF Completing, CompleteBegin, CompleteLost, CompleteCommit
<1>4. ASSUME NEW a \in Resolvers, Resolving(a)
      PROVE  Working(c) /\ claim'[c] = claim[c]
  BY <1>0, <1>4 DEF Resolving, ResolveLock, ResolveRefuse, ResolveCommit, ResolveDuplicate
<1>5. ASSUME NEW a \in Resolvers, NEW r \in Requests, ResolveStart(a, r)
      PROVE  Working(c) /\ claim'[c] = claim[c]
  BY <1>0, <1>5 DEF ResolveStart
<1>6. ASSUME NEW x \in Actors, Refreshing(x)
      PROVE  Working(c) /\ claim'[c] = claim[c]
  BY <1>0, <1>6 DEF Refreshing, RefreshRead, RefreshWrite, calls
<1>7. ASSUME NEW x \in Actors, Die(x)
      PROVE  Working(c) /\ claim'[c] = claim[c]
  BY <1>0, <1>7 DEF Die
<1>8. ASSUME NEW p \in Periods, ClosePeriod(p)
      PROVE  Working(c) /\ claim'[c] = claim[c]
  BY <1>0, <1>8 DEF ClosePeriod, calls
<1>9. ASSUME NEW d \in Deliveries, LeaseExpires(d)
      PROVE  Working(c) /\ claim'[c] = claim[c]
  BY <1>0, <1>9 DEF LeaseExpires, calls
<1>10. CASE UNCHANGED vars
  BY <1>0, <1>10 DEF vars, calls
<1> QED
  BY <1>1, <1>2, <1>3, <1>4, <1>5, <1>6, <1>7, <1>8, <1>9, <1>10 DEF Next

\* A claim is the next generation of its row.
LEMMA ClaimIsNew ==
  ASSUME HInv, NEW c \in Calls, NEW w \in Workers, NEW d \in Deliveries, ClaimNext(c, w, d)
  PROVE  /\ claim'[c].delivery = d
         /\ claim'[c].attempt = lines[d].attempts + 1
         /\ lines'[d].attempts = lines[d].attempts + 1
         /\ lines[d].attempts \in Nat
         /\ \A b \in Calls \ {c} : claim'[b] = claim[b] /\ pc'[b] = pc[b]
<1>1. lines[d] \in Line /\ lines[d].attempts \in Nat
  BY AttemptsAssumption DEF HInv, IInv, TypeOK, Line
<1> DEFINE leased == [lines[d] EXCEPT !.status = "in_flight", !.attempts = @ + 1, !.owner = w]
<1>2. leased.attempts = lines[d].attempts + 1
  BY <1>1 DEF Line
<1>3. lines'[d] = leased
  BY DEF ClaimNext, Seen
<1>4. claim' = [claim EXCEPT ![c] = [delivery |-> d, worker |-> w,
                                     attempt |-> leased.attempts, outcome |-> "none"]]
  BY DEF ClaimNext
<1>5. \A b \in Calls \ {c} : pc'[b] = pc[b]
  BY DEF ClaimNext, HInv, IInv, TypeOK, Actors
<1> HIDE DEF leased
<1> QED
  BY <1>1, <1>2, <1>3, <1>4, <1>5 DEF HInv, IInv, TypeOK

LEMMA NextKeepsGenerations ==
  ASSUME HInv, GenerationInv, [Next]_vars
  PROVE  GenerationInv'
<1>0. \A d \in Deliveries : /\ lines[d].attempts \in Nat /\ lines'[d].attempts \in Nat
                           /\ lines'[d].attempts >= lines[d].attempts
  <2>1. TypeOK'
    BY NextKeepsTypes DEF HInv
  <2> QED
    BY <2>1, AttemptsGrow, AttemptsAssumption DEF HInv, IInv, TypeOK, Line
<1>1. ASSUME NEW c \in Calls, Working(c)
      PROVE  claim[c].delivery \in Deliveries /\ claim[c].attempt \in Nat
  BY <1>1, AttemptsAssumption DEF HInv, IInv, ControlInv, Claim
<1>2. ASSUME NEW c \in Calls, NEW w \in Workers, NEW d \in Deliveries, ClaimNext(c, w, d)
      PROVE  ClaimGenerations'
  <2>1. \A b \in Calls \ {c} : Working(b)' => Working(b) /\ claim'[b] = claim[b]
    BY <1>2, ClaimIsNew DEF Working
  <2>2. \A b \in Calls \ {c} : Working(b)' => claim'[b].attempt <= lines[claim'[b].delivery].attempts
    BY <2>1 DEF GenerationInv, ClaimGenerations
  <2>3. \A b \in Calls \ {c} : Working(b)' => claim'[b].attempt <= lines'[claim'[b].delivery].attempts
    BY <1>0, <1>1, <2>1, <2>2
  <2>4. claim'[c].delivery = d /\ claim'[c].attempt = lines'[d].attempts
    BY <1>2, ClaimIsNew
  <2>5. \A b \in Calls \ {c} :
          Working(b)' /\ claim'[b].delivery = d => claim'[b].attempt # claim'[c].attempt
    BY <1>0, <1>1, <1>2, <2>1, <2>2, ClaimIsNew
  <2>6. \A a, b \in Calls \ {c} :
          a # b /\ Working(a)' /\ Working(b)' /\ claim'[a].delivery = claim'[b].delivery
            => claim'[a].attempt # claim'[b].attempt
    BY <2>1 DEF GenerationInv, ClaimGenerations
  <2>7. claim'[c].attempt <= lines'[claim'[c].delivery].attempts
    BY <1>0, <2>4
  <2>8. ASSUME NEW a \in Calls, Working(a)'
        PROVE  /\ claim'[a].attempt <= lines'[claim'[a].delivery].attempts
               /\ \A b \in Calls \ {a} :
                    Working(b)' /\ claim'[b].delivery = claim'[a].delivery
                      => claim'[b].attempt # claim'[a].attempt
    BY <2>3, <2>4, <2>5, <2>6, <2>7, <2>8
  <2> QED
    BY <2>8 DEF ClaimGenerations
<1>3. ASSUME \A c \in Calls, w \in Workers, d \in Deliveries : ~ClaimNext(c, w, d)
      PROVE  ClaimGenerations'
  <2>1. ASSUME NEW c \in Calls, Working(c)'
        PROVE  /\ Working(c)
               /\ claim'[c].delivery = claim[c].delivery
               /\ claim'[c].attempt = claim[c].attempt
    BY <1>3, <2>1, WorkKept
  <2>2. ASSUME NEW c \in Calls, Working(c)'
        PROVE  claim'[c].attempt <= lines'[claim'[c].delivery].attempts
    <3>1. claim[c].attempt <= lines[claim[c].delivery].attempts
      BY <2>1, <2>2 DEF GenerationInv, ClaimGenerations
    <3> QED
      BY <1>0, <1>1, <2>1, <2>2, <3>1
  <2>3. ASSUME NEW a \in Calls, NEW b \in Calls \ {a}, Working(a)', Working(b)',
               claim'[b].delivery = claim'[a].delivery
        PROVE  claim'[b].attempt # claim'[a].attempt
    BY <2>1, <2>3 DEF GenerationInv, ClaimGenerations
  <2> QED
    BY <2>2, <2>3 DEF ClaimGenerations
<1> QED
  BY <1>2, <1>3, AttemptsGrow DEF GenerationInv

LEMMA NextKeepsAnswers ==
  ASSUME HInv, AnswerInv, [Next]_vars
  PROVE  AnswerInv'
<1> USE ActorsAssumption DEF HInv, IInv, TypeOK, Actors
<1>1. charged \subseteq charged'
  <2>1. ASSUME NEW c \in Calls, SinkReply(c) PROVE charged \subseteq charged'
    BY <2>1 DEF SinkReply, Outcomes
  <2>2. ASSUME NEW x \in Actors, Die(x) PROVE charged \subseteq charged'
    BY <2>2 DEF Die
  <2>3. CASE UNCHANGED charged
    BY <2>3
  <2> QED
    BY <2>1, <2>2, <2>3
       DEF Next, vars, ClosePeriod, Claiming, ClaimBegin, ClaimIdle, ClaimNext, Completing,
           CompleteBegin, CompleteLost, CompleteCommit, Resolving, ResolveLock,
           ResolveRefuse, ResolveCommit, ResolveDuplicate, ResolveStart, Refreshing,
           RefreshRead, RefreshWrite, LeaseExpires
<1>2. ASSUME NEW c \in Calls, ~SinkReply(c), pc'[c] \in {"replied", "completing"}
      PROVE  pc[c] \in {"replied", "completing"} /\ claim'[c] = claim[c]
  <2> USE <1>2
  <2>0. /\ pc \in [Actors -> {"idle", "claiming", "publishing", "replied", "completing",
                             "locking", "resolving"}]
        /\ claim \in [Calls -> Claim \cup {NoClaim}]
        /\ c \in Actors
    BY DEF Actors
  <2>1. ASSUME NEW b \in Calls, Claiming(b) \/ Completing(b) \/ SinkReply(b)
        PROVE  pc[c] \in {"replied", "completing"} /\ claim'[c] = claim[c]
    <3> HIDE DEF HInv, IInv, TypeOK
    <3>1. CASE SinkReply(b)
      BY <2>0, <3>1 DEF SinkReply
    <3>2. CASE ClaimBegin(b) \/ ClaimIdle(b)
      BY <2>0, <3>2 DEF ClaimBegin, ClaimIdle
    <3>3. ASSUME NEW w \in Workers, NEW d \in Deliveries, ClaimNext(b, w, d)
          PROVE  pc[c] \in {"replied", "completing"} /\ claim'[c] = claim[c]
      BY <2>0, <3>3 DEF ClaimNext
    <3>4. CASE Completing(b)
      BY <2>0, <3>4 DEF Completing, CompleteBegin, CompleteLost, CompleteCommit
    <3> QED
      BY <2>1, <3>1, <3>2, <3>3, <3>4 DEF Claiming
  <2>2. ASSUME NEW a \in Resolvers, Resolving(a) \/ \E r \in Requests : ResolveStart(a, r)
        PROVE  pc[c] \in {"replied", "completing"} /\ claim'[c] = claim[c]
    BY <2>2 DEF Resolving, ResolveLock, ResolveRefuse, ResolveCommit, ResolveDuplicate,
                ResolveStart
  <2>3. ASSUME NEW x \in Actors, Refreshing(x) \/ Die(x)
        PROVE  pc[c] \in {"replied", "completing"} /\ claim'[c] = claim[c]
    BY <2>3 DEF Refreshing, RefreshRead, RefreshWrite, Die, calls
  <2> QED
    BY <2>1, <2>2, <2>3 DEF Next, vars, calls, ClosePeriod, LeaseExpires
<1>3. ASSUME NEW c \in Calls, SinkReply(c), claim'[c].outcome = "delivered"
      PROVE  claim'[c].delivery \in charged'
  <2>1. PICK o \in Outcomes :
          /\ claim' = [claim EXCEPT ![c].outcome = o]
          /\ o = "delivered" => charged' = charged \cup {claim[c].delivery}
    BY <1>3 DEF SinkReply
  <2>2. claim[c] \in Claim
    BY <1>3 DEF SinkReply, ControlInv, Working
  <2> QED
    BY <1>3, <2>1, <2>2 DEF Claim
<1> QED
  BY <1>1, <1>2, <1>3 DEF AnswerInv

LEMMA InitRInv == Init => RInv
<1> SUFFICES ASSUME Init PROVE RInv
  OBVIOUS
<1>1. HoldInv
  BY ActorsAssumption DEF Init, HoldInv, HoldsProperly, Actors
<1>2. GenerationInv
  BY DEF Init, GenerationInv, ClaimGenerations, Working, NewLine, Actors
<1>3. AnswerInv
  BY DEF Init, AnswerInv, Actors
<1> QED
  BY <1>1, <1>2, <1>3, InitIInv DEF RInv, HInv

\* The invariant the theorems below rest on.
THEOREM InductiveHolds == Spec => []RInv
<1>1. IInv /\ [Next]_vars => IInv'
  BY NextKeepsTypes, NextKeepsControl, NextKeepsTables DEF IInv
<1>2. RInv /\ [Next]_vars => RInv'
  BY <1>1, NextKeepsHolds, NextKeepsGenerations, NextKeepsAnswers DEF RInv, HInv
<1> QED
  BY <1>2, InitRInv, PTL DEF Spec

\* No two calls work on the same attempt of a line, however many workers race, die and
\* come back: a late answer can always be told from the attempt that replaced it.
THEOREM GenerationsAreUnique == Spec => []ClaimGenerations
<1>1. RInv => ClaimGenerations
  BY DEF RInv, GenerationInv
<1> QED
  BY <1>1, InductiveHolds, PTL

-----------------------------------------------------------------------------
(***************************************************************************)
(* Every step is a step of Delivery or a stutter.                          *)
(***************************************************************************)

\* A commit refreshes the reports as Delivery allows it.
LEMMA CommitReports ==
  ASSUME HInv, [Next]_vars, NEW x \in Actors, CommitPeriods(x)
  PROVE  Promise!Report
<1>1. TypeOK' /\ TableInv'
  BY NextKeepsTypes, NextKeepsTables DEF HInv, IInv
<1>2. periods' \in [Periods -> Promise!Reports]
  BY <1>1 DEF TypeOK, PeriodStates, Promise!Reports, Promise!Outcomes
<1>3. \A p \in Periods : periods'[p] = "absent" <=> periods[p] = "absent"
  BY ActorsAssumption
     DEF CommitPeriods, SeenPeriods, HInv, IInv, TableInv, PeriodsInv
<1>4. \A p \in Periods : periods'[p] = "delivered" => AllDelivered(lines, p)'
  BY <1>1 DEF TableInv, SoundInv
<1>5. ASSUME NEW p \in Periods, periods'[p] = "delivered"
      PROVE  \A d \in Promise!LinesOf(p) : CommittedLines'[d].status = "delivered"
  BY <1>4, <1>5 DEF AllDelivered, Promise!LinesOf, CommittedLines, Committed
<1> QED
  BY <1>2, <1>3, <1>5 DEF Promise!Report

\* Steps that change nothing Delivery speaks of.
LEMMA Stutters ==
  ASSUME UNCHANGED <<lines, charged, commands, periods>>
  PROVE  UNCHANGED Promise!promised
  BY DEF Promise!promised, CommittedLines

\* The rows an open claim holds, and how they look when it commits.
LEMMA ClaimHolds ==
  ASSUME HInv, NEW c \in Calls, pc[c] = "claiming", NEW d \in Deliveries
  PROVE  /\ holder[d] = c =>
              /\ lines[d].status = "pending" /\ lines[d].attempts >= MaxAttempts
              /\ Committed(Seen(c)[d]) =
                   Promise!Line("failed", lines[d].attempts, lines[d].reference)
         /\ holder[d] # c => Seen(c)[d] = lines[d]
<1>1. ASSUME holder[d] = c
      PROVE  /\ lines[d].status = "pending" /\ lines[d].attempts >= MaxAttempts
             /\ Committed(Seen(c)[d]) =
                  Promise!Line("failed", lines[d].attempts, lines[d].reference)
  <2>1. Exhausting(c, d)
    BY <1>1 DEF HInv, HoldInv, HoldsProperly, Actors, Answering
  <2>2. lines[d] \in Line
    BY DEF HInv, IInv, TypeOK
  <2> QED
    BY <1>1, <2>1, <2>2 DEF Exhausting, Seen, Committed, Promise!Line, Line
<1> QED
  BY <1>1 DEF Seen

\* The rows an open completion or resolution holds: the one it is about.
LEMMA OneHeld ==
  ASSUME HInv
  PROVE  /\ \A c \in Calls : pc[c] = "completing" =>
              /\ claim[c].delivery \in Deliveries
              /\ Answering(c, claim[c].delivery)
              /\ \A e \in Deliveries :
                   Seen(c)[e] = IF e = claim[c].delivery THEN Completed(c) ELSE lines[e]
         /\ \A a \in Resolvers : pc[a] = "resolving" =>
              /\ request[a] \in Requests
              /\ request[a].delivery \in Deliveries
              /\ Deciding(a, request[a].delivery)
              /\ \A e \in Deliveries :
                   Seen(a)[e] = IF e = request[a].delivery THEN Resolved(request[a]) ELSE lines[e]
<1> USE DEF HInv, IInv
<1>1. ASSUME NEW c \in Calls, pc[c] = "completing"
      PROVE  /\ claim[c].delivery \in Deliveries
             /\ Answering(c, claim[c].delivery)
             /\ \A e \in Deliveries :
                  Seen(c)[e] = IF e = claim[c].delivery THEN Completed(c) ELSE lines[e]
  <2>1. claim[c].delivery \in Deliveries
    BY <1>1 DEF ControlInv, Working, Claim
  <2>2. HoldsProperly(c)
    BY DEF HoldInv, Actors
  <2>3. \A e \in Deliveries : holder[e] = c => Answering(c, e)
    BY <1>1, <2>2 DEF HoldsProperly, Exhausting
  <2>4. holder[claim[c].delivery] = c
    BY <1>1, <2>2 DEF HoldsProperly
  <2> QED
    BY <2>1, <2>3, <2>4 DEF Answering, Seen
<1>2. ASSUME NEW a \in Resolvers, pc[a] = "resolving"
      PROVE  /\ request[a] \in Requests
             /\ request[a].delivery \in Deliveries
             /\ Deciding(a, request[a].delivery)
             /\ \A e \in Deliveries :
                  Seen(a)[e] = IF e = request[a].delivery THEN Resolved(request[a]) ELSE lines[e]
  <2>1. request[a] \in Requests /\ request[a].delivery \in Deliveries
    BY <1>2, RequestsAssumption DEF ControlInv
  <2>2. HoldsProperly(a)
    BY DEF HoldInv, Actors
  <2>3. \A e \in Deliveries : holder[e] = a => Deciding(a, e)
    BY <2>2 DEF HoldsProperly
  <2>4. holder[request[a].delivery] = a
    BY <1>2, <2>2 DEF HoldsProperly
  <2> QED
    BY <2>1, <2>3, <2>4 DEF Deciding, Seen
<1> QED
  BY <1>1, <1>2

LEMMA NextImplements ==
  ASSUME RInv, [Next]_vars
  PROVE  [Promise!Next]_(Promise!promised)
<1> USE DEF RInv
<1>1. ASSUME NEW p \in Periods, ClosePeriod(p) PROVE Promise!Next
  <2>1. CommittedLines' = [d \in Deliveries |-> IF PeriodOf[d] = p
                                              THEN Promise!Line("pending", 0, "none")
                                              ELSE CommittedLines[d]]
    BY <1>1 DEF ClosePeriod, CommittedLines, Committed, NewLine, Promise!Line
  <2>2. Promise!Open(p)
    BY <1>1, <2>1 DEF ClosePeriod, Promise!Open
  <2> QED
    BY <2>2 DEF Promise!Next
<1>2. ASSUME NEW c \in Calls, ClaimIdle(c) PROVE Promise!Next
  <2> DEFINE ds == {d \in Deliveries : holder[d] = c}
  <2>1. pc[c] = "claiming" /\ CommitPeriods(c) /\ lines' = Seen(c) /\ UNCHANGED <<charged, commands>>
    BY <1>2 DEF ClaimIdle, CommitRows
  <2>2. Promise!MayGiveUp(ds)
    BY <2>1, ClaimHolds DEF Promise!MayGiveUp, CommittedLines, Committed
  <2>3. CommittedLines' = Promise!GivenUp(ds)
    BY <2>1, ClaimHolds DEF Promise!GivenUp, CommittedLines, Committed
  <2>4. Promise!Report
    BY <2>1, CommitReports DEF Actors
  <2>5. Promise!GiveUp(ds)
    BY <2>1, <2>2, <2>3, <2>4 DEF Promise!GiveUp
  <2> QED
    BY <2>5 DEF Promise!Next
<1>3. ASSUME NEW c \in Calls, NEW w \in Workers, NEW d \in Deliveries, ClaimNext(c, w, d)
      PROVE  Promise!Next
  <2> DEFINE ds == {e \in Deliveries : holder[e] = c}
             leased == [lines[d] EXCEPT !.status = "in_flight", !.attempts = @ + 1, !.owner = w]
  <2>1. /\ pc[c] = "claiming" /\ CommitPeriods(c) /\ UNCHANGED <<charged, commands>>
        /\ lines' = [Seen(c) EXCEPT ![d] = leased]
        /\ holder[d] = NoOne /\ d \notin ds
    BY <1>3, ActorsAssumption DEF ClaimNext, Claimable, Unlocked, Actors
  <2>2. /\ lines[d] \in Line /\ Seen(c)[d] = lines[d]
        /\ lines[d].status \in {"pending", "in_flight"} /\ lines[d].attempts < MaxAttempts
    BY <1>3, <2>1, ActorsAssumption DEF ClaimNext, Claimable, Seen, HInv, IInv, TypeOK, Actors
  <2>3. Promise!MayGiveUp(ds)
    BY <2>1, ClaimHolds DEF Promise!MayGiveUp, CommittedLines, Committed
  <2>4. Committed(leased) =
          Promise!Line("in_flight", lines[d].attempts + 1, lines[d].reference)
    BY <2>2 DEF Committed, Promise!Line, Line
  <2>5. \A e \in Deliveries :
          CommittedLines'[e] = IF e = d THEN Committed(leased) ELSE Committed(Seen(c)[e])
    BY <2>1 DEF CommittedLines, Seen
  <2>6. \A e \in Deliveries : e # d => CommittedLines'[e] = Promise!GivenUp(ds)[e]
    BY <2>1, <2>5, ClaimHolds DEF Promise!GivenUp, CommittedLines, Committed
  <2>7. /\ CommittedLines[d].attempts = lines[d].attempts
        /\ CommittedLines[d].reference = lines[d].reference
        /\ CommittedLines[d].status = lines[d].status
    BY DEF CommittedLines, Committed
  <2>8. CommittedLines' =
          [Promise!GivenUp(ds) EXCEPT
             ![d] = Promise!Line("in_flight", CommittedLines[d].attempts + 1, CommittedLines[d].reference)]
    <3> DEFINE now == Promise!Line("in_flight", CommittedLines[d].attempts + 1, CommittedLines[d].reference)
    <3>1. CommittedLines'[d] = now
      BY <2>4, <2>5, <2>7
    <3> HIDE DEF leased, ds, now
    <3>2. CommittedLines' = [e \in Deliveries |-> CommittedLines'[e]]
      BY DEF CommittedLines
    <3>3. Promise!GivenUp(ds) = [e \in Deliveries |-> Promise!GivenUp(ds)[e]]
      BY DEF Promise!GivenUp
    <3>4. CommittedLines' = [Promise!GivenUp(ds) EXCEPT ![d] = now]
      BY <2>6, <3>1, <3>2, <3>3
    <3> QED
      BY <3>4 DEF now
  <2>9. Promise!Report
    BY <2>1, CommitReports DEF Actors
  <2>10. CommittedLines[d].status \in {"pending", "in_flight"} /\ CommittedLines[d].attempts < MaxAttempts
    BY <2>2, <2>7
  <2>11. Promise!Try(d, ds)
    BY <2>1, <2>3, <2>8, <2>9, <2>10 DEF Promise!Try
  <2> QED
    BY <2>11 DEF Promise!Next
<1>4. ASSUME NEW d \in Deliveries, lines[d].attempts > 0, charged' = charged \cup {d},
             UNCHANGED <<lines, commands, periods>>
      PROVE  Promise!Next
  <2>1. Promise!Accept(d)
    BY <1>4 DEF Promise!Accept, CommittedLines, Committed
  <2> QED
    BY <2>1 DEF Promise!Next
<1>5. ASSUME NEW c \in Calls, pc[c] = "publishing"
      PROVE  claim[c].delivery \in Deliveries /\ lines[claim[c].delivery].attempts > 0
  <2>1. /\ claim[c].delivery \in Deliveries /\ claim[c].attempt \in 1..MaxAttempts
        /\ claim[c].attempt <= lines[claim[c].delivery].attempts
    BY <1>5 DEF HInv, IInv, ControlInv, Working, Claim, GenerationInv, ClaimGenerations
  <2>2. lines[claim[c].delivery].attempts \in 0..MaxAttempts
    BY <2>1 DEF HInv, IInv, TypeOK, Line
  <2> QED
    BY <2>1, <2>2, AttemptsAssumption
<1>6. ASSUME NEW c \in Calls, SinkReply(c) PROVE Promise!Next \/ UNCHANGED Promise!promised
  <2>1. /\ pc[c] = "publishing" /\ UNCHANGED <<lines, commands, periods>>
        /\ charged' \in {charged, charged \cup {claim[c].delivery}}
    BY <1>6 DEF SinkReply, Outcomes, rows, tables
  <2> QED
    BY <1>4, <1>5, <2>1, Stutters
<1>7. ASSUME NEW c \in Calls, CompleteCommit(c) PROVE Promise!Next
  <2> DEFINE d == claim[c].delivery
             o == claim[c].outcome
  <2>1. /\ pc[c] = "completing" /\ CommitPeriods(c) /\ lines' = Seen(c)
        /\ UNCHANGED <<charged, commands>>
    BY <1>7 DEF CompleteCommit, CommitRows
  <2>2. /\ d \in Deliveries /\ Owns(c) /\ lines[d] \in Line /\ o \in Promise!Outcomes
        /\ \A e \in Deliveries : lines'[e] = IF e = d THEN Completed(c) ELSE lines[e]
    BY <2>1, OneHeld DEF Answering, HInv, IInv, TypeOK, ControlInv, Outcomes, Promise!Outcomes
  <2>3. Committed(Completed(c)) =
          Promise!Line(o, lines[d].attempts, IF o = "delivered" THEN "sink" ELSE "none")
    BY <2>2 DEF Completed, Committed, Promise!Line, Line
  <2>4. CommittedLines' =
          [CommittedLines EXCEPT
             ![d] = Promise!Line(o, CommittedLines[d].attempts,
                                 IF o = "delivered" THEN "sink" ELSE "none")]
    <3>1. CommittedLines[d].attempts = lines[d].attempts
      BY <2>2 DEF CommittedLines, Committed
    <3> QED
      BY <2>2, <2>3, <3>1 DEF CommittedLines
  <2>5. CommittedLines[d].status = "in_flight" /\ (o = "delivered" => d \in charged)
    BY <2>1, <2>2 DEF Owns, CommittedLines, Committed, AnswerInv
  <2>6. Promise!Report
    BY <2>1, CommitReports DEF Actors
  <2>7. Promise!Conclude(d, o)
    BY <2>1, <2>4, <2>5, <2>6 DEF Promise!Conclude
  <2> QED
    BY <2>2, <2>7 DEF Promise!Next
<1>8. ASSUME NEW a \in Resolvers, ResolveCommit(a) PROVE Promise!Next
  <2> DEFINE r == request[a]
             d == r.delivery
             s == IF r.resolution = "retry" THEN "pending" ELSE r.resolution
             f == IF r.resolution # "retry" /\ r.reference THEN "operator" ELSE "none"
  <2>1. /\ pc[a] = "resolving" /\ CommitPeriods(a) /\ lines' = Seen(a) /\ UNCHANGED charged
        /\ (\A q \in commands : q.key # r.key) /\ commands' = commands \cup {r}
    BY <1>8 DEF ResolveCommit, CommitRows, StoreCommand, Stored
  <2>2. /\ r \in Requests /\ d \in Deliveries /\ Resolvable(r) /\ lines[d] \in Line
        /\ \A e \in Deliveries : lines'[e] = IF e = d THEN Resolved(r) ELSE lines[e]
    BY <2>1, OneHeld DEF Deciding, HInv, IInv, TypeOK
  <2>3. Committed(Resolved(r)) = Promise!Line(s, lines[d].attempts, f)
    BY <2>2 DEF Resolved, Committed, Promise!Line, Line
  <2>4. CommittedLines' = [CommittedLines EXCEPT ![d] = Promise!Line(s, CommittedLines[d].attempts, f)]
    <3>1. CommittedLines[d].attempts = lines[d].attempts
      BY <2>2 DEF CommittedLines, Committed
    <3> HIDE DEF s, f
    <3> QED
      BY <2>2, <2>3, <3>1 DEF CommittedLines
  <2>5. /\ CommittedLines[d].status \in {"failed", "unknown"}
        /\ r.resolution = "delivered" => r.reference
    BY <2>2 DEF Resolvable, Settled, CommittedLines, Committed
  <2>6. Promise!Report
    BY <2>1, CommitReports DEF Actors
  <2>7. Promise!Resolve(r)
    BY <2>1, <2>4, <2>5, <2>6 DEF Promise!Resolve
  <2> QED
    BY <2>2, <2>7 DEF Promise!Next
<1>9. ASSUME NEW x \in Actors, Die(x) PROVE Promise!Next \/ UNCHANGED Promise!promised
  <2>1. UNCHANGED <<lines, commands, periods>>
    BY <1>9 DEF Die, Rollback
  <2>2. CASE UNCHANGED charged
    BY <2>1, <2>2, Stutters
  <2>3. CASE pc[x] = "publishing" /\ charged' = charged \cup {claim[x].delivery}
    <3>1. x \in Calls
      BY <2>3 DEF HInv, IInv, ControlInv, ResolverStates, Actors
    <3> QED
      BY <1>4, <1>5, <2>1, <2>3, <3>1
  <2> QED
    BY <1>9, <2>2, <2>3 DEF Die
<1>10. ASSUME \/ \E c \in Calls : ClaimBegin(c) \/ CompleteBegin(c) \/ CompleteLost(c)
              \/ \E a \in Resolvers : ResolveLock(a) \/ ResolveRefuse(a) \/ ResolveDuplicate(a)
              \/ \E a \in Resolvers, r \in Requests : ResolveStart(a, r)
              \/ \E x \in Actors : Refreshing(x)
              \/ \E d \in Deliveries : LeaseExpires(d)
              \/ UNCHANGED vars
       PROVE  UNCHANGED Promise!promised
  <2>1. UNCHANGED <<lines, charged, commands, periods>>
    BY <1>10 DEF ClaimBegin, CompleteBegin, CompleteLost, ResolveLock, ResolveRefuse,
                 ResolveDuplicate, ResolveStart, Refreshing, RefreshRead, RefreshWrite,
                 LeaseExpires, WriteRows, Rollback, vars, rows, tables
  <2> QED
    BY <2>1, Stutters
<1> HIDE DEF RInv
<1> QED
  BY <1>1, <1>2, <1>3, <1>6, <1>7, <1>8, <1>9, <1>10
     DEF Next, Claiming, Completing, Resolving

\* The statements of reconcile_next and resolve_delivery, in any interleaving and with
\* any deaths, implement the life of a line that Delivery promises.
THEOREM Implementation == Spec => ImplementsDelivery
<1>1. Init => Promise!Init
  BY DEF Init, Promise!Init, CommittedLines, Committed, NewLine, Promise!Line
<1>2. RInv /\ [Next]_vars => [Promise!Next]_(Promise!promised)
  BY NextImplements
<1> QED
  BY <1>1, <1>2, InductiveHolds, PTL DEF Spec, ImplementsDelivery, Promise!Spec

-----------------------------------------------------------------------------
(***************************************************************************)
(* What moves a row.                                                       *)
(***************************************************************************)

\* A committed row changes in one of five ways.
LEMMA RowMoves ==
  ASSUME HInv, [Next]_vars, NEW d \in Deliveries, lines'[d] # lines[d]
  PROVE  \/ /\ lines[d].status = "absent"
            /\ lines'[d].status = "pending" /\ lines'[d].attempts = 0
         \/ /\ lines[d].status = "pending" /\ lines[d].attempts >= MaxAttempts
            /\ lines'[d].status = "failed"
         \/ \E c \in Calls, w \in Workers : ClaimNext(c, w, d)
         \/ \E c \in Calls : CompleteCommit(c) /\ Answering(c, d) /\ lines'[d] = Completed(c)
         \/ \E a \in Resolvers :
              ResolveCommit(a) /\ Deciding(a, d) /\ lines'[d] = Resolved(request[a])
<1>0. /\ lines[d] \in Line
      /\ \A c \in Calls : pc[c] = "claiming" /\ Seen(c)[d] # lines[d] =>
           /\ lines[d].status = "pending" /\ lines[d].attempts >= MaxAttempts
           /\ Seen(c)[d].status = "failed"
  <2>1. lines[d] \in Line
    BY DEF HInv, IInv, TypeOK
  <2>2. ASSUME NEW c \in Calls, pc[c] = "claiming", Seen(c)[d] # lines[d]
        PROVE  /\ lines[d].status = "pending" /\ lines[d].attempts >= MaxAttempts
               /\ Seen(c)[d].status = "failed"
    <3>1. holder[d] = c
      BY <2>2 DEF Seen
    <3>2. Exhausting(c, d)
      BY <2>2, <3>1 DEF HInv, HoldInv, HoldsProperly, Actors, Answering
    <3> QED
      BY <2>1, <3>1, <3>2 DEF Exhausting, Seen, Line
  <2> QED
    BY <2>1, <2>2
<1>1. ASSUME NEW p \in Periods, ClosePeriod(p)
      PROVE  /\ lines[d].status = "absent"
             /\ lines'[d].status = "pending" /\ lines'[d].attempts = 0
  <2>1. PeriodOf[d] = p /\ lines'[d] = NewLine("pending")
    BY <1>1 DEF ClosePeriod
  <2> QED
    BY <1>1, <2>1 DEF ClosePeriod, NewLine, HInv, IInv, TableInv, PeriodsInv
<1>2. ASSUME NEW c \in Calls, Claiming(c)
      PROVE  \/ /\ lines[d].status = "pending" /\ lines[d].attempts >= MaxAttempts
                /\ lines'[d].status = "failed"
             \/ \E w \in Workers : ClaimNext(c, w, d)
  <2>1. CASE ClaimBegin(c)
    BY <2>1 DEF ClaimBegin, WriteRows
  <2>2. CASE ClaimIdle(c)
    BY <1>0, <2>2 DEF ClaimIdle, CommitRows
  <2>3. ASSUME NEW w \in Workers, NEW e \in Deliveries, ClaimNext(c, w, e), e # d
        PROVE  /\ lines[d].status = "pending" /\ lines[d].attempts >= MaxAttempts
               /\ lines'[d].status = "failed"
    <3>1. pc[c] = "claiming" /\ lines'[d] = Seen(c)[d]
      BY <2>3 DEF ClaimNext, Seen
    <3> QED
      BY <1>0, <3>1
  <2> QED
    BY <1>2, <2>1, <2>2, <2>3 DEF Claiming
<1>3. ASSUME NEW c \in Calls, Completing(c)
      PROVE  CompleteCommit(c) /\ Answering(c, d) /\ lines'[d] = Completed(c)
  <2>1. CompleteCommit(c)
    BY <1>3 DEF Completing, CompleteBegin, CompleteLost, WriteRows, rows
  <2>2. pc[c] = "completing" /\ lines'[d] = Seen(c)[d]
    BY <2>1 DEF CompleteCommit, CommitRows
  <2> QED
    BY <2>1, <2>2, OneHeld
<1>4. ASSUME NEW a \in Resolvers, Resolving(a)
      PROVE  ResolveCommit(a) /\ Deciding(a, d) /\ lines'[d] = Resolved(request[a])
  <2>1. ResolveCommit(a)
    BY <1>4 DEF Resolving, ResolveLock, ResolveRefuse, ResolveDuplicate, WriteRows, Rollback, rows
  <2>2. pc[a] = "resolving" /\ lines'[d] = Seen(a)[d]
    BY <2>1 DEF ResolveCommit, CommitRows
  <2> QED
    BY <2>1, <2>2, OneHeld
<1>5. ASSUME NEW x \in Actors, Refreshing(x) \/ Die(x) PROVE FALSE
  BY <1>5 DEF Refreshing, RefreshRead, RefreshWrite, Die, Rollback, rows
<1> QED
  BY <1>1, <1>2, <1>3, <1>4, <1>5
     DEF Next, vars, rows, SinkReply, ResolveStart, LeaseExpires

\* A row in flight is concluded only by the call that made its very attempt, and taken
\* over only after its lease ran out: a stale holder can do nothing.
THEOREM StaleHoldersAreHarmless == Spec => StaleHolderHarmless
<1>1. ASSUME RInv, [Next]_vars, NEW d \in Deliveries,
             lines[d].status = "in_flight", lines'[d] # lines[d]
      PROVE  \/ \E c \in Calls :
                  /\ pc[c] = "completing" /\ claim[c].delivery = d
                  /\ claim[c].worker = lines[d].owner
                  /\ claim[c].attempt = lines[d].attempts
                  /\ lines'[d].status = claim[c].outcome
             \/ /\ d \in expired
                /\ lines'[d].status = "in_flight"
                /\ lines'[d].attempts = lines[d].attempts + 1
  <2>0. lines[d] \in Line
    BY <1>1 DEF RInv, HInv, IInv, TypeOK
  <2>1. ASSUME NEW c \in Calls, NEW w \in Workers, ClaimNext(c, w, d)
        PROVE  /\ d \in expired
               /\ lines'[d].status = "in_flight"
               /\ lines'[d].attempts = lines[d].attempts + 1
    <3>1. d \in expired
      BY <1>1, <2>1, ActorsAssumption DEF ClaimNext, Claimable, Unlocked, Seen, Actors
    <3>2. lines'[d] = [lines[d] EXCEPT !.status = "in_flight", !.attempts = @ + 1, !.owner = w]
      BY <2>1 DEF ClaimNext, Seen
    <3> QED
      BY <2>0, <3>1, <3>2 DEF Line
  <2>2. ASSUME NEW c \in Calls, Answering(c, d), lines'[d] = Completed(c)
        PROVE  /\ pc[c] = "completing" /\ claim[c].delivery = d
               /\ claim[c].worker = lines[d].owner
               /\ claim[c].attempt = lines[d].attempts
               /\ lines'[d].status = claim[c].outcome
    BY <2>0, <2>2 DEF Answering, Owns, Completed, Line
  <2>3. ASSUME NEW a \in Resolvers, Deciding(a, d) PROVE FALSE
    BY <1>1, <2>3 DEF Deciding, Resolvable, Settled
  <2> QED
    BY <1>1, <2>1, <2>2, <2>3, RowMoves DEF RInv
<1>2. RInv /\ [Next]_vars =>
        [\A d \in Deliveries :
           lines[d].status = "in_flight" /\ lines'[d] # lines[d] =>
             \/ \E c \in Calls :
                  /\ pc[c] = "completing" /\ claim[c].delivery = d
                  /\ claim[c].worker = lines[d].owner
                  /\ claim[c].attempt = lines[d].attempts
                  /\ lines'[d].status = claim[c].outcome
             \/ /\ d \in expired
                /\ lines'[d].status = "in_flight"
                /\ lines'[d].attempts = lines[d].attempts + 1]_vars
  BY <1>1
<1> QED
  BY <1>2, InductiveHolds, PTL DEF Spec, StaleHolderHarmless

\* A failed or unknown line moves only by a command stored in the same commit.
THEOREM OperatorsDecideSettledLines == Spec => SettledNeedsOperator
<1>1. ASSUME RInv, [Next]_vars, NEW d \in Deliveries,
             lines[d].status \in Settled, lines'[d] # lines[d]
      PROVE  \E r \in commands' \ commands :
               /\ r.delivery = d
               /\ lines'[d].status = IF r.resolution = "retry" THEN "pending" ELSE r.resolution
               /\ lines'[d].attempts = lines[d].attempts
  <2>0. lines[d] \in Line
    BY <1>1 DEF RInv, HInv, IInv, TypeOK
  <2>1. ASSUME NEW c \in Calls, NEW w \in Workers, ClaimNext(c, w, d)
        PROVE  FALSE
    BY <1>1, <2>1, ActorsAssumption DEF ClaimNext, Claimable, Unlocked, Seen, Settled, Actors
  <2>2. ASSUME NEW c \in Calls, Answering(c, d)
        PROVE  FALSE
    BY <1>1, <2>2 DEF Answering, Owns, Settled
  <2>3. PICK a \in Resolvers :
          ResolveCommit(a) /\ Deciding(a, d) /\ lines'[d] = Resolved(request[a])
    BY <1>1, <2>1, <2>2, RowMoves DEF RInv, Settled
  <2>4. request[a] \in commands' \ commands /\ request[a].delivery = d
    BY <2>3 DEF ResolveCommit, StoreCommand, Stored, Deciding
  <2>5. /\ lines'[d].status = IF request[a].resolution = "retry" THEN "pending"
                              ELSE request[a].resolution
        /\ lines'[d].attempts = lines[d].attempts
    BY <2>0, <2>3, <2>4 DEF Resolved, Line
  <2> QED
    BY <2>4, <2>5
<1>2. RInv /\ [Next]_vars =>
        [\A d \in Deliveries :
           lines[d].status \in Settled /\ lines'[d] # lines[d] =>
             \E r \in commands' \ commands :
                /\ r.delivery = d
                /\ lines'[d].status = IF r.resolution = "retry" THEN "pending" ELSE r.resolution
                /\ lines'[d].attempts = lines[d].attempts]_vars
  BY <1>1
<1> QED
  BY <1>2, InductiveHolds, PTL DEF Spec, SettledNeedsOperator

\* What the commit of a resolution does to the lines and the commands.
LEMMA ResolutionCommits ==
  ASSUME RInv, NEW a \in Resolvers, ResolveCommit(a)
  PROVE  LET r == request[a] IN
         /\ commands' = commands \cup {r} /\ ~Stored(r.key)
         /\ r.delivery \in Deliveries
         /\ lines[r.delivery].status \in Settled
         /\ \A d \in Deliveries :
              lines'[d] = IF d = r.delivery THEN Resolved(r) ELSE lines[d]
<1> DEFINE r == request[a]
<1>1. /\ pc[a] = "resolving" /\ lines' = Seen(a)
      /\ commands' = commands \cup {r} /\ ~Stored(r.key)
  BY DEF ResolveCommit, CommitRows, StoreCommand
<1>2. /\ r.delivery \in Deliveries /\ Resolvable(r)
      /\ \A d \in Deliveries : lines'[d] = IF d = r.delivery THEN Resolved(r) ELSE lines[d]
  BY <1>1, OneHeld DEF RInv, Deciding
<1> QED
  BY <1>1, <1>2 DEF Resolvable

\* Nothing but the commit of a resolution stores a command.
LEMMA OthersStoreNothing ==
  ASSUME [Next]_vars, \A a \in Resolvers : ~ResolveCommit(a)
  PROVE  commands' = commands
BY DEF Next, vars, ClosePeriod, Claiming, ClaimBegin, ClaimIdle, ClaimNext, SinkReply,
       Completing, CompleteBegin, CompleteLost, CompleteCommit, Resolving, ResolveLock,
       ResolveRefuse, ResolveDuplicate, ResolveStart, Refreshing, RefreshRead,
       RefreshWrite, Die, LeaseExpires, Rollback, rows, tables, calls

\* resolve_delivery takes effect once for each key: a settled line moves only in a commit
\* that stores a command under a key without one, and no command is stored without
\* its effect on the line it names.
THEOREM KeysTakeEffectOnce == Spec => ResolutionOnce
<1> DEFINE new   == commands' \ commands
           moved == {d \in Deliveries : lines[d].status \in Settled /\ lines'[d] # lines[d]}
           Once  == /\ commands \subseteq commands'
                    /\ moved \subseteq {r.delivery : r \in new}
                    /\ \A r \in new :
                         /\ new = {r} /\ ~Stored(r.key)
                         /\ lines[r.delivery].status \in Settled
                         /\ lines'[r.delivery] = Resolved(r)
<1>1. ASSUME RInv, [Next]_vars, NEW a \in Resolvers, ResolveCommit(a)
      PROVE  Once
  <2> DEFINE r == request[a]
  <2>1. /\ commands' = commands \cup {r} /\ ~Stored(r.key)
        /\ r.delivery \in Deliveries
        /\ lines[r.delivery].status \in Settled
        /\ \A d \in Deliveries :
             lines'[d] = IF d = r.delivery THEN Resolved(r) ELSE lines[d]
    BY <1>1, ResolutionCommits
  <2>2. r \notin commands
    BY <2>1 DEF Stored
  <2>3. new = {r} /\ commands \subseteq commands'
    BY <2>1, <2>2
  <2>4. \A d \in moved : d = r.delivery
    BY <2>1
  <2> QED
    BY <2>1, <2>3, <2>4
<1>2. ASSUME RInv, [Next]_vars, \A a \in Resolvers : ~ResolveCommit(a)
      PROVE  Once
  <2>1. commands' = commands
    BY <1>2, OthersStoreNothing
  <2>2. ASSUME NEW d \in moved
        PROVE  FALSE
    <3>1. lines[d] \in Line
      BY <1>2 DEF RInv, HInv, IInv, TypeOK
    <3>2. ASSUME NEW c \in Calls, NEW w \in Workers, ClaimNext(c, w, d)
          PROVE  FALSE
      BY <2>2, <3>2, ActorsAssumption DEF ClaimNext, Claimable, Unlocked, Seen, Settled, Actors
    <3>3. ASSUME NEW c \in Calls, Answering(c, d)
          PROVE  FALSE
      BY <2>2, <3>3 DEF Answering, Owns, Settled
    <3> QED
      BY <1>2, <2>2, <3>2, <3>3, RowMoves DEF RInv, Settled
  <2> QED
    BY <2>1, <2>2
<1>3. RInv /\ [Next]_vars => [Once]_vars
  BY <1>1, <1>2
<1> QED
  BY <1>3, InductiveHolds, PTL DEF Spec, ResolutionOnce

\* A delivered line stands for an event the sink accepted or for a stored confirmation.
THEOREM DeliveredIsBilled == Spec => []DeliveredMeansBilled
<1>1. Init => DeliveredMeansBilled
  BY DEF Init, DeliveredMeansBilled, NewLine
<1>2. ASSUME RInv, [Next]_vars, DeliveredMeansBilled
      PROVE  DeliveredMeansBilled'
  <2> USE DEF RInv
  <2>1. charged \subseteq charged'
    <3>1. Promise!Next \/ UNCHANGED Promise!promised
      BY <1>2, NextImplements
    <3> QED
      BY <3>1 DEF Promise!Next, Promise!promised, Promise!Open, Promise!GiveUp, Promise!Try,
                  Promise!Accept, Promise!Conclude, Promise!Resolve
  <2>2. commands \subseteq commands'
    <3>1. Promise!Next \/ UNCHANGED Promise!promised
      BY <1>2, NextImplements
    <3> QED
      BY <3>1 DEF Promise!Next, Promise!promised, Promise!Open, Promise!GiveUp, Promise!Try,
                  Promise!Accept, Promise!Conclude, Promise!Resolve
  <2>3. ASSUME NEW d \in Deliveries, lines'[d].status = "delivered"
        PROVE  \/ lines'[d].reference = "sink" /\ d \in charged'
               \/ /\ lines'[d].reference = "operator"
                  /\ \E r \in commands' : r.delivery = d /\ r.resolution = "delivered"
    <3>0. lines[d] \in Line
      BY <1>2 DEF HInv, IInv, TypeOK
    <3>1. CASE lines'[d] = lines[d]
      BY <1>2, <2>1, <2>2, <2>3, <3>1 DEF DeliveredMeansBilled
    <3>2. ASSUME NEW c \in Calls, NEW w \in Workers, ClaimNext(c, w, d)
          PROVE  FALSE
      <4>1. lines'[d] = [lines[d] EXCEPT !.status = "in_flight", !.attempts = @ + 1, !.owner = w]
        BY <3>2 DEF ClaimNext, Seen
      <4> QED
        BY <2>3, <3>0, <4>1 DEF Line
    <3>3. ASSUME NEW c \in Calls, CompleteCommit(c), Answering(c, d), lines'[d] = Completed(c)
          PROVE  lines'[d].reference = "sink" /\ d \in charged'
      <4>1. claim[c].outcome = "delivered" /\ lines'[d].reference = "sink"
        BY <2>3, <3>0, <3>3 DEF Answering, Completed, Line
      <4> QED
        BY <1>2, <2>1, <3>3, <4>1 DEF AnswerInv, Answering
    <3>4. ASSUME NEW a \in Resolvers, ResolveCommit(a), Deciding(a, d),
                 lines'[d] = Resolved(request[a])
          PROVE  /\ lines'[d].reference = "operator"
                 /\ \E r \in commands' : r.delivery = d /\ r.resolution = "delivered"
      <4>1. /\ request[a] \in commands' /\ request[a].delivery = d
            /\ request[a].resolution = "delivered" => request[a].reference
        BY <3>4 DEF ResolveCommit, StoreCommand, Deciding, Resolvable
      <4>2. request[a].resolution = "delivered"
        BY <2>3, <3>0, <3>4, <4>1 DEF Resolved, Line
      <4>3. lines'[d].reference = "operator"
        BY <3>0, <3>4, <4>1, <4>2 DEF Resolved, Line
      <4> QED
        BY <4>1, <4>2, <4>3
    <3> QED
      BY <1>2, <2>3, <3>1, <3>2, <3>3, <3>4, RowMoves
  <2> QED
    BY <2>3 DEF DeliveredMeansBilled
<1> QED
  BY <1>1, <1>2, InductiveHolds, PTL DEF Spec
=============================================================================
