----------------------- MODULE DeliveryOutboxFailures -----------------------
(***************************************************************************)
(* Theorems about what goes wrong with a delivery in DeliveryOutbox, and   *)
(* how far: which lines a death leaves in flight, and which failures       *)
(* nobody decided.                                                         *)
(*                                                                         *)
(* Both arguments follow one call: it works on an attempt until it         *)
(* concludes it, is told that the row has gone on without it, or dies      *)
(* (WorkGoesOn); and RowMoves names what may have happened to the row.     *)
(***************************************************************************)
EXTENDS DeliveryOutboxRefinement, FiniteSetTheorems

-----------------------------------------------------------------------------
(***************************************************************************)
(* The work of a call, from its claim to its end.                          *)
(***************************************************************************)

\* A call that works on an attempt goes on with it, unless it concludes it, loses it
\* to a later one, or dies.
LEMMA WorkGoesOn ==
  ASSUME HInv, [Next]_vars, NEW c \in Calls, Working(c),
         ~CompleteLost(c), ~CompleteCommit(c), ~Die(c)
  PROVE  Working(c)'
<1> USE ActorsAssumption DEF Working, Actors
<1>0. /\ pc \in [Actors -> {"idle", "claiming", "publishing", "replied", "completing",
                           "locking", "resolving"}]
      /\ ControlInv
  BY DEF HInv, IInv, TypeOK
<1> HIDE DEF HInv
<1>1. ASSUME NEW b \in Calls, Claiming(b) \/ SinkReply(b) \/ Completing(b)
      PROVE  Working(c)'
  <2>1. CASE b = c
    BY <1>0, <1>1, <2>1
    DEF Claiming, ClaimBegin, ClaimIdle, ClaimNext, SinkReply, Completing, CompleteBegin
  <2>2. CASE b # c
    <3>1. pc'[c] = pc[c]
      BY <1>0, <1>1, <2>2
      DEF Claiming, ClaimBegin, ClaimIdle, ClaimNext, SinkReply, Completing, CompleteBegin,
          CompleteLost, CompleteCommit
    <3> QED
      BY <3>1
  <2> QED
    BY <2>1, <2>2
<1>2. ASSUME NEW a \in Resolvers, Resolving(a) \/ \E r \in Requests : ResolveStart(a, r)
      PROVE  Working(c)'
  <2>1. a # c
    OBVIOUS
  <2>2. pc'[c] = pc[c]
    BY <1>0, <1>2, <2>1
    DEF Resolving, ResolveLock, ResolveRefuse, ResolveCommit, ResolveDuplicate, ResolveStart
  <2> QED
    BY <2>2
<1>3. ASSUME NEW x \in Actors, Refreshing(x) \/ Die(x)
      PROVE  Working(c)'
  BY <1>0, <1>3 DEF Refreshing, RefreshRead, RefreshWrite, Die, calls
<1>4. ASSUME NEW p \in Periods, ClosePeriod(p)
      PROVE  Working(c)'
  BY <1>4 DEF ClosePeriod, calls
<1>5. CASE UNCHANGED vars \/ \E d \in Deliveries : LeaseExpires(d)
  BY <1>5 DEF vars, LeaseExpires, calls
<1> QED
  BY <1>1, <1>2, <1>3, <1>4, <1>5 DEF Next

\* Deaths are counted where calls die, and nowhere else.
LEMMA DeathsCounted ==
  ASSUME [Next]_vars
  PROVE  \/ \E x \in Actors : Die(x)
         \/ UNCHANGED deaths
  BY DEF Next, vars, ClosePeriod, Claiming, ClaimBegin, ClaimIdle, ClaimNext, SinkReply,
         Completing, CompleteBegin, CompleteLost, CompleteCommit, Resolving, ResolveLock,
         ResolveRefuse, ResolveCommit, ResolveDuplicate, ResolveStart, Refreshing,
         RefreshRead, RefreshWrite, LeaseExpires

-----------------------------------------------------------------------------
(***************************************************************************)
(* Lines left in flight.                                                   *)
(***************************************************************************)

\* The row of an attempt a call works on is leased to the worker of that call.
OwnerInv ==
  \A c \in Calls, d \in Deliveries :
    WorksOn(c, d) /\ lines[d].status = "in_flight" => lines[d].owner = claim[c].worker

\* A row that is in flight after a step was so before it, or has just been claimed.
LEMMA InFlightMoves ==
  ASSUME HInv, [Next]_vars, NEW d \in Deliveries, lines'[d].status = "in_flight"
  PROVE  \/ lines'[d] = lines[d]
         \/ \E c \in Calls, w \in Workers : ClaimNext(c, w, d)
<1>0. lines[d] \in Line /\ ControlInv
  BY DEF HInv, IInv, TypeOK
<1>1. ASSUME NEW c \in Calls, Answering(c, d), lines'[d] = Completed(c)
      PROVE  FALSE
  <2>1. claim[c].outcome \in Outcomes
    BY <1>0, <1>1 DEF ControlInv, Answering
  <2>2. lines'[d].status = claim[c].outcome
    BY <1>0, <1>1 DEF Answering, Completed, Line
  <2> QED
    BY <2>1, <2>2 DEF Outcomes
<1>2. ASSUME NEW a \in Resolvers, Deciding(a, d), lines'[d] = Resolved(request[a])
      PROVE  FALSE
  <2>1. request[a] \in Requests
    BY <1>0, <1>2 DEF ControlInv, Deciding
  <2>2. request[a].resolution \in Resolutions
    BY <2>1, RequestsAssumption
  <2>3. lines'[d].status = IF request[a].resolution = "retry" THEN "pending"
                           ELSE request[a].resolution
    BY <1>0, <1>2 DEF Deciding, Resolved, Line
  <2> QED
    BY <2>2, <2>3 DEF Resolutions
<1> QED
  BY <1>1, <1>2, RowMoves

\* The attempt a call works on is the one it worked on, unless it has just claimed it.
LEMMA SameWork ==
  ASSUME HInv, [Next]_vars, NEW c \in Calls, NEW d \in Deliveries,
         lines'[d] = lines[d], \A w \in Workers, e \in Deliveries : ~ClaimNext(c, w, e)
  PROVE  WorksOn(c, d)' => WorksOn(c, d) /\ claim'[c].worker = claim[c].worker
  BY WorkKept DEF WorksOn

\* What a claim leaves: the call works on the next attempt of the row, for its worker.
LEMMA ClaimWorks ==
  ASSUME HInv, NEW c \in Calls, NEW w \in Workers, NEW d \in Deliveries, ClaimNext(c, w, d)
  PROVE  WorksOn(c, d)' /\ lines'[d].owner = w /\ claim'[c].worker = w
<1>1. lines[d] \in Line /\ claim \in [Calls -> Claim \cup {NoClaim}] /\ pc'[c] = "publishing"
  BY DEF HInv, IInv, TypeOK, ClaimNext, Actors
<1>2. lines'[d].owner = w
  BY <1>1 DEF ClaimNext, Seen, Line
<1>3. claim'[c].worker = w
  BY <1>1 DEF ClaimNext
<1> QED
  BY <1>1, <1>2, <1>3, ClaimIsNew DEF WorksOn, Working

LEMMA NextKeepsOwner ==
  ASSUME HInv, GenerationInv, OwnerInv, [Next]_vars
  PROVE  OwnerInv'
<1> SUFFICES ASSUME NEW c \in Calls, NEW d \in Deliveries,
                    WorksOn(c, d)', lines'[d].status = "in_flight"
             PROVE  lines'[d].owner = claim'[c].worker
  BY DEF OwnerInv, WorksOn, Working
<1>1. CASE \E w \in Workers, e \in Deliveries : ClaimNext(c, w, e)
  <2>1. PICK w \in Workers, e \in Deliveries : ClaimNext(c, w, e)
    BY <1>1
  <2>2. d = e
    BY <2>1, ClaimIsNew DEF WorksOn
  <2> QED
    BY <2>1, <2>2, ClaimWorks
<1>2. CASE \A w \in Workers, e \in Deliveries : ~ClaimNext(c, w, e)
  <2>1. CASE lines'[d] = lines[d]
    BY <1>2, <2>1, SameWork DEF OwnerInv
  <2>2. ASSUME NEW b \in Calls, NEW w \in Workers, ClaimNext(b, w, d)
        PROVE  FALSE
    <3>1. /\ Working(c) /\ claim[c].delivery = d
          /\ claim[c].attempt = lines[d].attempts + 1 /\ lines[d].attempts \in Nat
      BY <1>2, <2>2, WorkKept, ClaimIsNew DEF WorksOn
    <3>2. claim[c].attempt <= lines[d].attempts
      BY <3>1 DEF GenerationInv, ClaimGenerations
    <3> QED
      BY <3>1, <3>2
  <2> QED
    BY <2>1, <2>2, InFlightMoves
<1> QED
  BY <1>1, <1>2

\* Only the death of the call that works on it strands a line.
LEMMA NewlyStranded ==
  ASSUME HInv, OwnerInv, [Next]_vars, NEW d \in Stranded', d \notin Stranded
  PROVE  \E c \in Calls : Die(c) /\ d = claim[c].delivery
<1>1. d \in Deliveries /\ lines'[d].status = "in_flight" /\ \A c \in Calls : ~WorksOn(c, d)'
  BY DEF Stranded, WorksOn, Working
<1>2. lines'[d] = lines[d]
  BY <1>1, ClaimWorks, InFlightMoves
<1>3. PICK c \in Calls : WorksOn(c, d)
  BY <1>1, <1>2 DEF Stranded
<1>4. Working(c) /\ claim[c].delivery = d /\ Owns(c)
  BY <1>1, <1>2, <1>3 DEF WorksOn, OwnerInv, Owns
<1>5. ~CompleteLost(c)
  BY <1>4 DEF CompleteLost
<1>6. ~CompleteCommit(c)
  <2> SUFFICES ASSUME CompleteCommit(c)
               PROVE  FALSE
    OBVIOUS
  <2>1. c \in Actors /\ pc[c] = "completing"
    BY DEF CompleteCommit, Actors
  <2>2. lines'[d] = Seen(c)[d] /\ holder[d] = c
    BY <1>1, <1>4, <2>1 DEF CompleteCommit, CommitRows, HInv, HoldInv, HoldsProperly
  <2>3. Exhausting(c, d) \/ Answering(c, d)
    BY <1>1, <2>1, <2>2 DEF HInv, HoldInv, HoldsProperly
  <2>4. written[d] = Completed(c)
    BY <2>1, <2>3 DEF Exhausting, Answering
  <2>5. lines[d] \in Line /\ claim[c].outcome \in Outcomes
    BY <1>1, <2>1 DEF HInv, IInv, TypeOK, ControlInv
  <2> QED
    BY <1>1, <1>4, <2>2, <2>4, <2>5 DEF Seen, Completed, Line, Outcomes
<1>7. Die(c)
  <2>1. ~Working(c)'
    <3>1. ASSUME Working(c)'
          PROVE  WorksOn(c, d)'
      <4>1. \A w \in Workers, e \in Deliveries : ~ClaimNext(c, w, e)
        BY <1>4 DEF Working, ClaimNext
      <4> QED
        BY <1>2, <1>3, <3>1, <4>1, WorkKept DEF WorksOn
    <3> QED
      BY <1>1, <3>1
  <2> QED
    BY <1>4, <1>5, <1>6, <2>1, WorkGoesOn
<1> QED
  BY <1>4, <1>7

StrandedInv == IsFiniteSet(Stranded) /\ Cardinality(Stranded) <= deaths

LEMMA NextKeepsStranded ==
  ASSUME HInv, OwnerInv, StrandedInv, [Next]_vars
  PROVE  StrandedInv'
<1>1. deaths \in Nat /\ IsFiniteSet(Stranded) /\ Cardinality(Stranded) \in Nat
  BY AttemptsAssumption, FS_CardinalityType DEF HInv, IInv, TypeOK, StrandedInv
<1>2. ASSUME NEW x \in Actors, Die(x)
      PROVE  StrandedInv'
  <2> DEFINE T == Stranded \cup {claim[x].delivery}
  <2>1. deaths' = deaths + 1
    BY <1>2 DEF Die
  <2>2. Stranded' \subseteq T
    <3>1. ASSUME NEW c \in Calls, Die(c)
          PROVE  c = x
      <4>1. pc[c] # "idle" /\ pc'[c] = "idle"
        BY <3>1 DEF Die, HInv, IInv, TypeOK, Actors
      <4>2. pc' = [pc EXCEPT ![x] = "idle"]
        BY <1>2 DEF Die
      <4> QED
        BY <4>1, <4>2 DEF HInv, IInv, TypeOK, Actors
    <3> QED
      BY <3>1, NewlyStranded
  <2>3. IsFiniteSet(T) /\ Cardinality(T) <= Cardinality(Stranded) + 1
    BY <1>1, FS_AddElement
  <2>4. IsFiniteSet(Stranded') /\ Cardinality(Stranded') <= Cardinality(T)
    BY <2>2, <2>3, FS_Subset
  <2>5. Cardinality(T) \in Nat /\ Cardinality(Stranded') \in Nat
    BY <2>3, <2>4, FS_CardinalityType
  <2> HIDE DEF T
  <2> QED
    BY <1>1, <2>1, <2>3, <2>4, <2>5 DEF StrandedInv
<1>3. ASSUME \A x \in Actors : ~Die(x)
      PROVE  StrandedInv'
  <2>1. deaths' = deaths
    BY <1>3, DeathsCounted
  <2>2. Stranded' \subseteq Stranded
    BY <1>3, NewlyStranded DEF Actors
  <2>3. IsFiniteSet(Stranded') /\ Cardinality(Stranded') <= Cardinality(Stranded)
    BY <1>1, <2>2, FS_Subset
  <2>4. Cardinality(Stranded') \in Nat
    BY <2>3, FS_CardinalityType
  <2> QED
    BY <1>1, <2>1, <2>3, <2>4 DEF StrandedInv
<1> QED
  BY <1>2, <1>3

\* reconcile_next leaves a line in flight only where it was killed: however claims, late
\* answers and expired leases fall, no more lines are stranded than calls have died.
THEOREM OnlyDeathsStrandLines == Spec => []DeathsStrandLines
<1>1. Init => OwnerInv /\ StrandedInv
  <2> SUFFICES ASSUME Init
               PROVE  OwnerInv /\ StrandedInv
    OBVIOUS
  <2>1. \A d \in Deliveries : lines[d].status = "absent"
    BY DEF Init, NewLine
  <2>2. Stranded = {} /\ deaths = 0
    BY <2>1 DEF Init, Stranded
  <2>3. OwnerInv
    BY <2>1 DEF OwnerInv
  <2> QED
    BY <2>2, <2>3, FS_EmptySet DEF StrandedInv
<1>2. RInv /\ OwnerInv /\ StrandedInv /\ [Next]_vars => OwnerInv' /\ StrandedInv'
  BY NextKeepsOwner, NextKeepsStranded DEF RInv
<1>3. StrandedInv => DeathsStrandLines
  BY DEF StrandedInv, DeathsStrandLines
<1> QED
  BY <1>1, <1>2, <1>3, InductiveHolds, PTL DEF Spec

\* A line stranded at its last attempt is beyond every operation: no worker may claim it,
\* no answer is about it, and an administrator may not resolve what is in flight.
LastAttemptStaysStranded ==
  [][\A d \in Stranded : lines[d].attempts >= MaxAttempts =>
       lines'[d] = lines[d] /\ d \in Stranded']_vars

LEMMA NothingMovesIt ==
  ASSUME HInv, [Next]_vars, NEW d \in Stranded, lines[d].attempts >= MaxAttempts
  PROVE  lines'[d] = lines[d] /\ d \in Stranded'
<1>1. /\ d \in Deliveries /\ lines[d] \in Line /\ lines[d].status = "in_flight"
      /\ \A c \in Calls : ~WorksOn(c, d)
  BY DEF Stranded, HInv, IInv, TypeOK
<1>2. ASSUME NEW c \in Calls, NEW w \in Workers, ClaimNext(c, w, d)
      PROVE  FALSE
  <2>1. Seen(c)[d].attempts < MaxAttempts /\ holder[d] = NoOne
    BY <1>2 DEF ClaimNext, Claimable, Unlocked
  <2>2. Seen(c)[d] = lines[d]
    BY <1>1, <2>1, ActorsAssumption DEF Seen, Actors
  <2> QED
    BY <1>1, <2>1, <2>2, AttemptsAssumption DEF Line
<1>3. ASSUME NEW c \in Calls, Answering(c, d)
      PROVE  FALSE
  BY <1>1, <1>3 DEF Answering, Owns, WorksOn, Working
<1>4. ASSUME NEW a \in Resolvers, Deciding(a, d)
      PROVE  FALSE
  BY <1>1, <1>4 DEF Deciding, Resolvable, Settled
<1>5. lines'[d] = lines[d]
  BY <1>1, <1>2, <1>3, <1>4, RowMoves
<1>6. ASSUME NEW c \in Calls, WorksOn(c, d)'
      PROVE  FALSE
  <2>1. ASSUME NEW w \in Workers, NEW e \in Deliveries, ClaimNext(c, w, e)
        PROVE  FALSE
    <3>1. d = e
      BY <1>6, <2>1, ClaimIsNew DEF WorksOn
    <3> QED
      BY <1>2, <2>1, <3>1
  <2> QED
    BY <1>1, <1>5, <1>6, <2>1, SameWork
<1>7. \A c \in Calls : ~WorksOn(c, d)'
  BY <1>6
<1> QED
  BY <1>1, <1>5, <1>7 DEF Stranded, WorksOn, Working

\* Neither reconcile_next nor resolve_delivery ever moves a line that a death has left in
\* flight at its last attempt.
THEOREM LastAttemptsStayStranded == Spec => LastAttemptStaysStranded
<1>1. RInv /\ [Next]_vars =>
        [\A d \in Stranded : lines[d].attempts >= MaxAttempts =>
           lines'[d] = lines[d] /\ d \in Stranded']_vars
  BY NothingMovesIt DEF RInv
<1> QED
  BY <1>1, InductiveHolds, PTL DEF Spec, LastAttemptStaysStranded

-----------------------------------------------------------------------------
(***************************************************************************)
(* Failures nobody decided.  A pending line that has been tried is there   *)
(* because an administrator asked for a retry; when the retries leave it   *)
(* no attempt, the next claim fails it.                                    *)
(***************************************************************************)
RetryStored(d) == \E r \in commands : r.delivery = d /\ r.resolution = "retry"

RetryInv ==
  \A d \in Deliveries : lines[d].status = "pending" /\ lines[d].attempts > 0 => RetryStored(d)

\* The commands only grow, and a retry that makes a line pending is stored with it.
LEMMA NextKeepsRetries ==
  ASSUME HInv, RetryInv, [Next]_vars
  PROVE  RetryInv'
<1>1. commands \subseteq commands'
  BY DEF Next, vars, ClosePeriod, Claiming, ClaimBegin, ClaimIdle, ClaimNext, SinkReply,
         Completing, CompleteBegin, CompleteLost, CompleteCommit, Resolving, ResolveLock,
         ResolveRefuse, ResolveCommit, ResolveDuplicate, ResolveStart, Refreshing,
         RefreshRead, RefreshWrite, LeaseExpires, Die, StoreCommand
<1> SUFFICES ASSUME NEW d \in Deliveries,
                    lines'[d].status = "pending", lines'[d].attempts > 0
             PROVE  RetryStored(d)'
  BY DEF RetryInv, RetryStored
<1>2. lines[d] \in Line /\ ControlInv
  BY DEF HInv, IInv, TypeOK
<1>3. CASE lines'[d] = lines[d]
  BY <1>1, <1>3 DEF RetryInv, RetryStored
<1>4. ASSUME NEW c \in Calls, NEW w \in Workers, ClaimNext(c, w, d)
      PROVE  FALSE
  BY <1>2, <1>4 DEF ClaimNext, Seen, Line
<1>5. ASSUME NEW c \in Calls, Answering(c, d), lines'[d] = Completed(c)
      PROVE  FALSE
  BY <1>2, <1>5 DEF Answering, ControlInv, Completed, Line, Outcomes
<1>6. ASSUME NEW a \in Resolvers, ResolveCommit(a), Deciding(a, d),
             lines'[d] = Resolved(request[a])
      PROVE  RetryStored(d)'
  <2>1. request[a] \in commands' /\ request[a].delivery = d /\ request[a] \in Requests
    BY <1>2, <1>6 DEF ResolveCommit, StoreCommand, Deciding, ControlInv
  <2>2. request[a].resolution = "retry"
    BY <1>2, <1>6, <2>1, RequestsAssumption DEF Resolved, Line, Resolutions
  <2> QED
    BY <2>1, <2>2 DEF RetryStored
<1> QED
  BY <1>3, <1>4, <1>5, <1>6, RowMoves, AttemptsAssumption

\* The sink refused the event, or an administrator confirmed the failure.
Decided(d) ==
  \/ \E c \in Calls : /\ pc[c] = "completing" /\ claim[c].delivery = d
                      /\ claim[c].outcome = "failed"
  \/ \E r \in commands' \ commands : r.delivery = d /\ r.resolution = "failed"

\* A failure nobody decided is that of a line an administrator had asked to retry and
\* that has no attempt left.
FailureIsDecidedOrRetried ==
  [][\A d \in Deliveries :
       lines[d].status # "failed" /\ lines'[d].status = "failed" =>
         \/ Decided(d)
         \/ /\ lines[d].status = "pending" /\ lines[d].attempts >= MaxAttempts
            /\ RetryStored(d)]_vars

LEMMA FailingStep ==
  ASSUME HInv, RetryInv, [Next]_vars, NEW d \in Deliveries,
         lines[d].status # "failed", lines'[d].status = "failed"
  PROVE  \/ Decided(d)
         \/ /\ lines[d].status = "pending" /\ lines[d].attempts >= MaxAttempts
            /\ RetryStored(d)
<1>1. lines[d] \in Line /\ MaxAttempts > 0 /\ ControlInv
  BY AttemptsAssumption DEF HInv, IInv, TypeOK
<1>2. ASSUME NEW c \in Calls, NEW w \in Workers, ClaimNext(c, w, d)
      PROVE  FALSE
  BY <1>1, <1>2 DEF ClaimNext, Seen, Line
<1>3. ASSUME NEW c \in Calls, Answering(c, d), lines'[d] = Completed(c)
      PROVE  Decided(d)
  BY <1>1, <1>3 DEF Answering, Completed, Line, Decided
<1>4. ASSUME NEW a \in Resolvers, ResolveCommit(a), Deciding(a, d),
             lines'[d] = Resolved(request[a])
      PROVE  Decided(d)
  <2>1. request[a] \in commands' \ commands /\ request[a].delivery = d
    BY <1>4 DEF ResolveCommit, StoreCommand, Stored, Deciding
  <2>2. request[a].resolution = "failed"
    BY <1>1, <1>4 DEF Deciding, Resolved, Line
  <2> QED
    BY <2>1, <2>2 DEF Decided
<1>5. ASSUME lines[d].status = "pending", lines[d].attempts >= MaxAttempts
      PROVE  RetryStored(d)
  BY <1>1, <1>5, AttemptsAssumption DEF RetryInv, Line
<1> QED
  BY <1>2, <1>3, <1>4, <1>5, RowMoves

\* claim_next_delivery fails only lines whose attempts an administrator's retry could
\* not give back: every other failure is the sink's refusal or an administrator's word.
THEOREM FailuresAreDecidedOrRetried == Spec => FailureIsDecidedOrRetried
<1>1. Init => RetryInv
  BY DEF Init, NewLine, RetryInv
<1>2. HInv /\ RetryInv /\ [Next]_vars => RetryInv'
  BY NextKeepsRetries
<1>3. RInv => HInv
  BY DEF RInv
<1>4. HInv /\ RetryInv /\ [Next]_vars =>
        [\A d \in Deliveries :
           lines[d].status # "failed" /\ lines'[d].status = "failed" =>
             \/ Decided(d)
             \/ /\ lines[d].status = "pending" /\ lines[d].attempts >= MaxAttempts
                /\ RetryStored(d)]_vars
  BY FailingStep
<1> QED
  BY <1>1, <1>2, <1>3, <1>4, InductiveHolds, PTL DEF Spec, FailureIsDecidedOrRetried

\* Where nobody asks for retries, a line fails only because the sink refused its event
\* or an administrator confirmed the failure.
THEOREM FailuresWithoutRetriesAreDecided ==
  ASSUME \A r \in Requests : r.resolution # "retry"
  PROVE  Spec => FailureIsDecided
<1>1. TypeOK => \A d \in Deliveries : ~RetryStored(d)
  BY DEF TypeOK, RetryStored
<1>2. TypeOK /\ [\A d \in Deliveries :
                   lines[d].status # "failed" /\ lines'[d].status = "failed" =>
                     \/ Decided(d)
                     \/ /\ lines[d].status = "pending" /\ lines[d].attempts >= MaxAttempts
                        /\ RetryStored(d)]_vars
        => [\A d \in Deliveries :
              lines[d].status # "failed" /\ lines'[d].status = "failed" =>
                \/ \E c \in Calls : /\ pc[c] = "completing" /\ claim[c].delivery = d
                                    /\ claim[c].outcome = "failed"
                \/ \E r \in commands' \ commands :
                     r.delivery = d /\ r.resolution = "failed"]_vars
  BY <1>1 DEF Decided
<1> QED
  BY <1>2, TypeCorrect, FailuresAreDecidedOrRetried, PTL
  DEF FailureIsDecided, FailureIsDecidedOrRetried
=============================================================================
