------------------------- MODULE UsageBillingProofs -------------------------
(***************************************************************************)
(* The properties of UsageBilling, and that it implements Delivery, for    *)
(* any processes, limits, lines and accounts.                              *)
(*                                                                         *)
(* BInv, the inductive invariant, adds to the properties where they come   *)
(* from: what was sent is not newer than the account nor than the line's   *)
(* attempts (SentInv), a call at work holds an event it has sent and an    *)
(* outcome that fits what the provider did (ClaimInv), the provider knows  *)
(* only what was sent (ProviderInv), and without a command a line is tried *)
(* again only while nothing was recorded (RecordInv).                      *)
(***************************************************************************)
EXTENDS UsageBilling, TLAPS

Work == [worker: Workers, attempt: 1..Highest, event: Event, outcome: Outcomes \cup {"none"}]

\* Periods are closed at revisions there were; their lines are there from then on.
PeriodInv ==
  /\ \A p \in Periods : closedAt[p] <= account.revision
  /\ \A d \in Deliveries : lines[d].status = "absent" <=> closedAt[PeriodOf[d]] = 0

\* Events are of the past.
SentInv ==
  \A e \in sent :
    /\ e.revision <= account.revision
    /\ e.revision = account.revision => e.scope = account.scope
    /\ e.attempt <= lines[e.delivery].attempts

\* What a call works on, and what its outcome says of the provider.
ClaimInv ==
  \A c \in Calls : pc[c] # "idle" =>
    /\ claim[c] \in Work
    /\ claim[c].event \in sent /\ claim[c].event.attempt = claim[c].attempt
    /\ pc[c] = "publishing" => claim[c].outcome = "none"
    /\ pc[c] = "replied" => claim[c].outcome # "none"
    /\ claim[c].outcome = "delivered" =>
         /\ accepted[claim[c].event.delivery] # NoEvent
         /\ SameEvent(claim[c].event, accepted[claim[c].event.delivery])
    /\ claim[c].outcome = "failed" =>
         /\ claim[c].event \notin wire
         /\ accepted[claim[c].event.delivery] # claim[c].event

\* The provider has what was sent, once.
ProviderInv ==
  /\ \A d \in Deliveries : accepted[d] # NoEvent => accepted[d] \in sent /\ accepted[d].delivery = d
  /\ \A e \in wire : accepted[e.delivery] # e

Decided(d) == \E r \in commands : r.delivery = d

\* What is recorded of a line no administrator has decided on.
Undecided(d) ==
  /\ lines[d].status \in {"absent", "pending", "in_flight"} => \A n \in 1..Highest : <<d, n>> \notin recorded
  /\ lines[d].status = "pending" => lines[d].attempts = 0
  /\ lines[d].attempts > 1 => <<d, 1>> \notin recorded
  /\ lines[d].status = "failed" =>
       /\ lines[d].attempts >= 1
       /\ lines[d].attempts = 1 => /\ accepted[d] = NoEvent
                                   /\ \A e \in wire : e.delivery # d

RecordInv == \A d \in Deliveries : Decided(d) \/ Undecided(d)

BInv == /\ TypeOK /\ PeriodInv /\ SentInv /\ EventsFollowTheAccount
        /\ ClaimInv /\ ProviderInv /\ RecordInv /\ DeliveredAsSent

-----------------------------------------------------------------------------
(***************************************************************************)
(* What each action does to the lines.                                     *)
(***************************************************************************)

\* A configured limit lies between the two bounds.
LEMMA LimitBounds ==
  ASSUME TypeOK, NEW c \in Calls, prepared[HostOf[c]] # 0
  PROVE  prepared[HostOf[c]] \in Nat /\ Lowest <= prepared[HostOf[c]]
         /\ prepared[HostOf[c]] <= Highest /\ 1 <= Lowest /\ Lowest \in Nat /\ Highest \in Nat
<1>1. prepared \in [Plugins -> Limits \cup {0}] /\ HostOf[c] \in Plugins
  BY ProcessesAssumption DEF TypeOK
<1>2. prepared[HostOf[c]] \in Limits
  BY <1>1
<1>3. Limits \subseteq Lowest..Highest /\ Lowest \in 1..100 /\ Highest \in 1..100
  BY LimitsAssumption
<1>4. prepared[HostOf[c]] \in Lowest..Highest
  BY <1>2, <1>3
<1>5. Lowest \in Nat /\ Highest \in Nat /\ 1 <= Lowest
  BY <1>3
<1> QED
  BY <1>4, <1>5

\* The lines a claim gives up.
LEMMA GivenUpLines ==
  ASSUME TypeOK, NEW n \in Nat
  PROVE  /\ GivenUp(n) \in [Deliveries -> Line]
         /\ \A x \in Deliveries :
              /\ GivenUp(n)[x].attempts = lines[x].attempts
              /\ GivenUp(n)[x].reference = lines[x].reference
              /\ x \in Exhausted(n) => GivenUp(n)[x].status = "failed"
              /\ x \notin Exhausted(n) => GivenUp(n)[x] = lines[x]
              /\ x \in Exhausted(n) <=> lines[x].status = "pending" /\ lines[x].attempts >= n
<1>1. ASSUME NEW x \in Deliveries
      PROVE  /\ GivenUp(n)[x] \in Line
             /\ GivenUp(n)[x].attempts = lines[x].attempts
             /\ GivenUp(n)[x].reference = lines[x].reference
             /\ x \in Exhausted(n) => GivenUp(n)[x].status = "failed"
             /\ x \notin Exhausted(n) => GivenUp(n)[x] = lines[x]
  <2>1. lines[x] \in Line
    BY DEF TypeOK
  <2>2. GivenUp(n)[x] = IF x \in Exhausted(n) THEN [lines[x] EXCEPT !.status = "failed"] ELSE lines[x]
    BY DEF GivenUp
  <2> DEFINE failed == [lines[x] EXCEPT !.status = "failed"]
  <2>3. failed \in Line /\ failed.attempts = lines[x].attempts
        /\ failed.reference = lines[x].reference /\ failed.status = "failed"
    BY <2>1 DEF Line, Outcomes
  <2> HIDE DEF failed
  <2> QED
    BY <2>1, <2>2, <2>3 DEF failed
<1>2. GivenUp(n) \in [Deliveries -> Line]
  <2>1. GivenUp(n) = [x \in Deliveries |-> GivenUp(n)[x]]
    BY DEF GivenUp
  <2> QED
    BY <1>1, <2>1
<1> QED
  BY <1>1, <1>2 DEF Exhausted

LEMMA ClaimLines ==
  ASSUME TypeOK, NEW c \in Calls, NEW w \in Workers, NEW d \in Deliveries, ClaimNext(c, w, d)
  PROVE  LET n == prepared[HostOf[c]] IN
         /\ n \in Nat /\ Lowest <= n /\ n <= Highest
         /\ lines[d].status \in {"pending", "in_flight"}
         /\ lines[d].attempts < n /\ d \notin Exhausted(n)
         /\ lines' \in [Deliveries -> Line]
         /\ lines'[d].status = "in_flight" /\ lines'[d].attempts = lines[d].attempts + 1
         /\ lines'[d].reference = lines[d].reference
         /\ \A x \in Deliveries : x # d => lines'[x] = GivenUp(n)[x]
<1> DEFINE n == prepared[HostOf[c]]
<1>1. n \in Nat /\ Lowest <= n /\ n <= Highest /\ Highest \in Nat
  BY LimitBounds DEF ClaimNext
<1>2. d \in Claimable(n)
  BY DEF ClaimNext
<1>3. lines[d].status \in {"pending", "in_flight"} /\ lines[d].attempts < n /\ d \notin Exhausted(n)
  BY <1>1, <1>2 DEF Claimable, Exhausted, TypeOK, Line
<1>4. lines' = [GivenUp(n) EXCEPT ![d] = [@ EXCEPT !.status = "in_flight",
                                          !.attempts = lines[d].attempts + 1, !.owner = w]]
  BY DEF ClaimNext
<1>5. GivenUp(n) \in [Deliveries -> Line] /\ GivenUp(n)[d] = lines[d]
  BY <1>1, <1>3, GivenUpLines
<1> HIDE DEF n
<1>6. lines'[d] = [lines[d] EXCEPT !.status = "in_flight",
                                   !.attempts = lines[d].attempts + 1, !.owner = w]
  BY <1>4, <1>5
<1>7. lines[d] \in Line /\ lines[d].attempts + 1 \in 0..Highest
  BY <1>1, <1>3 DEF TypeOK, Line
<1>8. lines'[d] \in Line /\ lines'[d].status = "in_flight"
      /\ lines'[d].attempts = lines[d].attempts + 1 /\ lines'[d].reference = lines[d].reference
  BY <1>6, <1>7 DEF Line
<1>9. lines' \in [Deliveries -> Line] /\ \A x \in Deliveries : x # d => lines'[x] = GivenUp(n)[x]
  BY <1>4, <1>5, <1>8
<1> QED
  BY <1>1, <1>3, <1>8, <1>9 DEF n

LEMMA ResolveLines ==
  ASSUME TypeOK, NEW r \in Requests, ResolveDelivery(r)
  PROVE  /\ r.delivery \in Deliveries /\ r.resolution \in {"retry", "delivered", "failed"}
         /\ lines' \in [Deliveries -> Line]
         /\ lines[r.delivery].status \in {"failed", "unknown"}
         /\ lines'[r.delivery].attempts = lines[r.delivery].attempts
         /\ lines'[r.delivery].status = IF r.resolution = "retry" THEN "pending" ELSE r.resolution
         /\ lines'[r.delivery].reference = IF r.resolution # "retry" /\ r.reference
                                           THEN "operator" ELSE "none"
         /\ \A x \in Deliveries : x # r.delivery => lines'[x] = lines[x]
<1>1. r.delivery \in Deliveries /\ r.resolution \in {"retry", "delivered", "failed"}
  BY RequestsAssumption
<1>2. lines[r.delivery] \in Line /\ lines \in [Deliveries -> Line]
  BY <1>1 DEF TypeOK
<1>3. lines' = [lines EXCEPT ![r.delivery] = Resolved(r)]
  BY DEF ResolveDelivery
<1>4. /\ Resolved(r) \in Line
      /\ Resolved(r).attempts = lines[r.delivery].attempts
      /\ Resolved(r).status = IF r.resolution = "retry" THEN "pending" ELSE r.resolution
      /\ Resolved(r).reference = IF r.resolution # "retry" /\ r.reference
                                 THEN "operator" ELSE "none"
  BY <1>1, <1>2 DEF Resolved, Line, Outcomes
<1> QED
  BY <1>1, <1>2, <1>3, <1>4 DEF ResolveDelivery

LEMMA CompleteLines ==
  ASSUME TypeOK, ClaimInv, NEW c \in Calls, Complete(c)
  PROVE  LET d == claim[c].event.delivery IN
         /\ claim[c] \in Work /\ d \in Deliveries /\ claim[c].outcome \in Outcomes
         /\ lines' \in [Deliveries -> Line]
         /\ lines[d].status = "in_flight" /\ lines[d].attempts = claim[c].attempt
         /\ lines'[d].attempts = lines[d].attempts
         /\ lines'[d].status = claim[c].outcome
         /\ lines'[d].reference = IF claim[c].outcome = "delivered" THEN "sink" ELSE "none"
         /\ \A x \in Deliveries : x # d => lines'[x] = lines[x]
<1> DEFINE d == claim[c].event.delivery
<1>1. claim[c] \in Work /\ claim[c].outcome # "none"
  BY DEF ClaimInv, Complete
<1>2. d \in Deliveries /\ claim[c].outcome \in Outcomes
  BY <1>1 DEF Work, Event
<1>3. lines[d] \in Line /\ lines \in [Deliveries -> Line]
  BY <1>2 DEF TypeOK
<1>4. lines' = [lines EXCEPT ![d] = Completed(c)]
  BY DEF Complete
<1>5. /\ Completed(c) \in Line
      /\ Completed(c).attempts = lines[d].attempts
      /\ Completed(c).status = claim[c].outcome
      /\ Completed(c).reference = IF claim[c].outcome = "delivered" THEN "sink" ELSE "none"
  BY <1>2, <1>3 DEF Completed, Line, Outcomes
<1>6. lines[d].status = "in_flight" /\ lines[d].attempts = claim[c].attempt
  BY DEF Complete, Owns
<1> QED
  BY <1>1, <1>2, <1>3, <1>4, <1>5, <1>6

LEMMA CloseLines ==
  ASSUME TypeOK, NEW p \in Periods, ClosePeriod(p)
  PROVE  /\ lines' \in [Deliveries -> Line]
         /\ \A x \in Deliveries :
              /\ PeriodOf[x] = p => lines'[x] = NewLine("pending")
              /\ PeriodOf[x] # p => lines'[x] = lines[x]
BY LimitsAssumption DEF TypeOK, ClosePeriod, NewLine, Line

-----------------------------------------------------------------------------
(***************************************************************************)
(* The invariant is kept.                                                  *)
(***************************************************************************)

\* Types.
LEMMA NextKeepsTypes ==
  ASSUME TypeOK, PeriodInv, ClaimInv, Next
  PROVE  TypeOK'
<1> USE DEF TypeOK
<1>1. ASSUME NEW n \in 1..MaxRevision, NEW s \in Scopes, PutAccount(n, s)
      PROVE  TypeOK'
  BY <1>1, LimitsAssumption DEF PutAccount
<1>2. ASSUME NEW p \in Periods, ClosePeriod(p)
      PROVE  TypeOK'
  <2>1. closedAt' \in [Periods -> 0..MaxRevision]
    BY <1>2 DEF ClosePeriod
  <2>2. expired' \subseteq {d \in Deliveries : lines'[d].status = "in_flight"}
    <3>1. \A d \in expired : lines[d].status = "in_flight" /\ PeriodOf[d] # p
      BY <1>2 DEF PeriodInv, ClosePeriod
    <3>2. \A d \in expired : lines'[d] = lines[d]
      BY <1>2, <3>1, CloseLines
    <3> QED
      BY <1>2, <3>1, <3>2 DEF ClosePeriod
  <2> QED
    BY <1>2, <2>1, <2>2, CloseLines DEF ClosePeriod
<1>3. ASSUME NEW r \in Requests, ResolveDelivery(r)
      PROVE  TypeOK'
  <2>1. expired' \subseteq {d \in Deliveries : lines'[d].status = "in_flight"}
    BY <1>3, ResolveLines DEF ResolveDelivery
  <2> QED
    BY <1>3, <2>1, ResolveLines DEF ResolveDelivery
<1>4. ASSUME NEW p \in Plugins, Activate(p) \/ Deactivate(p)
      PROVE  TypeOK'
  BY <1>4 DEF Activate, Deactivate, tables
<1>5. ASSUME NEW d \in Deliveries, LeaseExpires(d)
      PROVE  TypeOK'
  BY <1>5 DEF LeaseExpires, tables
<1>6. ASSUME NEW e \in wire, SinkAccepts(e)
      PROVE  TypeOK'
  <2>1. e \in Event /\ e.delivery \in Deliveries
    BY DEF Event
  <2> QED
    BY <1>6, <2>1 DEF SinkAccepts, tables
<1>7. ASSUME NEW c \in Calls, NEW w \in Workers, NEW d \in Deliveries, ClaimNext(c, w, d)
      PROVE  TypeOK'
  <2> DEFINE k == lines[d].attempts + 1
             e == EventOf(d, k)
             n == prepared[HostOf[c]]
  <2>1. k \in 1..Highest
    BY <1>7, ClaimLines, LimitsAssumption DEF Line
  <2>2. e \in Event
    BY <2>1 DEF EventOf, Event
  <2>3. claim' \in [Calls -> Work \cup {NoClaim}]
    BY <1>7, <2>1, <2>2 DEF ClaimNext, Work
  <2>4. wire' \subseteq sent' /\ sent' \subseteq Event
    BY <1>7, <2>2 DEF ClaimNext
  <2>5. expired' \subseteq {x \in Deliveries : lines'[x].status = "in_flight"}
    <3>1. ASSUME NEW x \in expired, x # d
          PROVE  lines'[x].status = "in_flight"
      <4>1. n \in Nat /\ lines'[x] = GivenUp(n)[x]
        BY <1>7, <3>1, ClaimLines
      <4>2. x \notin Exhausted(n)
        BY DEF Exhausted
      <4> QED
        BY <4>1, <4>2, GivenUpLines
    <3> QED
      BY <1>7, <3>1 DEF ClaimNext
  <2>6. lines' \in [Deliveries -> Line]
    BY <1>7, ClaimLines
  <2>7. pc' \in [Calls -> {"idle", "publishing", "replied"}]
    BY <1>7 DEF ClaimNext
  <2> QED
    BY <1>7, <2>3, <2>4, <2>5, <2>6, <2>7 DEF ClaimNext, tables, Work
<1>8. ASSUME NEW c \in Calls, ClaimIdle(c)
      PROVE  TypeOK'
  <2>1. prepared[HostOf[c]] \in Nat
    BY <1>8, LimitBounds DEF ClaimIdle
  <2>2. expired' \subseteq {d \in Deliveries : lines'[d].status = "in_flight"}
    <3>1. \A x \in expired : x \notin Exhausted(prepared[HostOf[c]])
      BY DEF Exhausted
    <3>2. \A x \in expired : lines'[x] = lines[x]
      BY <1>8, <2>1, <3>1, GivenUpLines DEF ClaimIdle
    <3> QED
      BY <1>8, <3>2 DEF ClaimIdle
  <2> QED
    BY <1>8, <2>1, <2>2, GivenUpLines DEF ClaimIdle, tables
<1>9. ASSUME NEW c \in Calls, NEW reply \in Replies, SinkReplies(c, reply)
      PROVE  TypeOK'
  <2>1. claim[c] \in Work
    BY <1>9 DEF ClaimInv, SinkReplies
  <2>2. StatusOf(reply) \in Outcomes
    BY DEF StatusOf, Outcomes
  <2>3. [claim[c] EXCEPT !.outcome = StatusOf(reply)] \in Work
    BY <2>1, <2>2 DEF Work
  <2>4. claim' \in [Calls -> Work \cup {NoClaim}]
    BY <1>9, <2>3 DEF SinkReplies, Work
  <2>5. wire' \subseteq sent
    BY <1>9 DEF SinkReplies
  <2> QED
    BY <1>9, <2>4, <2>5 DEF SinkReplies, tables, Work
<1>10. ASSUME NEW c \in Calls, Complete(c)
       PROVE  TypeOK'
  <2>1. claim[c].attempt \in 1..Highest /\ claim[c].event.delivery \in Deliveries
    BY <1>10, CompleteLines DEF Work
  <2>2. expired' \subseteq {d \in Deliveries : lines'[d].status = "in_flight"}
    BY <1>10, CompleteLines DEF Complete
  <2>3. lines' \in [Deliveries -> Line]
    BY <1>10, CompleteLines
  <2>4. claim' \in [Calls -> Work \cup {NoClaim}]
    BY <1>10 DEF Complete, Work
  <2> QED
    BY <1>10, <2>1, <2>2, <2>3, <2>4 DEF Complete, tables, Work
<1>11. ASSUME NEW c \in Calls, CompleteDropped(c) \/ Die(c)
       PROVE  TypeOK'
  <2>1. claim' \in [Calls -> Work \cup {NoClaim}]
    BY <1>11 DEF CompleteDropped, Die, Work
  <2> QED
    BY <1>11, <2>1, LimitsAssumption DEF CompleteDropped, Die, tables, Work
<1> QED
  BY <1>1, <1>2, <1>3, <1>4, <1>5, <1>6, <1>7, <1>8, <1>9, <1>10, <1>11 DEF Next

\* How one line moves.
LEMMA LineMoves ==
  ASSUME TypeOK, PeriodInv, ClaimInv, Next, NEW x \in Deliveries
  PROVE  \/ lines'[x] = lines[x]
         \/ \E p \in Periods : /\ ClosePeriod(p) /\ PeriodOf[x] = p
                               /\ lines[x].status = "absent" /\ lines'[x] = NewLine("pending")
         \/ \E c \in Calls, w \in Workers : ClaimNext(c, w, x)
         \/ /\ lines[x].status = "pending" /\ lines[x].attempts >= Lowest
            /\ lines'[x].status = "failed" /\ lines'[x].attempts = lines[x].attempts
            /\ lines'[x].reference = lines[x].reference
            /\ UNCHANGED <<tables, accepted, recorded>>
            /\ \E c \in Calls : \/ ClaimIdle(c)
                                \/ \E w \in Workers, d \in Deliveries : d # x /\ ClaimNext(c, w, d)
         \/ \E r \in Requests : ResolveDelivery(r) /\ r.delivery = x
         \/ \E c \in Calls : Complete(c) /\ claim[c].event.delivery = x
<1>1. ASSUME NEW p \in Periods, ClosePeriod(p), PeriodOf[x] = p
      PROVE  lines[x].status = "absent" /\ lines'[x] = NewLine("pending")
  BY <1>1, CloseLines DEF PeriodInv, ClosePeriod
<1>2. ASSUME NEW p \in Periods, ClosePeriod(p), PeriodOf[x] # p
      PROVE  lines'[x] = lines[x]
  BY <1>2, CloseLines
<1>3. ASSUME NEW r \in Requests, ResolveDelivery(r), r.delivery # x
      PROVE  lines'[x] = lines[x]
  BY <1>3, ResolveLines
<1>4. ASSUME NEW c \in Calls, Complete(c), claim[c].event.delivery # x
      PROVE  lines'[x] = lines[x]
  BY <1>4, CompleteLines
<1>5. ASSUME NEW c \in Calls, NEW n \in Nat, n = prepared[HostOf[c]], n >= Lowest,
             lines'[x] = GivenUp(n)[x]
      PROVE  \/ lines'[x] = lines[x]
             \/ /\ lines[x].status = "pending" /\ lines[x].attempts >= Lowest
                /\ lines'[x].status = "failed" /\ lines'[x].attempts = lines[x].attempts
                /\ lines'[x].reference = lines[x].reference
  <2>1. CASE x \notin Exhausted(n)
    BY <1>5, <2>1, GivenUpLines
  <2>2. CASE x \in Exhausted(n)
    <3>1. lines[x].attempts \in Nat /\ Lowest \in Nat
      BY LimitsAssumption DEF TypeOK, Line
    <3> QED
      BY <1>5, <2>2, <3>1, GivenUpLines
  <2> QED
    BY <2>1, <2>2
<1>6. ASSUME NEW c \in Calls, NEW w \in Workers, NEW d \in Deliveries, ClaimNext(c, w, d), d # x
      PROVE  \/ lines'[x] = lines[x]
             \/ /\ lines[x].status = "pending" /\ lines[x].attempts >= Lowest
                /\ lines'[x].status = "failed" /\ lines'[x].attempts = lines[x].attempts
                /\ lines'[x].reference = lines[x].reference
                /\ UNCHANGED <<tables, accepted, recorded>>
  <2>1. prepared[HostOf[c]] \in Nat /\ prepared[HostOf[c]] >= Lowest
        /\ lines'[x] = GivenUp(prepared[HostOf[c]])[x]
    <3>1. prepared[HostOf[c]] \in Nat /\ lines'[x] = GivenUp(prepared[HostOf[c]])[x]
      BY <1>6, ClaimLines
    <3>2. Lowest <= prepared[HostOf[c]] /\ Lowest \in Nat
      BY <1>6, LimitBounds DEF ClaimNext
    <3> QED
      BY <3>1, <3>2
  <2>2. UNCHANGED <<tables, accepted, recorded>>
    BY <1>6 DEF ClaimNext
  <2> QED
    BY <1>5, <2>1, <2>2
<1>7. ASSUME NEW c \in Calls, ClaimIdle(c)
      PROVE  \/ lines'[x] = lines[x]
             \/ /\ lines[x].status = "pending" /\ lines[x].attempts >= Lowest
                /\ lines'[x].status = "failed" /\ lines'[x].attempts = lines[x].attempts
                /\ lines'[x].reference = lines[x].reference
                /\ UNCHANGED <<tables, accepted, recorded>>
  <2>1. prepared[HostOf[c]] \in Nat /\ prepared[HostOf[c]] >= Lowest
    BY <1>7, LimitBounds DEF ClaimIdle
  <2>2. lines'[x] = GivenUp(prepared[HostOf[c]])[x] /\ UNCHANGED <<tables, accepted, recorded>>
    BY <1>7 DEF ClaimIdle
  <2> QED
    BY <1>5, <2>1, <2>2
<1>8. ASSUME \/ \E n \in 1..MaxRevision, s \in Scopes : PutAccount(n, s)
             \/ \E p \in Plugins : Activate(p) \/ Deactivate(p)
             \/ \E d \in Deliveries : LeaseExpires(d)
             \/ \E e \in wire : SinkAccepts(e)
             \/ \E c \in Calls : \/ \E reply \in Replies : SinkReplies(c, reply)
                                 \/ CompleteDropped(c) \/ Die(c)
      PROVE  lines'[x] = lines[x]
  BY <1>8 DEF PutAccount, Activate, Deactivate, LeaseExpires, SinkAccepts, SinkReplies,
              CompleteDropped, Die
<1> QED
  BY <1>1, <1>2, <1>3, <1>4, <1>6, <1>7, <1>8 DEF Next

\* Attempts only grow, and a line that is there stays there.
LEMMA LinesAge ==
  ASSUME TypeOK, PeriodInv, ClaimInv, Next, NEW x \in Deliveries, closedAt[PeriodOf[x]] # 0
  PROVE  /\ lines'[x].attempts >= lines[x].attempts
         /\ lines[x].status # "absent" /\ lines'[x].status # "absent"
<1>1. lines[x].status # "absent" /\ lines[x].attempts \in Nat
  BY DEF PeriodInv, TypeOK, Line
<1>2. ASSUME NEW c \in Calls, NEW w \in Workers, ClaimNext(c, w, x)
      PROVE  lines'[x].attempts = lines[x].attempts + 1 /\ lines'[x].status = "in_flight"
  BY <1>2, ClaimLines
<1>3. ASSUME NEW r \in Requests, ResolveDelivery(r), r.delivery = x
      PROVE  lines'[x].attempts = lines[x].attempts /\ lines'[x].status # "absent"
  BY <1>3, ResolveLines
<1>4. ASSUME NEW c \in Calls, Complete(c), claim[c].event.delivery = x
      PROVE  lines'[x].attempts = lines[x].attempts /\ lines'[x].status # "absent"
  BY <1>4, CompleteLines DEF Outcomes
<1> QED
  BY <1>1, <1>2, <1>3, <1>4, LineMoves

LEMMA NextKeepsPeriods ==
  ASSUME TypeOK, PeriodInv, ClaimInv, Next
  PROVE  PeriodInv'
<1>1. CASE \E p \in Periods : ClosePeriod(p)
  <2> PICK p \in Periods : ClosePeriod(p)
    BY <1>1
  <2>1. account' = account /\ closedAt' = [closedAt EXCEPT ![p] = account.revision]
    BY DEF ClosePeriod
  <2>2. account.revision \in Nat \ {0} /\ closedAt \in [Periods -> Nat]
    BY LimitsAssumption DEF TypeOK
  <2>3. \A d \in Deliveries : lines'[d].status = "absent" <=> closedAt'[PeriodOf[d]] = 0
    <3> SUFFICES ASSUME NEW d \in Deliveries
                 PROVE  lines'[d].status = "absent" <=> closedAt'[PeriodOf[d]] = 0
      OBVIOUS
    <3>1. PeriodOf[d] \in Periods
      BY ProcessesAssumption
    <3>2. CASE PeriodOf[d] = p
      BY <2>1, <2>2, <3>2, CloseLines DEF NewLine
    <3>3. CASE PeriodOf[d] # p
      BY <2>1, <2>2, <3>1, <3>3, CloseLines DEF PeriodInv
    <3> QED
      BY <3>2, <3>3
  <2> QED
    BY <2>1, <2>2, <2>3 DEF PeriodInv
<1>2. CASE ~\E p \in Periods : ClosePeriod(p)
  <2>1. closedAt' = closedAt
    BY <1>2 DEF Next, PutAccount, ResolveDelivery, Activate, Deactivate, LeaseExpires, SinkAccepts,
                SinkReplies, ClaimNext, ClaimIdle, Complete, CompleteDropped, Die, tables
  <2>2. account'.revision >= account.revision
    <3>1. account.revision \in Nat
      BY LimitsAssumption DEF TypeOK
    <3>2. ASSUME NEW n \in 1..MaxRevision, NEW s \in Scopes, PutAccount(n, s)
          PROVE  account'.revision = account.revision + 1
      BY <3>2 DEF PutAccount
    <3>3. CASE ~\E n \in 1..MaxRevision, s \in Scopes : PutAccount(n, s)
      <4>1. account' = account
        BY <1>2, <3>3 DEF Next, ResolveDelivery, Activate, Deactivate, LeaseExpires, SinkAccepts,
                SinkReplies, ClaimNext, ClaimIdle, Complete, CompleteDropped, Die, tables
      <4> QED
        BY <3>1, <4>1
    <3> QED
      BY <3>1, <3>2, <3>3
  <2>3. ASSUME NEW d \in Deliveries
        PROVE  lines'[d].status = "absent" <=> lines[d].status = "absent"
    <3>1. CASE lines'[d] = lines[d]
      BY <3>1
    <3>2. ASSUME NEW c \in Calls, NEW w \in Workers, ClaimNext(c, w, d)
          PROVE  lines'[d].status # "absent" /\ lines[d].status # "absent"
      BY <3>2, ClaimLines
    <3>3. ASSUME NEW r \in Requests, ResolveDelivery(r), r.delivery = d
          PROVE  lines'[d].status # "absent" /\ lines[d].status # "absent"
      BY <3>3, ResolveLines
    <3>4. ASSUME NEW c \in Calls, Complete(c), claim[c].event.delivery = d
          PROVE  lines'[d].status # "absent" /\ lines[d].status # "absent"
      BY <3>4, CompleteLines DEF Outcomes
    <3> QED
      BY <1>2, <3>1, <3>2, <3>3, <3>4, LineMoves
  <2>4. \A p \in Periods : closedAt[p] \in Nat
    BY DEF TypeOK
  <2>5. account.revision \in Nat /\ account'.revision \in Nat
    BY NextKeepsTypes DEF TypeOK
  <2> QED
    BY <2>1, <2>2, <2>3, <2>4, <2>5 DEF PeriodInv
<1> QED
  BY <1>1, <1>2

\* The account stays, or an update adds one to its revision.
LEMMA AccountMoves ==
  ASSUME Next
  PROVE  account' = account \/ account'.revision = account.revision + 1
<1>1. ASSUME NEW n \in 1..MaxRevision, NEW s \in Scopes, PutAccount(n, s)
      PROVE  account'.revision = account.revision + 1
  BY <1>1 DEF PutAccount
<1> QED
  BY <1>1 DEF Next, ClosePeriod, ResolveDelivery, Activate, Deactivate, LeaseExpires, SinkAccepts,
              SinkReplies, ClaimNext, ClaimIdle, Complete, CompleteDropped, Die, tables

\* A closed period stays as it was closed.
LEMMA ClosedStays ==
  ASSUME TypeOK, Next, NEW p \in Periods, closedAt[p] # 0
  PROVE  closedAt'[p] = closedAt[p]
BY DEF TypeOK, Next, PutAccount, ClosePeriod, ResolveDelivery, Activate, Deactivate, LeaseExpires,
       SinkAccepts, SinkReplies, ClaimNext, ClaimIdle, Complete, CompleteDropped, Die, tables

\* Only a claim sends.
LEMMA SentMoves ==
  ASSUME Next
  PROVE  \/ sent' = sent /\ wire' \subseteq wire
         \/ \E c \in Calls, w \in Workers, d \in Deliveries : ClaimNext(c, w, d)
BY DEF Next, PutAccount, ClosePeriod, ResolveDelivery, Activate, Deactivate, LeaseExpires,
       SinkAccepts, SinkReplies, ClaimIdle, Complete, CompleteDropped, Die, tables

\* What a claim sends is newer than everything sent for the line before.
LEMMA ClaimIsNew ==
  ASSUME TypeOK, PeriodInv, SentInv,
         NEW c \in Calls, NEW w \in Workers, NEW d \in Deliveries, ClaimNext(c, w, d)
  PROVE  LET e == EventOf(d, lines[d].attempts + 1) IN
         /\ sent' = sent \cup {e} /\ wire' = wire \cup {e}
         /\ e.delivery = d /\ e.attempt = lines[d].attempts + 1
         /\ e.revision = account.revision /\ e.scope = account.scope
         /\ closedAt[PeriodOf[d]] \in 1..account.revision /\ account' = account
         /\ \A f \in sent : f.delivery = d => f.attempt < e.attempt
<1>1. lines[d].status # "absent" /\ PeriodOf[d] \in Periods
  BY ClaimLines, ProcessesAssumption
<1>2. closedAt[PeriodOf[d]] # 0 /\ closedAt[PeriodOf[d]] <= account.revision
  BY <1>1 DEF PeriodInv
<1>3. closedAt[PeriodOf[d]] \in Nat /\ account.revision \in Nat /\ lines[d].attempts \in Nat
  BY <1>1, LimitsAssumption DEF TypeOK, Line
<1>4. \A f \in sent : f.delivery = d => f.attempt \in Nat /\ f.attempt <= lines[d].attempts
  BY LimitsAssumption DEF SentInv, TypeOK, Event
<1>5. account' = account /\ sent' = sent \cup {EventOf(d, lines[d].attempts + 1)}
      /\ wire' = wire \cup {EventOf(d, lines[d].attempts + 1)}
  BY DEF ClaimNext, tables
<1>6. closedAt[PeriodOf[d]] \in 1..account.revision
  BY <1>2, <1>3
<1>7. \A f \in sent : f.delivery = d => f.attempt < lines[d].attempts + 1
  BY <1>3, <1>4
<1> QED
  BY <1>5, <1>6, <1>7 DEF EventOf

LEMMA NextKeepsSent ==
  ASSUME TypeOK, PeriodInv, ClaimInv, SentInv, EventsFollowTheAccount, Next
  PROVE  SentInv' /\ EventsFollowTheAccount'
<1>1. ASSUME NEW e \in sent
      PROVE  /\ e.delivery \in Deliveries /\ PeriodOf[e.delivery] \in Periods
             /\ e.attempt \in Nat /\ e.revision \in Nat
             /\ closedAt[PeriodOf[e.delivery]] # 0
  <2>1. e.delivery \in Deliveries /\ e.attempt \in Nat /\ e.revision \in Nat
    BY LimitsAssumption DEF TypeOK, Event
  <2>2. closedAt[PeriodOf[e.delivery]] \in 1..e.revision
    BY DEF EventsFollowTheAccount
  <2> QED
    BY <2>1, <2>2, ProcessesAssumption
<1>2. account.revision \in Nat /\ account'.revision \in Nat
  BY NextKeepsTypes, LimitsAssumption DEF TypeOK
<1>3. ASSUME NEW e \in sent
      PROVE  /\ e.revision <= account'.revision
             /\ e.revision = account'.revision => e.scope = account'.scope
             /\ e.attempt <= lines'[e.delivery].attempts
             /\ closedAt'[PeriodOf[e.delivery]] \in 1..e.revision
  <2>1. e.revision <= account.revision
        /\ (e.revision = account.revision => e.scope = account.scope)
        /\ e.attempt <= lines[e.delivery].attempts
    BY DEF SentInv
  <2>2. lines'[e.delivery].attempts >= lines[e.delivery].attempts
    BY <1>1, LinesAge
  <2>3. lines'[e.delivery].attempts \in Nat /\ lines[e.delivery].attempts \in Nat
    BY <1>1, NextKeepsTypes, LimitsAssumption DEF TypeOK, Line
  <2>4. e.attempt <= lines'[e.delivery].attempts
    BY <1>1, <2>1, <2>2, <2>3
  <2>5. e.revision <= account'.revision
        /\ (e.revision = account'.revision => e.scope = account'.scope)
    BY <1>1, <1>2, <2>1, AccountMoves
  <2>6. closedAt'[PeriodOf[e.delivery]] = closedAt[PeriodOf[e.delivery]]
    BY <1>1, ClosedStays
  <2>7. closedAt[PeriodOf[e.delivery]] \in 1..e.revision
    BY DEF EventsFollowTheAccount
  <2> QED
    BY <2>4, <2>5, <2>6, <2>7
<1>4. ASSUME NEW e \in sent, NEW f \in sent, e.delivery = f.delivery
      PROVE  /\ e.attempt < f.attempt => e.revision <= f.revision
             /\ e.revision = f.revision => e.scope = f.scope
             /\ e.attempt = f.attempt => e = f
  BY <1>4 DEF EventsFollowTheAccount
<1>5. CASE sent' = sent
  BY <1>3, <1>4, <1>5 DEF SentInv, EventsFollowTheAccount
<1>6. ASSUME NEW c \in Calls, NEW w \in Workers, NEW d \in Deliveries, ClaimNext(c, w, d)
      PROVE  SentInv' /\ EventsFollowTheAccount'
  <2> DEFINE new == EventOf(d, lines[d].attempts + 1)
  <2>1. /\ sent' = sent \cup {new}
        /\ new.delivery = d /\ new.attempt = lines[d].attempts + 1
        /\ new.revision = account.revision /\ new.scope = account.scope
        /\ closedAt[PeriodOf[d]] \in 1..account.revision /\ account' = account
        /\ \A f \in sent : f.delivery = d => f.attempt < new.attempt
    BY <1>6, ClaimIsNew
  <2> HIDE DEF new
  <2>2. lines'[d].attempts = new.attempt /\ closedAt' = closedAt
    BY <1>6, <2>1, ClaimLines DEF ClaimNext, tables
  <2>3. new.attempt \in Nat /\ new.revision \in Nat
    <3>1. lines[d].attempts \in Nat
      BY LimitsAssumption DEF TypeOK, Line
    <3> QED
      BY <1>2, <2>1, <3>1
  <2>4. SentInv'
    BY <1>2, <1>3, <2>1, <2>2, <2>3 DEF SentInv
  <2>5. ASSUME NEW f \in sent, f.delivery = d
        PROVE  /\ f.attempt < new.attempt /\ f.revision <= new.revision
               /\ f.revision = new.revision => f.scope = new.scope
    BY <2>1, <2>5 DEF SentInv
  <2>6. ASSUME NEW e \in sent', NEW f \in sent', e.delivery = f.delivery
        PROVE  /\ e.attempt < f.attempt => e.revision <= f.revision
               /\ e.revision = f.revision => e.scope = f.scope
               /\ e.attempt = f.attempt => e = f
    <3>1. CASE e \in sent /\ f \in sent
      BY <1>4, <2>6, <3>1
    <3>2. CASE e = new /\ f = new
      BY <2>3, <3>2
    <3>3. CASE e = new /\ f \in sent
      BY <1>1, <2>1, <2>3, <2>5, <2>6, <3>3
    <3>4. CASE e \in sent /\ f = new
      BY <1>1, <2>1, <2>3, <2>5, <2>6, <3>4
    <3> QED
      BY <2>1, <3>1, <3>2, <3>3, <3>4
  <2>7. \A e \in sent' : closedAt'[PeriodOf[e.delivery]] \in 1..e.revision
    BY <1>3, <2>1, <2>2
  <2> QED
    BY <2>4, <2>6, <2>7 DEF EventsFollowTheAccount
<1> QED
  BY <1>5, <1>6, SentMoves

\* The provider takes up one event at a time, and keeps what it has.
LEMMA AcceptedMoves ==
  ASSUME TypeOK, Next
  PROVE  \/ accepted' = accepted
         \/ \E e \in wire : /\ accepted[e.delivery] = NoEvent
                            /\ e \in sent /\ e.delivery \in Deliveries
                            /\ accepted' = [accepted EXCEPT ![e.delivery] = e]
                            /\ wire' = wire \ {e} /\ UNCHANGED <<sent, lines, commands, recorded>>
<1>1. ASSUME NEW e \in wire, SinkAccepts(e)
      PROVE  /\ accepted[e.delivery] = NoEvent
             /\ e \in sent /\ e.delivery \in Deliveries
             /\ accepted' = [accepted EXCEPT ![e.delivery] = e]
             /\ wire' = wire \ {e} /\ UNCHANGED <<sent, lines, commands, recorded>>
  BY <1>1 DEF SinkAccepts, TypeOK, Event, tables
<1> QED
  BY <1>1 DEF Next, PutAccount, ClosePeriod, ResolveDelivery, Activate, Deactivate, LeaseExpires,
              SinkReplies, ClaimNext, ClaimIdle, Complete, CompleteDropped, Die

LEMMA AcceptedStays ==
  ASSUME TypeOK, Next, NEW d \in Deliveries, accepted[d] # NoEvent
  PROVE  accepted'[d] = accepted[d]
BY AcceptedMoves DEF TypeOK

\* An event that a claim sends is known to nobody yet.
LEMMA ClaimIsUnknown ==
  ASSUME TypeOK, PeriodInv, SentInv, ProviderInv,
         NEW c \in Calls, NEW w \in Workers, NEW d \in Deliveries, ClaimNext(c, w, d)
  PROVE  LET e == EventOf(d, lines[d].attempts + 1) IN
         e \notin sent /\ e \notin wire /\ accepted' = accepted /\ accepted[d] # e
<1> DEFINE e == EventOf(d, lines[d].attempts + 1)
<1>1. e.delivery = d /\ e.attempt = lines[d].attempts + 1
      /\ \A f \in sent : f.delivery = d => f.attempt < e.attempt
  BY ClaimIsNew
<1>2. lines[d].attempts \in Nat
  BY LimitsAssumption DEF TypeOK, Line
<1>3. accepted' = accepted
  BY DEF ClaimNext
<1> HIDE DEF e
<1>4. e \notin sent
  BY <1>1, <1>2
<1>5. e # NoEvent
  BY <1>1, <1>2 DEF NoEvent
<1> QED
  BY <1>3, <1>4, <1>5 DEF ProviderInv, TypeOK, e

LEMMA NextKeepsProvider ==
  ASSUME TypeOK, PeriodInv, SentInv, ProviderInv, Next
  PROVE  ProviderInv'
<1>1. sent \subseteq sent'
  <2>1. ASSUME NEW c \in Calls, NEW w \in Workers, NEW d \in Deliveries, ClaimNext(c, w, d)
        PROVE  sent \subseteq sent'
    BY <2>1 DEF ClaimNext
  <2> QED
    BY <2>1, SentMoves
<1>2. ASSUME NEW d \in Deliveries, accepted'[d] # NoEvent
      PROVE  accepted'[d] \in sent' /\ accepted'[d].delivery = d
  BY <1>1, <1>2, AcceptedMoves DEF ProviderInv, TypeOK
<1>3. ASSUME NEW e \in wire'
      PROVE  accepted'[e.delivery] # e
  <2>1. CASE accepted' = accepted /\ wire' \subseteq wire
    BY <2>1 DEF ProviderInv
  <2>2. ASSUME NEW f \in wire, f.delivery \in Deliveries,
               accepted' = [accepted EXCEPT ![f.delivery] = f], wire' = wire \ {f}
        PROVE  accepted'[e.delivery] # e
    <3>1. e \in wire /\ e # f /\ e.delivery \in Deliveries
      BY <2>2 DEF TypeOK, Event
    <3> QED
      BY <2>2, <3>1 DEF ProviderInv, TypeOK
  <2>3. ASSUME NEW c \in Calls, NEW w \in Workers, NEW d \in Deliveries, ClaimNext(c, w, d)
        PROVE  accepted'[e.delivery] # e
    <3> DEFINE new == EventOf(d, lines[d].attempts + 1)
    <3>1. wire' = wire \cup {new} /\ new.delivery = d
      BY <2>3, ClaimIsNew
    <3>2. accepted' = accepted /\ accepted[d] # new
      BY <2>3, ClaimIsUnknown
    <3> HIDE DEF new
    <3> QED
      BY <3>1, <3>2 DEF ProviderInv
  <2> QED
    BY <2>1, <2>2, <2>3, SentMoves, AcceptedMoves
<1> QED
  BY <1>2, <1>3 DEF ProviderInv

\* How one call moves.
LEMMA CallMoves ==
  ASSUME TypeOK, Next, NEW c \in Calls
  PROVE  \/ pc'[c] = "idle"
         \/ pc'[c] = pc[c] /\ claim'[c] = claim[c]
         \/ \E w \in Workers, d \in Deliveries : ClaimNext(c, w, d)
         \/ \E reply \in Replies : SinkReplies(c, reply)
<1>1. ASSUME NEW b \in Calls, b # c,
             \/ \E w \in Workers, d \in Deliveries : ClaimNext(b, w, d)
             \/ \E reply \in Replies : SinkReplies(b, reply)
      PROVE  pc'[c] = pc[c] /\ claim'[c] = claim[c]
  BY <1>1 DEF TypeOK, ClaimNext, SinkReplies
<1>2. ASSUME NEW b \in Calls, Complete(b) \/ CompleteDropped(b) \/ Die(b)
      PROVE  pc'[c] = "idle" \/ (pc'[c] = pc[c] /\ claim'[c] = claim[c])
  BY <1>2 DEF TypeOK, Complete, CompleteDropped, Die
<1> QED
  BY <1>1, <1>2 DEF Next, PutAccount, ClosePeriod, ResolveDelivery, Activate, Deactivate,
                    LeaseExpires, SinkAccepts, ClaimIdle

LEMMA NextKeepsClaims ==
  ASSUME TypeOK, PeriodInv, SentInv, ClaimInv, ProviderInv, Next
  PROVE  ClaimInv'
<1> DEFINE Fits(k) ==
             /\ k.outcome = "delivered" => /\ accepted'[k.event.delivery] # NoEvent
                                           /\ SameEvent(k.event, accepted'[k.event.delivery])
             /\ k.outcome = "failed" => k.event \notin wire' /\ accepted'[k.event.delivery] # k.event
<1>1. sent \subseteq sent'
  <2>1. ASSUME NEW c \in Calls, NEW w \in Workers, NEW d \in Deliveries, ClaimNext(c, w, d)
        PROVE  sent \subseteq sent'
    BY <2>1 DEF ClaimNext
  <2> QED
    BY <2>1, SentMoves
<1>2. ASSUME NEW c \in Calls, pc[c] # "idle"
      PROVE  Fits(claim[c])
  <2> DEFINE e == claim[c].event
  <2>1. e \in sent /\ e.delivery \in Deliveries
    BY <1>2 DEF ClaimInv, TypeOK, Event
  <2>2. CASE claim[c].outcome = "delivered"
    BY <1>2, <2>1, <2>2, AcceptedStays DEF ClaimInv
  <2>3. CASE claim[c].outcome = "failed"
    <3>1. e \notin wire /\ accepted[e.delivery] # e
      BY <1>2, <2>3 DEF ClaimInv
    <3>2. e \notin wire'
      <4>1. ASSUME NEW b \in Calls, NEW w \in Workers, NEW d \in Deliveries, ClaimNext(b, w, d)
            PROVE  e \notin wire'
        <5>1. EventOf(d, lines[d].attempts + 1) \notin sent
          BY <4>1, ClaimIsUnknown
        <5>2. wire' = wire \cup {EventOf(d, lines[d].attempts + 1)}
          BY <4>1, ClaimIsNew
        <5> QED
          BY <2>1, <3>1, <5>1, <5>2
      <4> QED
        BY <3>1, <4>1, SentMoves
    <3>3. accepted'[e.delivery] # e
      BY <2>1, <3>1, AcceptedMoves DEF TypeOK
    <3> QED
      BY <2>3, <3>2, <3>3
  <2> QED
    BY <2>2, <2>3
<1>3. ASSUME NEW c \in Calls, NEW w \in Workers, NEW d \in Deliveries, ClaimNext(c, w, d)
      PROVE  /\ pc'[c] = "publishing" /\ claim'[c] \in Work
             /\ claim'[c].event \in sent' /\ claim'[c].event.attempt = claim'[c].attempt
             /\ claim'[c].outcome = "none"
  <2>1. pc'[c] = "publishing" /\ claim'[c] \in Work \cup {NoClaim}
    BY <1>3, NextKeepsTypes DEF TypeOK, ClaimNext, Work
  <2>2. claim'[c] = [worker |-> w, attempt |-> lines[d].attempts + 1,
                     event |-> EventOf(d, lines[d].attempts + 1), outcome |-> "none"]
    BY <1>3 DEF TypeOK, ClaimNext
  <2>3. lines[d].attempts \in Nat
    BY LimitsAssumption DEF TypeOK, Line
  <2>4. claim'[c] # NoClaim
    BY <2>2, <2>3 DEF NoClaim
  <2> QED
    BY <1>3, <2>1, <2>2, <2>4, ClaimIsNew
<1>4. ASSUME NEW c \in Calls, NEW reply \in Replies, SinkReplies(c, reply)
      PROVE  /\ pc'[c] = "replied" /\ claim'[c] \in Work
             /\ claim'[c].event \in sent' /\ claim'[c].event.attempt = claim'[c].attempt
             /\ claim'[c].outcome # "none" /\ Fits(claim'[c])
  <2> DEFINE e == claim[c].event
  <2>1. claim[c] \in Work /\ e \in sent /\ e.attempt = claim[c].attempt
    BY <1>4 DEF ClaimInv, SinkReplies
  <2>2. claim'[c] = [claim[c] EXCEPT !.outcome = StatusOf(reply)] /\ pc'[c] = "replied"
        /\ accepted' = accepted /\ sent' = sent
    BY <1>4 DEF TypeOK, SinkReplies
  <2>3. claim'[c] \in Work /\ claim'[c].event = e /\ claim'[c].attempt = claim[c].attempt
        /\ claim'[c].outcome = StatusOf(reply)
    BY <2>1, <2>2 DEF Work, StatusOf, Outcomes
  <2>4. StatusOf(reply) = "delivered" => reply = "accepted"
    BY DEF StatusOf
  <2>5. StatusOf(reply) = "failed" => reply = "refused"
    BY DEF StatusOf
  <2>6. reply = "accepted" => accepted[e.delivery] # NoEvent /\ SameEvent(e, accepted[e.delivery])
    BY <1>4 DEF SinkReplies
  <2>7. reply = "refused" => e \in wire /\ wire' = wire \ {e}
    BY <1>4 DEF SinkReplies
  <2>8. reply = "refused" => accepted[e.delivery] # e
    BY <2>7 DEF ProviderInv
  <2>9. Fits(claim'[c])
    BY <2>2, <2>3, <2>4, <2>5, <2>6, <2>7, <2>8
  <2> QED
    BY <2>1, <2>2, <2>3, <2>9 DEF StatusOf
<1> HIDE DEF Fits
<1>5. ASSUME NEW c \in Calls, pc'[c] # "idle"
      PROVE  /\ claim'[c] \in Work
             /\ claim'[c].event \in sent' /\ claim'[c].event.attempt = claim'[c].attempt
             /\ pc'[c] = "publishing" => claim'[c].outcome = "none"
             /\ pc'[c] = "replied" => claim'[c].outcome # "none"
             /\ Fits(claim'[c])
  <2>1. CASE pc'[c] = pc[c] /\ claim'[c] = claim[c]
    BY <1>1, <1>2, <1>5, <2>1 DEF ClaimInv
  <2>2. ASSUME NEW w \in Workers, NEW d \in Deliveries, ClaimNext(c, w, d)
        PROVE  Fits(claim'[c])
    BY <1>3, <2>2 DEF Fits
  <2> QED
    BY <1>3, <1>4, <1>5, <2>1, <2>2, CallMoves
<1> QED
  BY <1>5 DEF ClaimInv, Fits

LEMMA NextKeepsDelivered ==
  ASSUME TypeOK, PeriodInv, ClaimInv, DeliveredAsSent, Next
  PROVE  DeliveredAsSent'
<1> SUFFICES ASSUME NEW d \in Deliveries, lines'[d].status = "delivered", lines'[d].reference = "sink"
             PROVE  \E e \in sent' : /\ e.delivery = d /\ e.attempt = lines'[d].attempts
                                     /\ accepted'[d] # NoEvent /\ SameEvent(e, accepted'[d])
  BY DEF DeliveredAsSent, SameEvent
<1>1. sent \subseteq sent'
  <2>1. ASSUME NEW c \in Calls, NEW w \in Workers, NEW x \in Deliveries, ClaimNext(c, w, x)
        PROVE  sent \subseteq sent'
    BY <2>1 DEF ClaimNext
  <2> QED
    BY <2>1, SentMoves
<1>2. CASE lines'[d] = lines[d]
  <2>1. PICK e \in sent : /\ e.delivery = d /\ e.attempt = lines[d].attempts
                          /\ accepted[d] # NoEvent /\ SameEvent(e, accepted[d])
    BY <1>2 DEF DeliveredAsSent
  <2> QED
    BY <1>1, <1>2, <2>1, AcceptedStays
<1>3. ASSUME NEW c \in Calls, Complete(c), claim[c].event.delivery = d
      PROVE  \E e \in sent' : /\ e.delivery = d /\ e.attempt = lines'[d].attempts
                              /\ accepted'[d] # NoEvent /\ SameEvent(e, accepted'[d])
  <2>1. lines'[d].attempts = claim[c].attempt /\ claim[c].outcome = "delivered"
    BY <1>3, CompleteLines
  <2>2. accepted' = accepted
    BY <1>3 DEF Complete
  <2>3. /\ claim[c].event \in sent /\ claim[c].event.attempt = claim[c].attempt
        /\ accepted[d] # NoEvent /\ SameEvent(claim[c].event, accepted[d])
    BY <1>3, <2>1 DEF ClaimInv, Complete
  <2> QED
    BY <1>1, <1>3, <2>1, <2>2, <2>3
<1>4. ASSUME NEW c \in Calls, NEW w \in Workers, ClaimNext(c, w, d)
      PROVE  FALSE
  BY <1>4, ClaimLines
<1>5. ASSUME NEW r \in Requests, ResolveDelivery(r), r.delivery = d
      PROVE  FALSE
  BY <1>5, ResolveLines
<1> QED
  BY <1>1, <1>2, <1>3, <1>4, <1>5, LineMoves DEF NewLine

\* The record of attempts is that of completions, the commands only grow.
LEMMA RecordMoves ==
  ASSUME Next
  PROVE  /\ commands \subseteq commands'
         /\ \/ recorded' = recorded
            \/ \E c \in Calls : /\ Complete(c) /\ UNCHANGED <<commands, accepted, wire>>
                                /\ recorded' = recorded \cup {<<claim[c].event.delivery, claim[c].attempt>>}
<1>1. ASSUME NEW c \in Calls, Complete(c)
      PROVE  /\ UNCHANGED <<commands, accepted, wire>>
             /\ recorded' = recorded \cup {<<claim[c].event.delivery, claim[c].attempt>>}
  BY <1>1 DEF Complete, tables
<1> QED
  BY <1>1 DEF Next, PutAccount, ClosePeriod, ResolveDelivery, Activate, Deactivate, LeaseExpires,
              SinkAccepts, SinkReplies, ClaimNext, ClaimIdle, CompleteDropped, Die, tables

LEMMA NextKeepsRecords ==
  ASSUME TypeOK, PeriodInv, SentInv, EventsFollowTheAccount, ClaimInv, ProviderInv, RecordInv, Next
  PROVE  RecordInv'
<1> SUFFICES ASSUME NEW d \in Deliveries, ~Decided(d)'
             PROVE  Undecided(d)'
  BY DEF RecordInv
<1>1. Undecided(d)
  BY RecordMoves DEF RecordInv, Decided
<1>2. lines[d] \in Line /\ lines'[d] \in Line /\ lines[d].attempts \in Nat
      /\ 1 <= Highest /\ Highest \in Nat /\ Lowest \in Nat /\ 1 <= Lowest
  BY NextKeepsTypes, LimitsAssumption DEF TypeOK, Line
<1>3. CASE \E c \in Calls : Complete(c) /\ claim[c].event.delivery = d
  <2> PICK c \in Calls : Complete(c) /\ claim[c].event.delivery = d
    BY <1>3
  <2> DEFINE e == claim[c].event
             n == claim[c].attempt
  <2>1. /\ lines[d].status = "in_flight" /\ lines[d].attempts = n
        /\ lines'[d].attempts = n /\ lines'[d].status = claim[c].outcome
        /\ claim[c].outcome \in Outcomes /\ n \in 1..Highest
    BY CompleteLines DEF Work
  <2>2. recorded' = recorded \cup {<<d, n>>} /\ UNCHANGED <<accepted, wire>>
    BY DEF Complete, tables
  <2>3. \A k \in 1..Highest : <<d, k>> \notin recorded
    BY <1>1, <2>1 DEF Undecided
  <2>4. ASSUME lines'[d].status = "failed", n = 1
        PROVE  accepted'[d] = NoEvent /\ \A f \in wire' : f.delivery # d
    <3>1. e \in sent /\ e.delivery = d /\ e.attempt = 1 /\ e \notin wire /\ accepted[d] # e
      BY <2>1, <2>4 DEF ClaimInv, Complete
    <3>2. ASSUME NEW f \in sent, f.delivery = d
          PROVE  f = e
      <4>1. f.attempt <= lines[d].attempts /\ f.attempt \in 1..Highest
        BY <3>2 DEF SentInv, TypeOK, Event
      <4>2. f.attempt = 1
        BY <1>2, <2>1, <2>4, <4>1
      <4> QED
        BY <3>1, <3>2, <4>2 DEF EventsFollowTheAccount
    <3>3. \A f \in wire : f.delivery # d
      BY <3>1, <3>2 DEF TypeOK
    <3>4. accepted[d] = NoEvent
      BY <3>1, <3>2 DEF ProviderInv
    <3> QED
      BY <2>2, <3>3, <3>4
  <2>5. lines'[d].status \notin {"absent", "pending", "in_flight"}
    BY <2>1 DEF Outcomes
  <2>6. lines'[d].attempts > 1 => <<d, 1>> \notin recorded'
    BY <1>2, <2>1, <2>2, <2>3
  <2>7. lines'[d].attempts >= 1 /\ lines'[d].attempts = n
    BY <2>1
  <2> HIDE DEF e, n
  <2> QED
    BY <2>4, <2>5, <2>6, <2>7 DEF Undecided
<1>4. CASE ~\E c \in Calls : Complete(c) /\ claim[c].event.delivery = d
  <2>1. \A k \in 1..Highest : <<d, k>> \in recorded' => <<d, k>> \in recorded
    BY <1>4, RecordMoves
  <2>2. CASE lines'[d] = lines[d]
    <3>1. ASSUME lines[d].status = "failed", lines[d].attempts = 1
          PROVE  accepted'[d] = NoEvent /\ \A f \in wire' : f.delivery # d
      <4>1. accepted[d] = NoEvent /\ \A f \in wire : f.delivery # d
        BY <1>1, <3>1 DEF Undecided
      <4>2. accepted'[d] = NoEvent
        BY <4>1, AcceptedMoves DEF TypeOK
      <4>3. ASSUME NEW c \in Calls, NEW w \in Workers, NEW x \in Deliveries, ClaimNext(c, w, x)
            PROVE  \A f \in wire' : f.delivery # d
        <5>1. x # d
          BY <2>2, <3>1, <4>3, ClaimLines
        <5>2. /\ wire' = wire \cup {EventOf(x, lines[x].attempts + 1)}
              /\ EventOf(x, lines[x].attempts + 1).delivery = x
          BY <4>3, ClaimIsNew
        <5> QED
          BY <4>1, <5>1, <5>2
      <4> QED
        BY <4>1, <4>2, <4>3, SentMoves
    <3> QED
      BY <1>1, <1>2, <2>1, <2>2, <3>1 DEF Undecided
  <2>3. ASSUME NEW p \in Periods, ClosePeriod(p), lines[d].status = "absent",
               lines'[d] = NewLine("pending")
        PROVE  Undecided(d)'
    <3>1. lines'[d].status = "pending" /\ lines'[d].attempts = 0
      BY <2>3 DEF NewLine
    <3> QED
      BY <1>1, <2>1, <2>3, <3>1 DEF Undecided
  <2>4. ASSUME NEW c \in Calls, NEW w \in Workers, ClaimNext(c, w, d)
        PROVE  Undecided(d)'
    <3>1. lines[d].status \in {"pending", "in_flight"} /\ lines'[d].status = "in_flight"
          /\ lines'[d].attempts = lines[d].attempts + 1
      BY <2>4, ClaimLines
    <3>2. \A k \in 1..Highest : <<d, k>> \notin recorded'
      BY <1>1, <2>1, <3>1 DEF Undecided
    <3>3. <<d, 1>> \notin recorded'
      BY <1>2, <3>2
    <3> QED
      BY <3>1, <3>2, <3>3 DEF Undecided
  <2>5. ASSUME lines[d].status = "pending", lines[d].attempts >= Lowest
        PROVE  FALSE
    BY <1>1, <1>2, <2>5 DEF Undecided
  <2>6. ASSUME NEW r \in Requests, ResolveDelivery(r), r.delivery = d
        PROVE  FALSE
    BY <2>6 DEF ResolveDelivery, Decided
  <2> QED
    BY <1>4, <2>2, <2>3, <2>4, <2>5, <2>6, LineMoves
<1> QED
  BY <1>3, <1>4

\* What went wrong with a failed line that is charged all the same is recorded.
LEMMA RecordsExplain ==
  ASSUME TypeOK, RecordInv
  PROVE  FailureIsKnown
<1> SUFFICES ASSUME NEW d \in Deliveries, lines[d].status = "failed", accepted[d] # NoEvent, ~Decided(d)
             PROVE  \E n \in 1..lines[d].attempts : <<d, n>> \notin recorded
  BY DEF FailureIsKnown, Decided
<1>1. Undecided(d) /\ lines[d].attempts \in Nat
  BY LimitsAssumption DEF RecordInv, TypeOK, Line
<1>2. lines[d].attempts > 1 /\ <<d, 1>> \notin recorded
  BY <1>1 DEF Undecided
<1>3. 1 \in 1..lines[d].attempts
  BY <1>1, <1>2
<1> QED
  BY <1>2, <1>3

-----------------------------------------------------------------------------
LEMMA InitBInv == Init => BInv
<1> SUFFICES ASSUME Init PROVE BInv
  OBVIOUS
<1>1. TypeOK
  BY LimitsAssumption DEF Init, TypeOK, NewLine, Line
<1>2. PeriodInv
  BY ProcessesAssumption, LimitsAssumption DEF Init, PeriodInv, NewLine
<1>3. RecordInv
  BY DEF Init, RecordInv, Undecided, NewLine
<1>4. DeliveredAsSent
  BY DEF Init, DeliveredAsSent, NewLine
<1>5. SentInv /\ EventsFollowTheAccount /\ ClaimInv /\ ProviderInv
  BY DEF Init, SentInv, EventsFollowTheAccount, ClaimInv, ProviderInv
<1> QED
  BY <1>1, <1>2, <1>3, <1>4, <1>5 DEF BInv

LEMMA NextKeepsBInv == BInv /\ [Next]_vars => BInv'
<1> SUFFICES ASSUME BInv, [Next]_vars PROVE BInv'
  OBVIOUS
<1>1. CASE Next
  BY <1>1, NextKeepsTypes, NextKeepsPeriods, NextKeepsSent, NextKeepsClaims, NextKeepsProvider,
     NextKeepsRecords, NextKeepsDelivered DEF BInv
<1>2. CASE UNCHANGED vars
  BY <1>2 DEF BInv, vars, tables, TypeOK, PeriodInv, SentInv, EventsFollowTheAccount, ClaimInv,
              ProviderInv, RecordInv, Undecided, Decided, DeliveredAsSent
<1> QED
  BY <1>1, <1>2

\* The invariant behind the properties holds in every state.
THEOREM Inductive == Spec => []BInv
BY InitBInv, NextKeepsBInv, PTL DEF Spec

\* Types: among others, only rows in flight have a lease that may run out.
THEOREM TypeCorrect == Spec => []TypeOK
<1>1. BInv => TypeOK
  BY DEF BInv
<1> QED
  BY <1>1, Inductive, PTL

\* What is published for a line is never older than its period nor than what was
\* published for it before, and the same as before while the account is the same.
THEOREM AttemptsFollowTheAccount == Spec => []EventsFollowTheAccount
<1>1. BInv => EventsFollowTheAccount
  BY DEF BInv
<1> QED
  BY <1>1, Inductive, PTL

\* A line recorded as delivered by the sink was accepted as its last attempt sent it.
THEOREM DeliveriesAreAsSent == Spec => []DeliveredAsSent
<1>1. BInv => DeliveredAsSent
  BY DEF BInv
<1> QED
  BY <1>1, Inductive, PTL

\* A line that failed and is charged has an unrecorded attempt or a decision.
THEOREM FailuresAreKnown == Spec => []FailureIsKnown
<1>1. BInv => FailureIsKnown
  BY RecordsExplain DEF BInv
<1> QED
  BY <1>1, Inductive, PTL

-----------------------------------------------------------------------------
(***************************************************************************)
(* The refinement.                                                         *)
(***************************************************************************)

\* A line as Delivery knows it.
LEMMA RowOf ==
  ASSUME NEW d \in Deliveries
  PROVE  /\ Rows[d] = Promise!Line(lines[d].status, lines[d].attempts, lines[d].reference)
         /\ Rows'[d] = Promise!Line(lines'[d].status, lines'[d].attempts, lines'[d].reference)
         /\ Rows[d].status = lines[d].status /\ Rows[d].attempts = lines[d].attempts
         /\ Rows[d].reference = lines[d].reference
BY DEF Rows, Promise!Line

\* No stored status claims that a period is delivered.
LEMMA ReportsSayLittle ==
  ASSUME closedAt' = closedAt
  PROVE  Promise!Report /\ Reported' = Reported
<1>1. Reported' = Reported
  BY DEF Reported
<1>2. Reported \in [Periods -> Promise!Reports]
  BY DEF Reported, Promise!Reports
<1>3. \A p \in Periods : Reported[p] # "delivered"
  BY DEF Reported
<1> QED
  BY <1>1, <1>2, <1>3 DEF Promise!Report

LEMMA RowsAfterGiveUp ==
  ASSUME TypeOK, NEW n \in Nat, Lowest <= n
  PROVE  /\ Promise!MayGiveUp(Exhausted(n))
         /\ \A x \in Deliveries :
              Promise!GivenUp(Exhausted(n))[x]
                = Promise!Line(GivenUp(n)[x].status, GivenUp(n)[x].attempts, GivenUp(n)[x].reference)
<1>1. ASSUME NEW x \in Exhausted(n)
      PROVE  Rows[x].status = "pending" /\ Rows[x].attempts >= Lowest
  <2>1. x \in Deliveries /\ lines[x].status = "pending" /\ lines[x].attempts >= n
    BY DEF Exhausted
  <2>2. lines[x].attempts \in Nat /\ Lowest \in Nat
    BY <2>1, LimitsAssumption DEF TypeOK, Line
  <2> QED
    BY <2>1, <2>2, RowOf
<1>2. ASSUME NEW x \in Deliveries, x \in Exhausted(n)
      PROVE  Promise!GivenUp(Exhausted(n))[x]
               = Promise!Line(GivenUp(n)[x].status, GivenUp(n)[x].attempts, GivenUp(n)[x].reference)
  BY <1>2, GivenUpLines, RowOf DEF Promise!GivenUp
<1>3. ASSUME NEW x \in Deliveries, x \notin Exhausted(n)
      PROVE  Promise!GivenUp(Exhausted(n))[x]
               = Promise!Line(GivenUp(n)[x].status, GivenUp(n)[x].attempts, GivenUp(n)[x].reference)
  BY <1>3, GivenUpLines, RowOf DEF Promise!GivenUp
<1> QED
  BY <1>1, <1>2, <1>3 DEF Promise!MayGiveUp

LEMMA StepImplements == BInv /\ [Next]_vars => [Promise!Next]_(Promise!promised)
<1> SUFFICES ASSUME BInv, [Next]_vars
             PROVE  Promise!Next \/ UNCHANGED Promise!promised
  OBVIOUS
<1> USE DEF BInv
<1>1. ASSUME NEW p \in Periods, ClosePeriod(p)
      PROVE  Promise!Open(p)
  <2>1. Reported[p] = "absent" /\ Reported' = [Reported EXCEPT ![p] = "pending"]
    <3>1. closedAt[p] = 0 /\ closedAt' = [closedAt EXCEPT ![p] = account.revision]
          /\ account.revision # 0 /\ closedAt \in [Periods -> 0..MaxRevision]
      BY <1>1, LimitsAssumption DEF ClosePeriod, TypeOK
    <3> QED
      BY <3>1 DEF Reported
  <2>2. ASSUME NEW d \in Deliveries
        PROVE  Rows'[d] = IF PeriodOf[d] = p THEN Promise!Line("pending", 0, "none") ELSE Rows[d]
    BY <1>1, CloseLines, RowOf DEF NewLine
  <2>3. Rows' = [d \in Deliveries |-> IF PeriodOf[d] = p THEN Promise!Line("pending", 0, "none")
                                                        ELSE Rows[d]]
    BY <2>2 DEF Rows
  <2>4. Charged' = Charged /\ commands' = commands
    BY <1>1 DEF ClosePeriod, Charged
  <2> QED
    BY <2>1, <2>3, <2>4 DEF Promise!Open
<1>2. ASSUME NEW r \in Requests, ResolveDelivery(r)
      PROVE  Promise!Resolve(r)
  <2> DEFINE s == IF r.resolution = "retry" THEN "pending" ELSE r.resolution
             f == IF r.resolution # "retry" /\ r.reference THEN "operator" ELSE "none"
  <2>1. r.delivery \in Deliveries /\ Rows[r.delivery].status \in {"failed", "unknown"}
        /\ lines'[r.delivery].attempts = Rows[r.delivery].attempts
        /\ lines'[r.delivery].status = s /\ lines'[r.delivery].reference = f
    BY <1>2, ResolveLines, RowOf
  <2>2. Rows' = [Rows EXCEPT ![r.delivery] = Promise!Line(s, Rows[r.delivery].attempts, f)]
    <3>1. Rows'[r.delivery] = Promise!Line(s, Rows[r.delivery].attempts, f)
      BY <2>1, RowOf
    <3>2. ASSUME NEW x \in Deliveries, x # r.delivery
          PROVE  Rows'[x] = Rows[x]
      BY <1>2, <3>2, ResolveLines, RowOf
    <3> HIDE DEF s, f
    <3> QED
      BY <2>1, <3>1, <3>2 DEF Rows
  <2>3. Promise!Report
    BY <1>2, ReportsSayLittle DEF ResolveDelivery
  <2>4. Charged' = Charged /\ commands' = commands \cup {r}
        /\ (\A q \in commands : q.key # r.key) /\ (r.resolution = "delivered" => r.reference)
    BY <1>2 DEF ResolveDelivery, Charged
  <2> QED
    BY <2>1, <2>2, <2>3, <2>4 DEF Promise!Resolve
<1>3. ASSUME NEW e \in wire, SinkAccepts(e)
      PROVE  e.delivery \in Deliveries /\ Promise!Accept(e.delivery)
  <2>1. e \in sent /\ e.delivery \in Deliveries /\ e.attempt \in Nat \ {0}
    BY LimitsAssumption DEF TypeOK, Event
  <2>2. Rows[e.delivery].attempts > 0
    <3>1. e.attempt <= lines[e.delivery].attempts /\ lines[e.delivery].attempts \in Nat
      BY <2>1, LimitsAssumption DEF SentInv, TypeOK, Line
    <3> QED
      BY <2>1, <3>1, RowOf
  <2>3. Charged' = Charged \cup {e.delivery}
    <3>1. e # NoEvent
      BY <2>1 DEF NoEvent
    <3>2. accepted' = [accepted EXCEPT ![e.delivery] = e] /\ accepted \in [Deliveries -> Event \cup {NoEvent}]
      BY <1>3 DEF SinkAccepts, TypeOK
    <3> QED
      BY <2>1, <3>1, <3>2 DEF Charged
  <2>4. Rows' = Rows /\ commands' = commands /\ Reported' = Reported
    BY <1>3 DEF SinkAccepts, tables, Rows, Reported
  <2> QED
    BY <2>1, <2>2, <2>3, <2>4 DEF Promise!Accept
<1>4. ASSUME NEW c \in Calls, NEW w \in Workers, NEW d \in Deliveries, ClaimNext(c, w, d)
      PROVE  Exhausted(prepared[HostOf[c]]) \in SUBSET Deliveries
             /\ Promise!Try(d, Exhausted(prepared[HostOf[c]]))
  <2> DEFINE n == prepared[HostOf[c]]
  <2>1. /\ n \in Nat /\ Lowest <= n /\ n <= Highest
        /\ lines[d].status \in {"pending", "in_flight"} /\ lines[d].attempts < n
        /\ d \notin Exhausted(n)
        /\ lines'[d].status = "in_flight" /\ lines'[d].attempts = lines[d].attempts + 1
        /\ lines'[d].reference = lines[d].reference
        /\ \A x \in Deliveries : x # d => lines'[x] = GivenUp(n)[x]
    BY <1>4, ClaimLines
  <2> HIDE DEF n
  <2>2. lines[d].attempts \in Nat /\ Highest \in Nat
    BY LimitsAssumption DEF TypeOK, Line
  <2>3. Rows[d].status \in {"pending", "in_flight"} /\ Rows[d].attempts < Highest
    BY <2>1, <2>2, RowOf
  <2>4. Promise!MayGiveUp(Exhausted(n))
    BY <2>1, RowsAfterGiveUp
  <2>5. Rows' = [Promise!GivenUp(Exhausted(n)) EXCEPT
                   ![d] = Promise!Line("in_flight", Rows[d].attempts + 1, Rows[d].reference)]
    <3>1. Rows'[d] = Promise!Line("in_flight", Rows[d].attempts + 1, Rows[d].reference)
      BY <2>1, RowOf
    <3>2. ASSUME NEW x \in Deliveries, x # d
          PROVE  Rows'[x] = Promise!GivenUp(Exhausted(n))[x]
      BY <2>1, <3>2, RowsAfterGiveUp, RowOf
    <3> QED
      BY <3>1, <3>2 DEF Rows, Promise!GivenUp
  <2>6. Promise!Report
    BY <1>4, ReportsSayLittle DEF ClaimNext, tables
  <2>7. Charged' = Charged /\ commands' = commands
    BY <1>4 DEF ClaimNext, tables, Charged
  <2>8. Exhausted(n) \in SUBSET Deliveries
    BY DEF Exhausted
  <2> QED
    BY <2>1, <2>3, <2>4, <2>5, <2>6, <2>7, <2>8 DEF Promise!Try, n
<1>5. ASSUME NEW c \in Calls, ClaimIdle(c)
      PROVE  Exhausted(prepared[HostOf[c]]) \in SUBSET Deliveries
             /\ Promise!GiveUp(Exhausted(prepared[HostOf[c]]))
  <2> DEFINE n == prepared[HostOf[c]]
  <2>1. n \in Nat /\ Lowest <= n /\ lines' = GivenUp(n)
    BY <1>5, LimitBounds DEF ClaimIdle
  <2> HIDE DEF n
  <2>2. Promise!MayGiveUp(Exhausted(n))
    BY <2>1, RowsAfterGiveUp
  <2>3. Rows' = Promise!GivenUp(Exhausted(n))
    <3>1. \A x \in Deliveries : Rows'[x] = Promise!GivenUp(Exhausted(n))[x]
      BY <2>1, RowsAfterGiveUp, RowOf
    <3> QED
      BY <3>1 DEF Rows, Promise!GivenUp
  <2>4. Promise!Report
    BY <1>5, ReportsSayLittle DEF ClaimIdle, tables
  <2>5. Charged' = Charged /\ commands' = commands
    BY <1>5 DEF ClaimIdle, tables, Charged
  <2>6. Exhausted(n) \in SUBSET Deliveries
    BY DEF Exhausted
  <2> QED
    BY <2>2, <2>3, <2>4, <2>5, <2>6 DEF Promise!GiveUp, n
<1>6. ASSUME NEW c \in Calls, Complete(c)
      PROVE  \E d \in Deliveries, o \in Outcomes : Promise!Conclude(d, o)
  <2> DEFINE d == claim[c].event.delivery
             o == claim[c].outcome
             f == IF o = "delivered" THEN "sink" ELSE "none"
  <2>1. /\ d \in Deliveries /\ o \in Outcomes
        /\ lines[d].status = "in_flight" /\ lines'[d].attempts = lines[d].attempts
        /\ lines'[d].status = o /\ lines'[d].reference = f
        /\ \A x \in Deliveries : x # d => lines'[x] = lines[x]
    BY <1>6, CompleteLines
  <2>2. o = "delivered" => d \in Charged
    BY <1>6, <2>1 DEF ClaimInv, Complete, Charged
  <2> HIDE DEF d, o, f
  <2>3. Rows' = [Rows EXCEPT ![d] = Promise!Line(o, Rows[d].attempts, f)]
    <3>1. Rows'[d] = Promise!Line(o, Rows[d].attempts, f)
      BY <2>1, RowOf
    <3>2. ASSUME NEW x \in Deliveries, x # d
          PROVE  Rows'[x] = Rows[x]
      BY <2>1, <3>2, RowOf
    <3> QED
      BY <2>1, <3>1, <3>2 DEF Rows
  <2>4. Promise!Report
    BY <1>6, ReportsSayLittle DEF Complete, tables
  <2>5. Charged' = Charged /\ commands' = commands
    BY <1>6 DEF Complete, tables, Charged
  <2>6. Rows[d].status = "in_flight"
    BY <2>1, RowOf
  <2>7. Promise!Conclude(d, o)
    BY <2>2, <2>3, <2>4, <2>5, <2>6 DEF Promise!Conclude, f
  <2> QED
    BY <2>1, <2>7
<1>7. ASSUME \/ \E n \in 1..MaxRevision, s \in Scopes : PutAccount(n, s)
             \/ \E p \in Plugins : Activate(p) \/ Deactivate(p)
             \/ \E d \in Deliveries : LeaseExpires(d)
             \/ \E c \in Calls : \/ \E reply \in Replies : SinkReplies(c, reply)
                                 \/ CompleteDropped(c) \/ Die(c)
             \/ UNCHANGED vars
      PROVE  UNCHANGED Promise!promised
  <2>1. UNCHANGED <<lines, accepted, commands, closedAt>>
    BY <1>7 DEF PutAccount, Activate, Deactivate, LeaseExpires, SinkReplies, CompleteDropped, Die,
                vars, tables
  <2> QED
    BY <2>1 DEF Promise!promised, Rows, Charged, Reported
<1> USE DEF Promise!Next
<1>8. CASE \E p \in Periods : ClosePeriod(p)
  BY <1>1, <1>8
<1>9. CASE \E r \in Requests : ResolveDelivery(r)
  BY <1>2, <1>9
<1>10. CASE \E e \in wire : SinkAccepts(e)
  BY <1>3, <1>10
<1>11. CASE \E c \in Calls : \/ \E w \in Workers, d \in Deliveries : ClaimNext(c, w, d)
                            \/ ClaimIdle(c) \/ Complete(c)
  BY <1>4, <1>5, <1>6, <1>11 DEF Outcomes, Promise!Outcomes
<1> HIDE DEF BInv, Promise!Next
<1> QED
  BY <1>7, <1>8, <1>9, <1>10, <1>11 DEF Next

\* Processes, provider and administrators together keep the promise of Delivery.
THEOREM Implementation == Spec => ImplementsDelivery
<1>1. Init => Promise!Init
  BY DEF Init, Promise!Init, Rows, Charged, Reported, NewLine, Promise!Line
<1>2. BInv /\ [Next]_vars => [Promise!Next]_(Promise!promised)
  BY StepImplements
<1> QED
  BY <1>1, <1>2, Inductive, PTL DEF Spec, ImplementsDelivery, Promise!Spec
=============================================================================
