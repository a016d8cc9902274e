--------------------------- MODULE DeliveryOutbox ---------------------------
(***************************************************************************)
(* The delivery side of the usage-billing plugin: the lines of closed      *)
(* periods as an outbox that workers drain (reconcile_next: claim, publish *)
(* to the billing-meter sink, complete) and that administrators repair     *)
(* (resolve_delivery), over PostgreSQL tables shared by every plugin       *)
(* process.                                                                *)
(*                                                                         *)
(* Grain of atomicity: one SQL statement.  Transactions run at READ        *)
(* COMMITTED, PostgreSQL's default and the level the code leaves in place: *)
(* a statement sees the rows committed when it starts plus the rows its    *)
(* own transaction wrote, and an UPDATE waits for the row lock of another  *)
(* open transaction.  Simplifications, each sound for the properties:      *)
(*  - a statement on billing_period_lines that would wait starts when the  *)
(*    lock is free (PostgreSQL re-checks its WHERE on the new row, and     *)
(*    that row is all such a statement reads).  The one statement that     *)
(*    reads other rows than the one it waits for, refresh_period_status,   *)
(*    is two actions: RefreshRead (snapshot) and RefreshWrite (lock);      *)
(*  - the last statements of a transaction that only add what no other     *)
(*    statement can observe are merged with its commit;                    *)
(*  - time is the set of leases that have run out (expired);               *)
(*  - ORDER BY updated_at of the claim is left out: any claimable row may  *)
(*    be chosen, which allows every order the code has, and more.          *)
(***************************************************************************)
EXTENDS Naturals, FiniteSets

CONSTANTS
  Calls,        \* reconcile_next invocations that may be running at once
  Resolvers,    \* resolve_delivery invocations that may be running at once
  NoOne,        \* holder of an unlocked row
  Workers,      \* worker ids (worker_callers of the configuration)
  NoWorker,     \* lease_owner IS NULL
  Deliveries,   \* delivery ids: the lines of all the periods
  Periods,      \* period ids
  PeriodOf,     \* the period of each line
  MaxAttempts,  \* max_delivery_attempts of the configuration
  Requests,     \* the resolve_delivery requests administrators may send
  MaxDeaths     \* bound: how many running calls may die or be cancelled

Actors == Calls \cup Resolvers

Resolutions == {"retry", "delivered", "failed"}
Outcomes    == {"delivered", "failed", "unknown"}
Settled     == {"failed", "unknown"}
LineStates  == {"absent", "pending", "in_flight", "delivered", "failed", "unknown"}
PeriodStates == {"absent", "pending", "delivered", "failed", "unknown"}

ASSUME ActorsAssumption ==
  /\ Calls \cap Resolvers = {}
  /\ NoOne \notin Actors
  /\ NoWorker \notin Workers

\* validate_meters refuses an account without mappings, so every period has a line.
ASSUME PeriodsAssumption ==
  /\ PeriodOf \in [Deliveries -> Periods]
  /\ \A p \in Periods : \E d \in Deliveries : PeriodOf[d] = p

\* activate refuses max_delivery_attempts outside 1..100.
ASSUME AttemptsAssumption == MaxAttempts \in Nat \ {0} /\ MaxDeaths \in Nat

\* The key stands for (caller, actor, operation, idempotency_key); reference says
\* whether the request carries a provider reference.
ASSUME RequestsAssumption ==
  \A r \in Requests : /\ DOMAIN r = {"key", "delivery", "resolution", "reference"}
                      /\ r.delivery \in Deliveries
                      /\ r.resolution \in Resolutions
                      /\ r.reference \in BOOLEAN

VARIABLES
  lines,         \* committed rows of billing_period_lines
  written,       \* newest version of each row: uncommitted while the row is locked
  holder,        \* the open transaction that holds the row lock, or NoOne
  periods,       \* committed status of billing_periods
  periodWritten, \* newest status of each period row
  periodHolder,  \* the open transaction that holds the period's row lock, or NoOne
  commands,      \* committed rows of billing_commands for resolve_delivery
  expired,       \* in_flight rows whose lease_expires_at has passed
  charged,       \* deliveries the sink has accepted (state of the provider)
  pc,            \* where each invocation is
  claim,         \* the DeliveryClaim a reconcile_next invocation is working on
  request,       \* the request a resolve_delivery invocation is working on
  todo,          \* rows changed by the open transaction whose period is not refreshed
  reading,       \* status computed by a refresh that has not yet got the period row
  deaths

rows    == <<lines, written, holder, expired>>
tables  == <<periods, periodWritten, periodHolder>>
calls   == <<pc, claim, request>>
vars    == <<rows, tables, commands, charged, calls, todo, reading, deaths>>

Line == [status: LineStates, attempts: 0..MaxAttempts,
         owner: Workers \cup {NoWorker}, reference: {"none", "sink", "operator"}]
NewLine(s) == [status |-> s, attempts |-> 0, owner |-> NoWorker, reference |-> "none"]

Claim == [delivery: Deliveries, worker: Workers, attempt: 1..MaxAttempts,
          outcome: Outcomes \cup {"none"}]
NoClaim   == [attempt |-> 0]
NoRequest == [key |-> "none"]
Reading == [period: Periods, status: PeriodStates \ {"absent"}]
NoReading == [status |-> "absent"]

-----------------------------------------------------------------------------
(***************************************************************************)
(* Reading and writing inside a transaction.                               *)
(***************************************************************************)

\* The rows a statement of x's transaction sees.
Seen(x) == [d \in Deliveries |-> IF holder[d] = x THEN written[d] ELSE lines[d]]
SeenPeriods(x) ==
  [p \in Periods |-> IF periodHolder[p] = x THEN periodWritten[p] ELSE periods[p]]

\* Mutated: a line in flight no longer keeps its period pending.
PeriodStatusOfSettled(image, p) ==
  LET states == {image[d].status : d \in {e \in Deliveries : PeriodOf[e] = p}}
  IN  IF "unknown" \in states THEN "unknown"
      ELSE IF "failed" \in states THEN "failed"
      ELSE IF "pending" \in states THEN "pending"
      ELSE "delivered"

\* The CASE of refresh_period_status over one image of the table.
PeriodStatusOf(image, p) ==
  LET states == {image[d].status : d \in {e \in Deliveries : PeriodOf[e] = p}}
  IN  IF "unknown" \in states THEN "unknown"
      ELSE IF "failed" \in states THEN "failed"
      ELSE IF states # {"delivered"} THEN "pending"
      ELSE "delivered"

\* UPDATE of the rows ds by x: the new versions stay private until the commit.
WriteRows(x, ds, Version(_)) ==
  /\ written' = [d \in Deliveries |-> IF d \in ds THEN Version(d) ELSE written[d]]
  /\ holder'  = [d \in Deliveries |-> IF d \in ds THEN x ELSE holder[d]]
  /\ UNCHANGED <<lines, expired>>

\* A lease column is NULL again once the row is not in_flight.
LeasesOf(image) == {d \in expired : image[d].status = "in_flight"}

\* COMMIT of x's transaction: its versions become the rows and its locks go.
CommitPeriods(x) ==
  /\ periods' = SeenPeriods(x)
  /\ periodHolder' = [p \in Periods |-> IF periodHolder[p] = x THEN NoOne ELSE periodHolder[p]]
  /\ UNCHANGED periodWritten

CommitRows(x) ==
  /\ lines' = Seen(x)
  /\ holder' = [d \in Deliveries |-> IF holder[d] = x THEN NoOne ELSE holder[d]]
  /\ expired' = LeasesOf(Seen(x))
  /\ UNCHANGED written

\* ROLLBACK of x's transaction: dropping the transaction, its connection or its task.
Rollback(x) ==
  /\ written' = [d \in Deliveries |-> IF holder[d] = x THEN lines[d] ELSE written[d]]
  /\ holder' = [d \in Deliveries |-> IF holder[d] = x THEN NoOne ELSE holder[d]]
  /\ periodWritten' =
       [p \in Periods |-> IF periodHolder[p] = x THEN periods[p] ELSE periodWritten[p]]
  /\ periodHolder' = [p \in Periods |-> IF periodHolder[p] = x THEN NoOne ELSE periodHolder[p]]
  /\ todo' = [todo EXCEPT ![x] = {}]
  /\ reading' = [reading EXCEPT ![x] = NoReading]
  /\ UNCHANGED <<lines, expired, periods>>

\* Every row the transaction changed has had its period refreshed.
Refreshed(x) == todo[x] = {} /\ reading[x] = NoReading

-----------------------------------------------------------------------------
(***************************************************************************)
(* Initial state: migrated, empty tables and idle processes.               *)
(***************************************************************************)
Init ==
  /\ lines = [d \in Deliveries |-> NewLine("absent")]
  /\ written = lines
  /\ holder = [d \in Deliveries |-> NoOne]
  /\ periods = [p \in Periods |-> "absent"]
  /\ periodWritten = periods
  /\ periodHolder = [p \in Periods |-> NoOne]
  /\ commands = {}
  /\ expired = {}
  /\ charged = {}
  /\ pc = [x \in Actors |-> "idle"]
  /\ claim = [c \in Calls |-> NoClaim]
  /\ request = [a \in Resolvers |-> NoRequest]
  /\ todo = [x \in Actors |-> {}]
  /\ reading = [x \in Actors |-> NoReading]
  /\ deaths = 0

\* close_period commits: the period and all its lines appear together, pending.
ClosePeriod(p) ==
  LET ds == {d \in Deliveries : PeriodOf[d] = p}
      image == [d \in Deliveries |-> IF d \in ds THEN NewLine("pending") ELSE lines[d]]
  IN  /\ periods[p] = "absent"
      /\ periods' = [periods EXCEPT ![p] = "pending"]
      /\ periodWritten' = [periodWritten EXCEPT ![p] = "pending"]
      /\ lines' = image
      /\ written' = [d \in Deliveries |-> IF d \in ds THEN NewLine("pending") ELSE written[d]]
      /\ UNCHANGED <<holder, expired, periodHolder, commands, charged, calls,
                     todo, reading, deaths>>

-----------------------------------------------------------------------------
(***************************************************************************)
(* claim_next_delivery: one transaction of reconcile_next.                 *)
(***************************************************************************)
Exhausted == {d \in Deliveries : lines[d].status = "pending" /\ lines[d].attempts >= MaxAttempts}

\* No open transaction holds one of the rows.
Unlocked(ds) == \A d \in ds : holder[d] = NoOne

\* Mutated: the exhausted UPDATE takes rows another transaction has written.
ExhaustedWithoutLock(c) ==
  /\ pc[c] = "idle"
  /\ WriteRows(c, Exhausted, LAMBDA d : [lines[d] EXCEPT !.status = "failed"])
  /\ pc' = [pc EXCEPT ![c] = "claiming"]
  /\ todo' = [todo EXCEPT ![c] = Exhausted]
  /\ UNCHANGED <<tables, commands, charged, claim, request, reading, deaths>>

\* The first statement fails every pending row that has no attempt left; it waits
\* for the rows that another transaction holds.
ClaimBegin(c) ==
  /\ pc[c] = "idle"
  /\ Unlocked(Exhausted)
  /\ WriteRows(c, Exhausted, LAMBDA d : [lines[d] EXCEPT !.status = "failed"])
  /\ pc' = [pc EXCEPT ![c] = "claiming"]
  /\ todo' = [todo EXCEPT ![c] = Exhausted]
  /\ UNCHANGED <<tables, commands, charged, claim, request, reading, deaths>>

\* Mutated: the lease condition also applies to pending rows, whose lease is NULL.
ClaimableByLease(x) ==
  {d \in Deliveries : /\ Unlocked({d})
                      /\ Seen(x)[d].status \in {"pending", "in_flight"} /\ d \in expired
                      /\ Seen(x)[d].attempts < MaxAttempts}

\* Mutated: the last attempt is never made.
ClaimableButLast(x) ==
  {d \in Deliveries : /\ Unlocked({d})
                      /\ \/ Seen(x)[d].status = "pending"
                         \/ Seen(x)[d].status = "in_flight" /\ d \in expired
                      /\ Seen(x)[d].attempts + 1 < MaxAttempts}

\* Mutated: lines whose effect is unknown are retried by the workers.
ClaimableUnknown(x) ==
  {d \in Deliveries : /\ Unlocked({d})
                      /\ \/ Seen(x)[d].status \in {"pending", "unknown"}
                         \/ Seen(x)[d].status = "in_flight" /\ d \in expired
                      /\ Seen(x)[d].attempts < MaxAttempts}

\* The candidate query: FOR UPDATE SKIP LOCKED leaves out every locked row.
Claimable(x) ==
  {d \in Deliveries :
     /\ Unlocked({d})
     /\ \/ Seen(x)[d].status = "pending"
        \/ Seen(x)[d].status = "in_flight" /\ d \in expired
     /\ Seen(x)[d].attempts < MaxAttempts}

\* A candidate is leased to the worker and the transaction commits, with the rows
\* the exhausted UPDATE failed and their periods.
ClaimNext(c, w, d) ==
  LET leased == [lines[d] EXCEPT !.status = "in_flight", !.attempts = @ + 1, !.owner = w]
  IN  /\ pc[c] = "claiming" /\ Refreshed(c)
      /\ d \in Claimable(c)
      /\ lines' = [Seen(c) EXCEPT ![d] = leased]
      /\ written' = [written EXCEPT ![d] = leased]
      /\ holder' = [e \in Deliveries |-> IF holder[e] = c THEN NoOne ELSE holder[e]]
      /\ expired' = LeasesOf(Seen(c)) \ {d}
      /\ CommitPeriods(c)
      /\ claim' = [claim EXCEPT ![c] = [delivery |-> d, worker |-> w,
                                        attempt |-> leased.attempts, outcome |-> "none"]]
      /\ pc' = [pc EXCEPT ![c] = "publishing"]
      /\ UNCHANGED <<commands, charged, request, todo, reading, deaths>>

\* No candidate: the transaction commits and the call answers Idle.
ClaimIdle(c) ==
  /\ pc[c] = "claiming" /\ Refreshed(c)
  /\ Claimable(c) = {}
  /\ CommitRows(c)
  /\ CommitPeriods(c)
  /\ pc' = [pc EXCEPT ![c] = "idle"]
  /\ UNCHANGED <<commands, charged, claim, request, todo, reading, deaths>>

-----------------------------------------------------------------------------
(***************************************************************************)
(* publish_meter_event and the answers reconcile_next maps: accepted, a    *)
(* domain error whose effect is known or not (sink_failure), a runtime     *)
(* failure.  Only a definite refusal says that nothing was accepted.       *)
(***************************************************************************)
\* Mutated: an answer that leaves the effect unknown is returned without being recorded.
SinkReplyRaised(c) ==
  /\ pc[c] = "publishing"
  /\ \E o \in Outcomes :
       /\ claim' = [claim EXCEPT ![c] = IF o = "unknown" THEN NoClaim
                                        ELSE [@ EXCEPT !.outcome = o]]
       /\ charged' = IF o = "failed" THEN charged ELSE charged \cup {claim[c].delivery}
       /\ pc' = [pc EXCEPT ![c] = IF o = "unknown" THEN "idle" ELSE "replied"]
  /\ UNCHANGED <<rows, tables, commands, request, todo, reading, deaths>>

SinkReply(c) ==
  /\ pc[c] = "publishing"
  /\ \E o \in Outcomes :
       /\ claim' = [claim EXCEPT ![c].outcome = o]
       /\ CASE o = "delivered" -> charged' = charged \cup {claim[c].delivery}
            [] o = "failed"    -> UNCHANGED charged
            [] o = "unknown"   -> \/ charged' = charged \cup {claim[c].delivery}
                                  \/ UNCHANGED charged
  /\ pc' = [pc EXCEPT ![c] = "replied"]
  /\ UNCHANGED <<rows, tables, commands, request, todo, reading, deaths>>

\* Mutated: any attempt of the worker may complete the row.
OwnsByWorker(c) ==
  LET k == claim[c] IN
  /\ lines[k.delivery].status = "in_flight"
  /\ lines[k.delivery].owner = k.worker

\* The WHERE of complete_delivery: the exact worker and attempt of the claim.
Owns(c) ==
  LET k == claim[c] IN
  /\ lines[k.delivery].status = "in_flight"
  /\ lines[k.delivery].owner = k.worker
  /\ lines[k.delivery].attempts = k.attempt

\* Mutated: the lease columns are not cleared.
CompletedLeased(c) ==
  [lines[claim[c].delivery] EXCEPT
     !.status = claim[c].outcome,
     !.reference = IF claim[c].outcome = "delivered" THEN "sink" ELSE "none"]

\* Mutated: an uncertain answer counts as a success.
CompletedOptimistic(c) ==
  [lines[claim[c].delivery] EXCEPT
     !.status = IF claim[c].outcome = "failed" THEN "failed" ELSE "delivered",
     !.owner = NoWorker,
     !.reference = IF claim[c].outcome = "failed" THEN "none" ELSE "sink"]

\* The row as the answer leaves it.
Completed(c) ==
  [lines[claim[c].delivery] EXCEPT
     !.status = claim[c].outcome,
     !.owner = NoWorker,
     !.reference = IF claim[c].outcome = "delivered" THEN "sink" ELSE "none"]

CompleteBegin(c) ==
  LET d == claim[c].delivery
  IN  /\ pc[c] = "replied"
      /\ Unlocked({d})
      /\ Owns(c)
      /\ WriteRows(c, {d}, LAMBDA e : Completed(c))
      /\ todo' = [todo EXCEPT ![c] = {d}]
      /\ pc' = [pc EXCEPT ![c] = "completing"]
      /\ UNCHANGED <<tables, commands, charged, claim, request, reading, deaths>>

\* The UPDATE matches no row: DeliveryNotFound, and the outcome is dropped.
CompleteLost(c) ==
  /\ pc[c] = "replied"
  /\ Unlocked({claim[c].delivery})
  /\ ~Owns(c)
  /\ pc' = [pc EXCEPT ![c] = "idle"]
  /\ claim' = [claim EXCEPT ![c] = NoClaim]
  /\ UNCHANGED <<rows, tables, commands, charged, request, todo, reading, deaths>>

CompleteCommit(c) ==
  /\ pc[c] = "completing" /\ Refreshed(c)
  /\ CommitRows(c)
  /\ CommitPeriods(c)
  /\ pc' = [pc EXCEPT ![c] = "idle"]
  /\ claim' = [claim EXCEPT ![c] = NoClaim]
  /\ UNCHANGED <<commands, charged, request, todo, reading, deaths>>

-----------------------------------------------------------------------------
(***************************************************************************)
(* refresh_period_status, once for each row the transaction changed.  Its  *)
(* subqueries read the lines as they are when the statement starts; if the *)
(* period row is locked the statement waits, and PostgreSQL then evaluates *)
(* SET with the subqueries still at that first snapshot.                   *)
(***************************************************************************)
\* Mutated: the subqueries run outside the transaction.
RefreshedStatusOutside(x, p) == PeriodStatusOf(lines, p)

RefreshedStatus(x, p) == PeriodStatusOf(Seen(x), p)

RefreshRead(x) ==
  /\ reading[x] = NoReading
  /\ \E d \in todo[x] :
       /\ reading' = [reading EXCEPT ![x] =
                        [period |-> PeriodOf[d],
                         status |-> RefreshedStatus(x, PeriodOf[d])]]
       /\ todo' = [todo EXCEPT ![x] = @ \ {d}]
  /\ UNCHANGED <<rows, tables, commands, charged, calls, deaths>>

RefreshWrite(x) ==
  LET p == reading[x].period IN
  /\ reading[x] # NoReading
  /\ periodHolder[p] \in {NoOne, x}
  /\ periodWritten' = [periodWritten EXCEPT ![p] = reading[x].status]
  /\ periodHolder' = [periodHolder EXCEPT ![p] = x]
  /\ reading' = [reading EXCEPT ![x] = NoReading]
  /\ UNCHANGED <<rows, periods, commands, charged, calls, todo, deaths>>

-----------------------------------------------------------------------------
(***************************************************************************)
(* resolve_delivery.  A request whose key is stored is answered from the   *)
(* stored response (or refused, if the hash differs) and changes nothing.  *)
(***************************************************************************)
Stored(key) == \E r \in commands : r.key = key

\* Mutated: the period row is locked before the line.
ResolveStartPeriodFirst(a, r) ==
  LET p == PeriodOf[r.delivery] IN
  /\ pc[a] = "idle"
  /\ ~Stored(r.key)
  /\ periodHolder[p] = NoOne
  /\ periodHolder' = [periodHolder EXCEPT ![p] = a]
  /\ request' = [request EXCEPT ![a] = r]
  /\ pc' = [pc EXCEPT ![a] = "locking"]
  /\ UNCHANGED <<rows, periods, periodWritten, commands, charged, claim, todo, reading, deaths>>

ResolveStart(a, r) ==
  /\ pc[a] = "idle"
  /\ ~Stored(r.key)
  /\ request' = [request EXCEPT ![a] = r]
  /\ pc' = [pc EXCEPT ![a] = "locking"]
  /\ UNCHANGED <<rows, tables, commands, charged, claim, todo, reading, deaths>>

\* Mutated: a delivered line may be resolved again.
ResolvableDelivered(r) ==
  /\ lines[r.delivery].status \in Settled \cup {"delivered"}
  /\ r.resolution = "delivered" => r.reference

\* Only a settled line may be resolved, and as delivered only with a reference.
Resolvable(r) ==
  /\ lines[r.delivery].status \in Settled
  /\ r.resolution = "delivered" => r.reference

\* Mutated: a retry starts the attempts again.
ResolvedAfresh(r) ==
  [lines[r.delivery] EXCEPT
     !.status = IF r.resolution = "retry" THEN "pending" ELSE r.resolution,
     !.attempts = IF r.resolution = "retry" THEN 0 ELSE @,
     !.reference = IF r.resolution # "retry" /\ r.reference THEN "operator" ELSE "none"]

\* The row as the resolution leaves it; attempts are not touched.
Resolved(r) ==
  [lines[r.delivery] EXCEPT
     !.status = IF r.resolution = "retry" THEN "pending" ELSE r.resolution,
     !.reference = IF r.resolution # "retry" /\ r.reference THEN "operator" ELSE "none"]

\* SELECT .. FOR UPDATE OF l, the checks, and the UPDATE under the lock.
ResolveLock(a) ==
  LET r == request[a] IN
  /\ pc[a] = "locking"
  /\ Unlocked({r.delivery})
  /\ Resolvable(r)
  /\ WriteRows(a, {r.delivery}, LAMBDA d : Resolved(r))
  /\ todo' = [todo EXCEPT ![a] = {r.delivery}]
  /\ pc' = [pc EXCEPT ![a] = "resolving"]
  /\ UNCHANGED <<tables, commands, charged, claim, request, reading, deaths>>

\* DeliveryNotFound or InvalidResolution; the transaction is dropped.
ResolveRefuse(a) ==
  /\ pc[a] = "locking"
  /\ Unlocked({request[a].delivery})
  /\ ~Resolvable(request[a])
  /\ pc' = [pc EXCEPT ![a] = "idle"]
  /\ request' = [request EXCEPT ![a] = NoRequest]
  /\ UNCHANGED <<rows, tables, commands, charged, claim, todo, reading, deaths>>

\* Mutated: store_command without the primary key.
StoreCommandAlways(r) == commands' = commands \cup {r}

StoreCommand(r) == ~Stored(r.key) /\ commands' = commands \cup {r}

\* store_command and COMMIT.
ResolveCommit(a) ==
  /\ pc[a] = "resolving" /\ Refreshed(a)
  /\ StoreCommand(request[a])
  /\ CommitRows(a)
  /\ CommitPeriods(a)
  /\ pc' = [pc EXCEPT ![a] = "idle"]
  /\ request' = [request EXCEPT ![a] = NoRequest]
  /\ UNCHANGED <<charged, claim, todo, reading, deaths>>

\* store_command hits the primary key of billing_commands: everything is rolled back.
ResolveDuplicate(a) ==
  /\ pc[a] = "resolving" /\ Refreshed(a)
  /\ Stored(request[a].key)
  /\ Rollback(a)
  /\ pc' = [pc EXCEPT ![a] = "idle"]
  /\ request' = [request EXCEPT ![a] = NoRequest]
  /\ UNCHANGED <<commands, charged, claim, deaths>>

-----------------------------------------------------------------------------
(***************************************************************************)
(* The environment: calls die (process, connection or cancelled future)    *)
(* and leases run out.                                                     *)
(***************************************************************************)

\* A call that dies while it publishes may have reached the provider.
Die(x) ==
  /\ pc[x] # "idle"
  /\ deaths < MaxDeaths
  /\ deaths' = deaths + 1
  /\ Rollback(x)
  /\ pc' = [pc EXCEPT ![x] = "idle"]
  /\ claim' = [c \in Calls |-> IF c = x THEN NoClaim ELSE claim[c]]
  /\ request' = [a \in Resolvers |-> IF a = x THEN NoRequest ELSE request[a]]
  /\ \/ UNCHANGED charged
     \/ pc[x] = "publishing" /\ charged' = charged \cup {claim[x].delivery}
  /\ UNCHANGED commands

LeaseExpires(d) ==
  /\ lines[d].status = "in_flight" /\ d \notin expired
  /\ expired' = expired \cup {d}
  /\ UNCHANGED <<lines, written, holder, tables, commands, charged, calls,
                 todo, reading, deaths>>

-----------------------------------------------------------------------------
Claiming(c) == ClaimBegin(c) \/ ClaimIdle(c)
                 \/ \E w \in Workers, d \in Deliveries : ClaimNext(c, w, d)
Completing(c) == CompleteBegin(c) \/ CompleteLost(c) \/ CompleteCommit(c)
Refreshing(x) == RefreshRead(x) \/ RefreshWrite(x)
Resolving(a) == ResolveLock(a) \/ ResolveRefuse(a) \/ ResolveCommit(a) \/ ResolveDuplicate(a)

Next ==
  \/ \E p \in Periods : ClosePeriod(p)
  \/ \E c \in Calls : Claiming(c) \/ SinkReply(c) \/ Completing(c)
  \/ \E a \in Resolvers : Resolving(a) \/ \E r \in Requests : ResolveStart(a, r)
  \/ \E x \in Actors : Refreshing(x) \/ Die(x)
  \/ \E d \in Deliveries : LeaseExpires(d)

Spec == Init /\ [][Next]_vars

\* Workers keep calling reconcile_next, a started handler runs on, the database
\* grants a free lock, the sink answers or its call fails, and time passes.  Nothing
\* forces an administrator to act, a period to be closed, or a call to die.
Fairness ==
  /\ \A c \in Calls : /\ WF_vars(Claiming(c))
                      /\ WF_vars(SinkReply(c))
                      /\ WF_vars(Completing(c))
  /\ \A x \in Actors : WF_vars(Refreshing(x))
  /\ \A a \in Resolvers : WF_vars(Resolving(a))
  /\ \A d \in Deliveries : WF_vars(LeaseExpires(d))

FairSpec == Spec /\ Fairness

-----------------------------------------------------------------------------
(***************************************************************************)
(* Properties.                                                             *)
(***************************************************************************)

\* Type invariant; a row of the table that is in_flight, and only such a row, has
\* a lease (the CHECK of billing_period_lines).
TypeOK ==
  /\ lines \in [Deliveries -> Line]
  /\ written \in [Deliveries -> Line]
  /\ holder \in [Deliveries -> Actors \cup {NoOne}]
  /\ periods \in [Periods -> PeriodStates]
  /\ periodWritten \in [Periods -> PeriodStates]
  /\ periodHolder \in [Periods -> Actors \cup {NoOne}]
  /\ commands \subseteq Requests
  /\ charged \subseteq Deliveries
  /\ pc \in [Actors -> {"idle", "claiming", "publishing", "replied", "completing",
                        "locking", "resolving"}]
  /\ claim \in [Calls -> Claim \cup {NoClaim}]
  /\ request \in [Resolvers -> Requests \cup {NoRequest}]
  /\ todo \in [Actors -> SUBSET Deliveries]
  /\ reading \in [Actors -> Reading \cup {NoReading}]
  /\ deaths \in 0..MaxDeaths
  /\ expired \subseteq {d \in Deliveries : lines[d].status = "in_flight"}
  /\ \A d \in Deliveries : lines[d].status = "in_flight" <=> lines[d].owner # NoWorker

Working(c) == pc[c] \in {"publishing", "replied", "completing"}

\* No two running calls ever hold the same generation of a delivery, and a claim is
\* never ahead of its row: SKIP LOCKED, the attempt counter that no operation resets,
\* and the lease make each attempt the property of one call.
ClaimGenerations ==
  \A c \in Calls : Working(c) =>
    /\ claim[c].attempt <= lines[claim[c].delivery].attempts
    /\ \A b \in Calls \ {c} :
         Working(b) /\ claim[b].delivery = claim[c].delivery
            => claim[b].attempt # claim[c].attempt

\* The committed period status is never ahead of its lines: "delivered" is reported
\* only when every line of the period is delivered, whatever refreshes raced.
DeliveredPeriodSound ==
  \A p \in Periods : periods[p] = "delivered" =>
    \A d \in Deliveries : PeriodOf[d] = p => lines[d].status = "delivered"

\* A delivered line stands for an accepted event or for an administrator's stored
\* confirmation of one.
DeliveredMeansBilled ==
  \A d \in Deliveries : lines[d].status = "delivered" =>
    \/ lines[d].reference = "sink" /\ d \in charged
    \/ /\ lines[d].reference = "operator"
       /\ \E r \in commands : r.delivery = d /\ r.resolution = "delivered"

\* The open transactions whose lock on a period row the refresh of x waits for.
WaitsFor(x) == IF reading[x] = NoReading THEN {}
               ELSE {periodHolder[reading[x].period]} \ {NoOne, x}

\* No group of transactions waits for period rows held inside the group.
NoLockWaitCycle ==
  \A S \in SUBSET Actors : S # {} => \E x \in S : WaitsFor(x) \cap S = {}

\* With every transaction closed, the stored status of a period is the one its lines
\* give (what refresh_period_status is for, and what get_period shows).
OpenTransaction(x) == pc[x] \in {"claiming", "completing", "resolving"}
PeriodReflectsLines ==
  (\A x \in Actors : ~OpenTransaction(x)) =>
     \A p \in Periods : periods[p] # "absent" => periods[p] = PeriodStatusOf(lines, p)

\* An in_flight row is changed only by the call that holds its very generation, with
\* the outcome of that call, or by a new claim after its lease has run out.
StaleHolderHarmless ==
  [][\A d \in Deliveries :
       lines[d].status = "in_flight" /\ lines'[d] # lines[d] =>
         \/ \E c \in Calls :
              /\ pc[c] = "completing" /\ claim[c].delivery = d
              /\ claim[c].worker = lines[d].owner
              /\ claim[c].attempt = lines[d].attempts
              /\ lines'[d].status = claim[c].outcome
         \/ /\ d \in expired
            /\ lines'[d].status = "in_flight"
            /\ lines'[d].attempts = lines[d].attempts + 1]_vars

\* The lines in flight that no running call is going to conclude.
WorksOn(c, d) ==
  Working(c) /\ claim[c].delivery = d /\ claim[c].attempt = lines[d].attempts
Stranded ==
  {d \in Deliveries : lines[d].status = "in_flight" /\ \A c \in Calls : ~WorksOn(c, d)}

\* A call that is not killed concludes the attempt it made, or finds that a later attempt
\* has replaced it: at most one line is left in flight for each call that died.
DeathsStrandLines == Cardinality(Stranded) <= deaths

\* The committed rows, without their leases and locks, are an implementation of
\* Delivery in which the two attempt limits are one number.
Committed(row) == [status |-> row.status, attempts |-> row.attempts,
                   reference |-> row.reference]
CommittedLines == [d \in Deliveries |-> Committed(lines[d])]

Promise == INSTANCE Delivery WITH
  line <- CommittedLines, resolved <- commands, reported <- periods,
  MinAttempts <- MaxAttempts

\* Whatever transactions, locks, leases and deaths do, readers and provider see the
\* life Delivery promises: reconcile_next and resolve_delivery implement it.
ImplementsDelivery == Promise!Spec

\* What is delivered stays delivered, with its provider reference.
DeliveredIsFinal ==
  [][\A d \in Deliveries : lines[d].status = "delivered" => lines'[d] = lines[d]]_vars

\* A failed or unknown line moves only with the command of an administrator that is
\* stored by the same transaction, and to the state that command asks for.
SettledNeedsOperator ==
  [][\A d \in Deliveries :
       lines[d].status \in Settled /\ lines'[d] # lines[d] =>
         \E r \in commands' \ commands :
            /\ r.delivery = d
            /\ lines'[d].status = IF r.resolution = "retry" THEN "pending" ELSE r.resolution
            /\ lines'[d].attempts = lines[d].attempts]_vars

\* Each key changes a line at most once, and exactly when its command is stored: a commit
\* that moves a settled line stores one command under a key that had none, whichever
\* duplicates and conflicting requests have passed the replay before; what it stores it
\* has done, to that line alone; and no stored key is ever given up.
ResolutionOnce ==
  [][LET new   == commands' \ commands
         moved == {d \in Deliveries : lines[d].status \in Settled /\ lines'[d] # lines[d]}
     IN  /\ commands \subseteq commands'
         /\ moved \subseteq {r.delivery : r \in new}
         /\ \A r \in new :
              /\ new = {r} /\ ~Stored(r.key)
              /\ lines[r.delivery].status \in Settled
              /\ lines'[r.delivery] = Resolved(r)]_vars

\* A line fails only because the sink refused the event or an administrator
\* confirmed the failure.
FailureIsDecided ==
  [][\A d \in Deliveries :
       lines[d].status # "failed" /\ lines'[d].status = "failed" =>
         \/ \E c \in Calls : /\ pc[c] = "completing" /\ claim[c].delivery = d
                             /\ claim[c].outcome = "failed"
         \/ \E r \in commands' \ commands : r.delivery = d /\ r.resolution = "failed"]_vars

\* No pending line is forgotten: workers that keep calling pick it up.
PendingIsServed ==
  \A d \in Deliveries : lines[d].status = "pending" ~> lines[d].status # "pending"

\* A lease whose holder died is not the end of a delivery that has attempts left.
LostLeaseIsRetried ==
  \A d \in Deliveries, n \in 1..(MaxAttempts - 1) :
    lines[d].status = "in_flight" /\ lines[d].attempts = n
      ~> lines[d].status # "in_flight" \/ lines[d].attempts > n

\* Every started handler returns: no lock is waited for in vain.
HandlersReturn == \A x \in Actors : pc[x] # "idle" ~> pc[x] = "idle"

\* Every attempt ends in a recorded state, if only as unknown.
AttemptsConclude ==
  \A d \in Deliveries : lines[d].status = "in_flight" ~> lines[d].status # "in_flight"
=============================================================================
