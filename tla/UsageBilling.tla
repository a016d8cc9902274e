---------------------------- MODULE UsageBilling ----------------------------
(***************************************************************************)
(* The plugin as a whole, between the account it bills and the provider it *)
(* bills through: administrators replace the account, close periods and    *)
(* resolve lines; plugin processes with configurations of their own drain  *)
(* the lines; the sink accepts, refuses or keeps silent, at once or long   *)
(* after the call that published has gone.                                 *)
(*                                                                         *)
(* Grain of atomicity: one database transaction, one reply of the sink.    *)
(* DeliveryOutbox and AccountPeriods look inside the transactions.  Like   *)
(* DeliveryOutbox, this module implements the promise Delivery.            *)
(* Simplifications:                                                        *)
(*  - the stored status of a period is left out: DeliveryOutbox has it;    *)
(*  - an event is the part of the payload that may differ between two      *)
(*    attempts at one line: the account's scope and subject, read by the   *)
(*    claim from the account as it is then.  Meter, quantity and time come *)
(*    from the period's rows, which no operation changes;                  *)
(*  - periods close whether or not the account is active: AccountPeriods   *)
(*    has that check, which allows less;                                   *)
(*  - time is the set of leases that have run out (expired);               *)
(*  - the claim may take any claimable line: order and row locks are       *)
(*    DeliveryOutbox's.                                                    *)
(***************************************************************************)
EXTENDS Naturals, FiniteSets

CONSTANTS
  Plugins,      \* plugin processes on the same database
  Calls,        \* reconcile_next invocations that may be running at once
  HostOf,       \* the process each invocation runs in
  Workers,      \* worker ids
  NoWorker,     \* lease_owner IS NULL
  Deliveries,   \* delivery ids
  Periods,      \* period ids
  PeriodOf,     \* the period of each line
  Scopes,       \* what the account may say about itself: scope and subject
  Limits,       \* values of max_delivery_attempts a configuration may have
  Lowest,       \* ... the smallest of them
  Highest,      \* ... and the largest
  Requests,     \* the resolve_delivery requests administrators may send
  MaxRevision,  \* bound: how often the account is replaced
  MaxLost       \* bound: how many running calls die

ASSUME ProcessesAssumption ==
  /\ HostOf \in [Calls -> Plugins]
  /\ PeriodOf \in [Deliveries -> Periods]
  /\ NoWorker \notin Workers

\* activate refuses max_delivery_attempts outside 1..100.
ASSUME LimitsAssumption ==
  /\ Lowest \in 1..100 /\ Highest \in 1..100
  /\ {Lowest, Highest} \subseteq Limits /\ Limits \subseteq Lowest..Highest
  /\ MaxRevision \in Nat \ {0} /\ MaxLost \in Nat

ASSUME RequestsAssumption ==
  \A r \in Requests : /\ DOMAIN r = {"key", "delivery", "resolution", "reference"}
                      /\ r.delivery \in Deliveries
                      /\ r.resolution \in {"retry", "delivered", "failed"}
                      /\ r.reference \in BOOLEAN

VARIABLES
  account,      \* the row of billing_accounts: its revision and what it says
  closedAt,     \* the account revision each period was closed at; 0: not closed
  lines,        \* rows of billing_period_lines
  expired,      \* in_flight rows whose lease_expires_at has passed
  commands,     \* stored resolve_delivery commands
  prepared,     \* the attempt limit of each activated process; 0: not activated
  pc,           \* where each invocation is
  claim,        \* what a reconcile_next invocation is working on
  wire,         \* events handed to the provider that it may still take up
  accepted,     \* the event the provider accepted for each delivery
  sent,         \* history: every event ever published
  recorded,     \* history: attempts whose outcome complete_delivery stored
  lost          \* how many calls have died

tables == <<account, closedAt, commands>>
vars == <<tables, lines, expired, prepared, pc, claim, wire, accepted, sent, recorded, lost>>

Outcomes == {"delivered", "failed", "unknown"}
Line == [status: {"absent", "pending", "in_flight"} \cup Outcomes,
         attempts: 0..Highest,
         owner: Workers \cup {NoWorker},
         reference: {"none", "sink", "operator"}]
NewLine(s) == [status |-> s, attempts |-> 0, owner |-> NoWorker, reference |-> "none"]

Event == [delivery: Deliveries, attempt: 1..Highest, revision: 1..MaxRevision, scope: Scopes]
NoEvent == [attempt |-> 0]
NoClaim == [attempt |-> 0]

Init ==
  /\ account \in [revision: {1}, scope: Scopes]
  /\ closedAt = [p \in Periods |-> 0]
  /\ lines = [d \in Deliveries |-> NewLine("absent")]
  /\ expired = {}
  /\ commands = {}
  /\ prepared = [p \in Plugins |-> 0]
  /\ pc = [c \in Calls |-> "idle"]
  /\ claim = [c \in Calls |-> NoClaim]
  /\ wire = {}
  /\ accepted = [d \in Deliveries |-> NoEvent]
  /\ sent = {}
  /\ recorded = {}
  /\ lost = 0

-----------------------------------------------------------------------------
(***************************************************************************)
(* Administrators.                                                         *)
(***************************************************************************)

\* Mutated: the revision is not compared with the one the update was written for.
PutAccountUnchecked(expected, s) ==
  /\ expected < MaxRevision
  /\ account' = [revision |-> expected + 1, scope |-> s]
  /\ UNCHANGED <<closedAt, commands, lines, expired, prepared, pc, claim, wire, accepted,
                 sent, recorded, lost>>

\* put_account: a full replacement, if the revision is still the expected one.
PutAccount(expected, s) ==
  /\ account.revision = expected /\ expected < MaxRevision
  /\ account' = [revision |-> expected + 1, scope |-> s]
  /\ UNCHANGED <<closedAt, commands, lines, expired, prepared, pc, claim, wire, accepted,
                 sent, recorded, lost>>

\* close_period: the period records the account's revision; its lines open.
ClosePeriod(p) ==
  /\ closedAt[p] = 0
  /\ closedAt' = [closedAt EXCEPT ![p] = account.revision]
  /\ lines' = [d \in Deliveries |-> IF PeriodOf[d] = p THEN NewLine("pending") ELSE lines[d]]
  /\ UNCHANGED <<account, commands, expired, prepared, pc, claim, wire, accepted, sent,
                 recorded, lost>>

\* Mutated: a retry starts the attempts again.
ResolvedAfresh(r) ==
  [lines[r.delivery] EXCEPT
     !.status = IF r.resolution = "retry" THEN "pending" ELSE r.resolution,
     !.attempts = IF r.resolution = "retry" THEN 0 ELSE @,
     !.reference = IF r.resolution # "retry" /\ r.reference THEN "operator" ELSE "none"]

Resolved(r) ==
  [lines[r.delivery] EXCEPT
     !.status = IF r.resolution = "retry" THEN "pending" ELSE r.resolution,
     !.reference = IF r.resolution # "retry" /\ r.reference THEN "operator" ELSE "none"]

\* resolve_delivery: a settled line, a new key, and a reference for a confirmed delivery.
ResolveDelivery(r) ==
  /\ \A q \in commands : q.key # r.key
  /\ lines[r.delivery].status \in {"failed", "unknown"}
  /\ r.resolution = "delivered" => r.reference
  /\ lines' = [lines EXCEPT ![r.delivery] = Resolved(r)]
  /\ commands' = commands \cup {r}
  /\ UNCHANGED <<account, closedAt, expired, prepared, pc, claim, wire, accepted, sent,
                 recorded, lost>>

-----------------------------------------------------------------------------
(***************************************************************************)
(* Processes.                                                              *)
(***************************************************************************)

\* activate, with the limit of the configuration the process was started with.
Activate(p) ==
  /\ prepared[p] = 0
  /\ \E n \in Limits : prepared' = [prepared EXCEPT ![p] = n]
  /\ UNCHANGED <<tables, lines, expired, pc, claim, wire, accepted, sent, recorded, lost>>

\* deactivate takes the pool away from calls that are waiting for the sink.
Deactivate(p) ==
  /\ prepared[p] # 0
  /\ prepared' = [prepared EXCEPT ![p] = 0]
  /\ UNCHANGED <<tables, lines, expired, pc, claim, wire, accepted, sent, recorded, lost>>

\* A call dies; what it handed to the provider may still be taken up.
Die(c) ==
  /\ pc[c] # "idle"
  /\ lost < MaxLost
  /\ lost' = lost + 1
  /\ pc' = [pc EXCEPT ![c] = "idle"]
  /\ claim' = [claim EXCEPT ![c] = NoClaim]
  /\ UNCHANGED <<tables, lines, expired, prepared, wire, accepted, sent, recorded>>

LeaseExpires(d) ==
  /\ lines[d].status = "in_flight" /\ d \notin expired
  /\ expired' = expired \cup {d}
  /\ UNCHANGED <<tables, lines, prepared, pc, claim, wire, accepted, sent, recorded, lost>>

-----------------------------------------------------------------------------
(***************************************************************************)
(* reconcile_next in a process whose limit is n.                           *)
(***************************************************************************)
Exhausted(n) == {d \in Deliveries : lines[d].status = "pending" /\ lines[d].attempts >= n}

GivenUp(n) == [d \in Deliveries |-> IF d \in Exhausted(n) THEN [lines[d] EXCEPT !.status = "failed"]
                                                          ELSE lines[d]]

Claimable(n) ==
  {d \in Deliveries : /\ \/ lines[d].status = "pending"
                         \/ lines[d].status = "in_flight" /\ d \in expired
                      /\ lines[d].attempts < n}

\* What the claim's last query joins: the account as it is now.
EventOf(d, attempt) ==
  [delivery |-> d, attempt |-> attempt, revision |-> account.revision, scope |-> account.scope]

\* claim_next_delivery commits, and the event goes out.
ClaimNext(c, w, d) ==
  LET n == prepared[HostOf[c]]
      k == lines[d].attempts + 1
      e == EventOf(d, k)
  IN  /\ pc[c] = "idle" /\ n # 0
      /\ d \in Claimable(n)
      /\ lines' = [GivenUp(n) EXCEPT
                     ![d] = [@ EXCEPT !.status = "in_flight", !.attempts = k, !.owner = w]]
      /\ expired' = expired \ {d}
      /\ claim' = [claim EXCEPT ![c] = [worker |-> w, attempt |-> k, event |-> e,
                                        outcome |-> "none"]]
      /\ pc' = [pc EXCEPT ![c] = "publishing"]
      /\ wire' = wire \cup {e}
      /\ sent' = sent \cup {e}
      /\ UNCHANGED <<tables, prepared, accepted, recorded, lost>>

\* Nothing to claim: only the lines without an attempt left change.
ClaimIdle(c) ==
  LET n == prepared[HostOf[c]] IN
  /\ pc[c] = "idle" /\ n # 0
  /\ Claimable(n) = {} /\ Exhausted(n) # {}
  /\ lines' = GivenUp(n)
  /\ UNCHANGED <<tables, expired, prepared, pc, claim, wire, accepted, sent, recorded, lost>>

-----------------------------------------------------------------------------
(***************************************************************************)
(* The provider: lenso.billing-meter-sink, known by its contract only.  It *)
(* takes up an event once; an event it has is replayed if it is the same   *)
(* and a conflict if it is not.                                            *)
(***************************************************************************)
SameEvent(e, f) == e.delivery = f.delivery /\ e.scope = f.scope

SinkAccepts(e) ==
  /\ e \in wire
  /\ accepted[e.delivery] = NoEvent
  /\ accepted' = [accepted EXCEPT ![e.delivery] = e]
  /\ wire' = wire \ {e}
  /\ UNCHANGED <<tables, lines, expired, prepared, pc, claim, sent, recorded, lost>>

\* The status reconcile_next makes of an answer (sink_failure and the match on the
\* outcome): accepted or replayed, refused, and everything that leaves it open.
Replies == {"accepted", "refused", "conflict", "effect_unknown", "runtime_failure"}

\* Mutated: a refusal and an unknown effect are told apart no more.
StatusOfCareless(reply) ==
  CASE reply = "accepted" -> "delivered"
    [] reply \in {"refused", "effect_unknown"} -> "failed"
    [] OTHER -> "unknown"

StatusOf(reply) ==
  CASE reply = "accepted" -> "delivered"
    [] reply = "refused"  -> "failed"
    [] OTHER -> "unknown"

\* A reply; a refused or conflicting event is not taken up later, an open one may be.
SinkReplies(c, reply) ==
  LET e == claim[c].event IN
  /\ pc[c] = "publishing"
  /\ reply = "accepted" => /\ accepted[e.delivery] # NoEvent
                           /\ SameEvent(e, accepted[e.delivery])
  /\ reply = "conflict" => /\ accepted[e.delivery] # NoEvent
                           /\ ~SameEvent(e, accepted[e.delivery])
  /\ reply = "refused" => e \in wire
  /\ wire' = IF reply \in {"refused", "conflict"} THEN wire \ {e} ELSE wire
  /\ claim' = [claim EXCEPT ![c].outcome = StatusOf(reply)]
  /\ pc' = [pc EXCEPT ![c] = "replied"]
  /\ UNCHANGED <<tables, lines, expired, prepared, accepted, sent, recorded, lost>>

-----------------------------------------------------------------------------
(***************************************************************************)
(* complete_delivery.                                                      *)
(***************************************************************************)

\* Mutated: any attempt of the worker may complete the row.
OwnsByWorker(c) ==
  LET d == claim[c].event.delivery IN
  lines[d].status = "in_flight" /\ lines[d].owner = claim[c].worker

Owns(c) ==
  LET d == claim[c].event.delivery IN
  /\ lines[d].status = "in_flight"
  /\ lines[d].owner = claim[c].worker
  /\ lines[d].attempts = claim[c].attempt

Completed(c) ==
  [lines[claim[c].event.delivery] EXCEPT
     !.status = claim[c].outcome,
     !.owner = NoWorker,
     !.reference = IF claim[c].outcome = "delivered" THEN "sink" ELSE "none"]

\* Mutated: the lease is not cleared with the status.
CompleteLeased(c) ==
  LET d == claim[c].event.delivery IN
  /\ pc[c] = "replied" /\ prepared[HostOf[c]] # 0
  /\ Owns(c)
  /\ lines' = [lines EXCEPT ![d] = Completed(c)]
  /\ recorded' = recorded \cup {<<d, claim[c].attempt>>}
  /\ pc' = [pc EXCEPT ![c] = "idle"]
  /\ claim' = [claim EXCEPT ![c] = NoClaim]
  /\ UNCHANGED <<tables, expired, prepared, wire, accepted, sent, lost>>

Complete(c) ==
  LET d == claim[c].event.delivery IN
  /\ pc[c] = "replied" /\ prepared[HostOf[c]] # 0
  /\ Owns(c)
  /\ lines' = [lines EXCEPT ![d] = Completed(c)]
  /\ expired' = expired \ {d}
  /\ recorded' = recorded \cup {<<d, claim[c].attempt>>}
  /\ pc' = [pc EXCEPT ![c] = "idle"]
  /\ claim' = [claim EXCEPT ![c] = NoClaim]
  /\ UNCHANGED <<tables, prepared, wire, accepted, sent, lost>>

\* DeliveryNotFound, or the process was deactivated meanwhile (prepared fails): the
\* call ends in a runtime failure and the outcome is dropped.
CompleteDropped(c) ==
  /\ pc[c] = "replied"
  /\ prepared[HostOf[c]] = 0 \/ ~Owns(c)
  /\ pc' = [pc EXCEPT ![c] = "idle"]
  /\ claim' = [claim EXCEPT ![c] = NoClaim]
  /\ UNCHANGED <<tables, lines, expired, prepared, wire, accepted, sent, recorded, lost>>

-----------------------------------------------------------------------------
Next ==
  \/ \E n \in 1..MaxRevision, s \in Scopes : PutAccount(n, s)
  \/ \E p \in Periods : ClosePeriod(p)
  \/ \E r \in Requests : ResolveDelivery(r)
  \/ \E p \in Plugins : Activate(p) \/ Deactivate(p)
  \/ \E d \in Deliveries : LeaseExpires(d)
  \/ \E e \in wire : SinkAccepts(e)
  \/ \E c \in Calls : \/ \E w \in Workers, d \in Deliveries : ClaimNext(c, w, d)
                      \/ \E reply \in Replies : SinkReplies(c, reply)
                      \/ ClaimIdle(c) \/ Complete(c) \/ CompleteDropped(c) \/ Die(c)

Spec == Init /\ [][Next]_vars

-----------------------------------------------------------------------------
(***************************************************************************)
(* Properties.                                                             *)
(***************************************************************************)

\* Type invariant.
TypeOK ==
  /\ account \in [revision: 1..MaxRevision, scope: Scopes]
  /\ closedAt \in [Periods -> 0..MaxRevision]
  /\ lines \in [Deliveries -> Line]
  /\ expired \subseteq {d \in Deliveries : lines[d].status = "in_flight"}
  /\ commands \subseteq Requests
  /\ prepared \in [Plugins -> Limits \cup {0}]
  /\ pc \in [Calls -> {"idle", "publishing", "replied"}]
  /\ claim \in [Calls -> [worker: Workers, attempt: 1..Highest, event: Event,
                          outcome: Outcomes \cup {"none"}] \cup {NoClaim}]
  /\ wire \subseteq sent /\ sent \subseteq Event
  /\ accepted \in [Deliveries -> Event \cup {NoEvent}]
  /\ recorded \subseteq Deliveries \X (1..Highest)
  /\ lost \in 0..MaxLost

\* The account may change between two attempts at one line, but an attempt never goes
\* back: it publishes the account as of the close or later, later attempts publish
\* later accounts, and attempts under one revision publish the same event, which the
\* provider recognises as a replay.
EventsFollowTheAccount ==
  \A e \in sent :
    /\ closedAt[PeriodOf[e.delivery]] \in 1..e.revision
    /\ \A f \in sent : e.delivery = f.delivery =>
         /\ e.attempt < f.attempt => e.revision <= f.revision
         /\ e.revision = f.revision => e.scope = f.scope
         /\ e.attempt = f.attempt => e = f

\* A line the sink is said to have delivered was accepted with exactly the payload of
\* the line's last attempt, although the provider may have taken up an earlier one.
DeliveredAsSent ==
  \A d \in Deliveries :
    lines[d].status = "delivered" /\ lines[d].reference = "sink" =>
      \E e \in sent : /\ e.delivery = d /\ e.attempt = lines[d].attempts
                      /\ accepted[d] # NoEvent
                      /\ SameEvent(e, accepted[d])

\* A failed line was charged all the same only if an attempt went unrecorded (its call
\* died, was overtaken or lost its process) or an administrator has decided on the line.
FailureIsKnown ==
  \A d \in Deliveries :
    lines[d].status = "failed" /\ accepted[d] # NoEvent =>
      \/ \E n \in 1..lines[d].attempts : <<d, n>> \notin recorded
      \/ \E r \in commands : r.delivery = d

\* What Delivery knows of all this; status reports are not modelled here.
Rows     == [d \in Deliveries |-> [status    |-> lines[d].status,
                                  attempts  |-> lines[d].attempts,
                                  reference |-> lines[d].reference]]
Charged  == {d \in Deliveries : accepted[d] # NoEvent}
Reported == [p \in Periods |-> IF closedAt[p] = 0 THEN "absent" ELSE "pending"]

Promise == INSTANCE Delivery WITH
  line <- Rows, charged <- Charged, resolved <- commands, reported <- Reported,
  MinAttempts <- Lowest, MaxAttempts <- Highest

\* With processes that disagree on the attempt limit, restart with another one and go
\* down between a reply and its record, and with events the provider takes up late, the
\* lines still live as Delivery says: given up after the lowest limit at the earliest,
\* tried as often as the highest allows, delivered only when accepted.
ImplementsDelivery == Promise!Spec
=============================================================================
