--------------------------- MODULE AccountPeriods ---------------------------
(***************************************************************************)
(* One billing account and its closed periods: put_account replaces the    *)
(* configuration under a compare-and-set revision, close_period reads that *)
(* configuration, reads the usage of each mapping and records the period.  *)
(* Several processes run both against the same PostgreSQL tables at READ   *)
(* COMMITTED, with the account's row lock (SELECT .. FOR UPDATE) between   *)
(* them.  One action is one SQL statement, or a statement with those after *)
(* it that no other transaction can tell from it.                          *)
(*                                                                         *)
(* Abstractions: the meter mappings and the quantities computed from them  *)
(* are the number of the revision that wrote the mapping rows; usage       *)
(* windows either answer or are rejected; a request is well formed and     *)
(* authorised (lib.rs checks both before any of this), and names the       *)
(* account under its organization.  The key of a request stands for        *)
(* (caller, actor, operation, idempotency_key).  A call that fails without *)
(* a domain error before its transaction ends, as it does when the usage   *)
(* meter cannot be reached, is one that dies.                              *)
(***************************************************************************)
EXTENDS Naturals, FiniteSets

CONSTANTS
  Putters,        \* put_account invocations that may be running at once
  Closers,        \* close_period invocations that may be running at once
  NoOne,          \* holder of the unlocked account row
  PutRequests,    \* [key, expected, active]
  CloseRequests,  \* [key, id, from, to, expected]
  Tick            \* instants of a request per unit of TIMESTAMPTZ

Actors   == Putters \cup Closers
Requests == PutRequests \cup CloseRequests

ASSUME ActorsAssumption == Putters \cap Closers = {} /\ NoOne \notin Actors

ASSUME PutAssumption ==
  \A r \in PutRequests :
    /\ DOMAIN r = {"key", "expected", "active"}
    /\ r.expected \in Nat /\ r.active \in BOOLEAN

\* close_period refuses an empty window and a revision that is not positive.
ASSUME CloseAssumption ==
  \A r \in CloseRequests :
    /\ DOMAIN r = {"key", "id", "from", "to", "expected"}
    /\ r.from \in Nat /\ r.to \in Nat /\ r.from < r.to
    /\ r.expected \in Nat \ {0}

ASSUME TickAssumption == Tick \in Nat \ {0}

VARIABLES
  account,   \* committed row of billing_accounts; revision 0: no such row
  mappings,  \* the revision whose mapping rows billing_meter_mappings holds
  periods,   \* committed rows of billing_periods, with what their lines came from
  commands,  \* committed rows of billing_commands, as the requests they answer
  locker,    \* the open transaction that holds the account row
  pc,
  request,   \* the request each invocation handles
  seen,      \* the AccountView a close_period invocation has read so far
  answer,    \* how the last request of each invocation ended
  repeated   \* whether that request's command was stored before the call began

vars == <<account, mappings, periods, commands, locker, pc, request, seen, answer, repeated>>

NoRequest == [key |-> "none"]
NoView    == [revision |-> 0, active |-> FALSE, mappings |-> 0]

Put(r)   == r \in PutRequests
Close(r) == r \in CloseRequests
Stored(r) == \E s \in commands : s.key = r.key

\* TIMESTAMPTZ keeps microseconds; the driver drops what is finer.
Stamp(t) == t \div Tick

-----------------------------------------------------------------------------
Init ==
  /\ account = [revision |-> 0, active |-> FALSE]
  /\ mappings = 0
  /\ periods = {}
  /\ commands = {}
  /\ locker = NoOne
  /\ pc = [x \in Actors |-> "idle"]
  /\ request = [x \in Actors |-> NoRequest]
  /\ seen = [x \in Closers |-> NoView]
  /\ answer = [x \in Actors |-> "none"]
  /\ repeated = [x \in Actors |-> FALSE]

\* x's call returns; a transaction still open is rolled back, which frees the row.
Return(x, how) ==
  /\ pc' = [pc EXCEPT ![x] = "idle"]
  /\ answer' = [answer EXCEPT ![x] = how]
  /\ request' = [request EXCEPT ![x] = NoRequest]
  /\ seen' = [y \in Closers |-> IF y = x THEN NoView ELSE seen[y]]
  /\ locker' = IF locker = x THEN NoOne ELSE locker
  /\ UNCHANGED repeated

Refuse(x, how) == Return(x, how) /\ UNCHANGED <<account, mappings, periods, commands>>

Goto(x, where) ==
  /\ pc' = [pc EXCEPT ![x] = where]
  /\ UNCHANGED <<request, answer, repeated>>

Begin(x, r, where) ==
  /\ pc[x] = "idle"
  /\ pc' = [pc EXCEPT ![x] = where]
  /\ request' = [request EXCEPT ![x] = r]
  /\ answer' = [answer EXCEPT ![x] = "none"]
  /\ repeated' = [repeated EXCEPT ![x] = r \in commands]
  /\ UNCHANGED <<account, mappings, periods, commands, locker, seen>>

\* replay: the stored response of this very request, or a key used for another one.
Replay(x) ==
  /\ Stored(request[x])
  /\ Refuse(x, IF request[x] \in commands THEN "replayed" ELSE "key_conflict")

-----------------------------------------------------------------------------
(***************************************************************************)
(* put_account: replay, SELECT .. FOR UPDATE, compare, write, store.       *)
(***************************************************************************)
PutBegin(x, r) == Begin(x, r, "put_replay")

\* Mutated: put_account compares before it looks for a replay.
PutReplayLate(x) ==
  /\ pc[x] = "put_replay"
  /\ \/ account.revision # request[x].expected /\ Refuse(x, "refused")
     \/ account.revision = request[x].expected /\ Replay(x)
     \/ /\ account.revision = request[x].expected /\ ~Stored(request[x])
        /\ Goto(x, "put_lock")
        /\ UNCHANGED <<account, mappings, periods, commands, locker, seen>>

PutReplay(x) ==
  /\ pc[x] = "put_replay"
  /\ \/ Replay(x)
     \/ /\ ~Stored(request[x])
        /\ Goto(x, "put_lock")
        /\ UNCHANGED <<account, mappings, periods, commands, locker, seen>>

\* Mutated: the revision is compared without FOR UPDATE.
PutLockShared(x) ==
  /\ pc[x] = "put_lock"
  /\ \/ /\ account.revision # request[x].expected
        /\ Refuse(x, "refused")
     \/ /\ account.revision = request[x].expected
        /\ Goto(x, IF account.revision > 0 THEN "put_store" ELSE "put_insert")
        /\ UNCHANGED <<account, mappings, periods, commands, locker, seen>>

\* Mutated: FOR UPDATE NOWAIT; an update that would have to wait is refused.
PutLockNoWait(x) ==
  /\ pc[x] = "put_lock"
  /\ \/ /\ account.revision # request[x].expected \/ locker # NoOne
        /\ Refuse(x, "refused")
     \/ /\ account.revision = request[x].expected /\ locker = NoOne
        /\ locker' = IF account.revision > 0 THEN x ELSE locker
        /\ Goto(x, IF account.revision > 0 THEN "put_store" ELSE "put_insert")
        /\ UNCHANGED <<account, mappings, periods, commands, seen>>

\* SELECT .. FOR UPDATE waits for the row and compares its revision.  A row that
\* does not exist yet is not locked: the insert comes after, in PutInsert.
PutLock(x) ==
  /\ pc[x] = "put_lock"
  /\ account.revision > 0 => locker = NoOne
  /\ \/ /\ account.revision # request[x].expected
        /\ Refuse(x, "refused")
     \/ /\ account.revision = request[x].expected
        /\ locker' = IF account.revision > 0 THEN x ELSE locker
        /\ Goto(x, IF account.revision > 0 THEN "put_store" ELSE "put_insert")
        /\ UNCHANGED <<account, mappings, periods, commands, seen>>

\* INSERT of the first revision waits for another insert of the same primary key,
\* and fails with a database error if that one committed.
PutInsert(x) ==
  /\ pc[x] = "put_insert"
  /\ locker = NoOne
  /\ \/ /\ account.revision > 0
        /\ Refuse(x, "error")
     \/ /\ account.revision = 0
        /\ locker' = x
        /\ Goto(x, "put_store")
        /\ UNCHANGED <<account, mappings, periods, commands, seen>>

\* The rest of the transaction is private until its commit: revision + 1, all the
\* mappings deleted and inserted again, the response stored under the key.
PutStore(x) ==
  /\ pc[x] = "put_store"
  /\ \/ /\ ~Stored(request[x])
        /\ account' = [revision |-> account.revision + 1, active |-> request[x].active]
        /\ mappings' = account.revision + 1
        /\ commands' = commands \cup {request[x]}
        /\ Return(x, "done")
        /\ UNCHANGED periods
     \/ /\ Stored(request[x])
        /\ Refuse(x, "error")

-----------------------------------------------------------------------------
(***************************************************************************)
(* close_period: lib.rs reads the account and the usage first, and only    *)
(* then enters the transaction of storage.rs that looks for a replay.      *)
(***************************************************************************)
CloseBegin(x, r) == Begin(x, r, "close_account")

\* load_account_tx is two statements, so two snapshots: the row, then the mappings.
CloseAccount(x) ==
  /\ pc[x] = "close_account"
  /\ \/ /\ account.revision = 0
        /\ Refuse(x, "refused")
     \/ /\ account.revision > 0
        /\ seen' = [seen EXCEPT ![x].revision = account.revision,
                                ![x].active = account.active]
        /\ Goto(x, "close_mappings")
        /\ UNCHANGED <<account, mappings, periods, commands, locker>>

CloseMappings(x) ==
  /\ pc[x] = "close_mappings"
  /\ \/ /\ ~seen[x].active \/ seen[x].revision # request[x].expected
        /\ Refuse(x, "refused")
     \/ /\ seen[x].active /\ seen[x].revision = request[x].expected
        /\ seen' = [seen EXCEPT ![x].mappings = mappings]
        /\ Goto(x, "close_usage")
        /\ UNCHANGED <<account, mappings, periods, commands, locker>>

\* One read_usage_window per mapping; the usage meter may reject any of them.
CloseUsage(x) ==
  /\ pc[x] = "close_usage"
  /\ \/ Refuse(x, "source_rejected")
     \/ /\ Goto(x, "close_replay")
        /\ UNCHANGED <<account, mappings, periods, commands, locker, seen>>

\* Mutated: close_period looks for the key only when it stores its own command.
CloseReplayDropped(x) ==
  /\ pc[x] = "close_replay"
  /\ Goto(x, "close_lock")
  /\ UNCHANGED <<account, mappings, periods, commands, locker, seen>>

CloseReplay(x) ==
  /\ pc[x] = "close_replay"
  /\ \/ Replay(x)
     \/ /\ ~Stored(request[x])
        /\ Goto(x, "close_lock")
        /\ UNCHANGED <<account, mappings, periods, commands, locker, seen>>

\* Mutated: what was read before the lock is trusted.
CloseLockUnchecked(x) ==
  /\ pc[x] = "close_lock"
  /\ locker = NoOne
  /\ locker' = x
  /\ Goto(x, "close_overlap")
  /\ UNCHANGED <<account, mappings, periods, commands, seen>>

\* Mutated: the account is read without FOR UPDATE.
CloseLockShared(x) ==
  /\ pc[x] = "close_lock"
  /\ \/ /\ ~account.active \/ account.revision # request[x].expected
        /\ Refuse(x, "refused")
     \/ /\ account.active /\ account.revision = request[x].expected
        /\ Goto(x, "close_overlap")
        /\ UNCHANGED <<account, mappings, periods, commands, locker, seen>>

\* SELECT .. FOR UPDATE of the account, then its status and revision once more.
CloseLock(x) ==
  /\ pc[x] = "close_lock"
  /\ locker = NoOne
  /\ \/ /\ ~account.active \/ account.revision # request[x].expected
        /\ Refuse(x, "refused")
     \/ /\ account.active /\ account.revision = request[x].expected
        /\ locker' = x
        /\ Goto(x, "close_overlap")
        /\ UNCHANGED <<account, mappings, periods, commands, seen>>

\* period_start < $3 AND period_end > $2, on the stored timestamps.
Overlaps(p, r) == Stamp(p.from) < Stamp(r.to) /\ Stamp(p.to) > Stamp(r.from)

CloseOverlap(x) ==
  /\ pc[x] = "close_overlap"
  /\ \/ /\ \E p \in periods : Overlaps(p, request[x])
        /\ Refuse(x, "refused")
     \/ /\ \A p \in periods : ~Overlaps(p, request[x])
        /\ Goto(x, "close_store")
        /\ UNCHANGED <<account, mappings, periods, commands, locker, seen>>

\* The CHECK and the keys of billing_periods, in the order PostgreSQL applies them.
EmptyWhenStored(r) == Stamp(r.to) <= Stamp(r.from)
PeriodRowConflicts(r) ==
  \E p \in periods : \/ p.id = r.id
                     \/ Stamp(p.from) = Stamp(r.from) /\ Stamp(p.to) = Stamp(r.to)

\* Mutated: store_command does nothing when the key is taken.
KeyIsFreeAlways(r) == TRUE

\* The primary key of billing_commands.
KeyIsFree(r) == ~Stored(r)

\* The period with the revision of the locked row, and lines computed from the view
\* read before; the response stored under the key; COMMIT.
CloseStore(x) ==
  LET r == request[x] IN
  /\ pc[x] = "close_store"
  /\ \/ /\ EmptyWhenStored(r)
        /\ Refuse(x, "error")
     \/ /\ ~EmptyWhenStored(r) /\ PeriodRowConflicts(r)
        /\ Refuse(x, "refused")
     \/ /\ ~EmptyWhenStored(r) /\ ~PeriodRowConflicts(r) /\ ~KeyIsFree(r)
        /\ Refuse(x, "error")
     \/ /\ ~EmptyWhenStored(r) /\ ~PeriodRowConflicts(r) /\ KeyIsFree(r)
        /\ periods' = periods \cup
             {[id |-> r.id, from |-> r.from, to |-> r.to, key |-> r.key,
               revision |-> account.revision, lines |-> seen[x].mappings]}
        /\ commands' = commands \cup {r}
        /\ Return(x, "done")
        /\ UNCHANGED <<account, mappings>>

-----------------------------------------------------------------------------
\* A running call dies or is cancelled; its transaction is rolled back.
Die(x) == pc[x] # "idle" /\ Refuse(x, "none")

Putting(x) == PutReplay(x) \/ PutLock(x) \/ PutInsert(x) \/ PutStore(x)
Closing(x) == CloseAccount(x) \/ CloseMappings(x) \/ CloseUsage(x) \/ CloseReplay(x)
                \/ CloseLock(x) \/ CloseOverlap(x) \/ CloseStore(x)

Next ==
  \/ \E x \in Putters : Putting(x) \/ \E r \in PutRequests : PutBegin(x, r)
  \/ \E x \in Closers : Closing(x) \/ \E r \in CloseRequests : CloseBegin(x, r)
  \/ \E x \in Actors : Die(x)

Spec == Init /\ [][Next]_vars

-----------------------------------------------------------------------------
(***************************************************************************)
(* Properties.                                                             *)
(***************************************************************************)
PutSteps   == {"put_replay", "put_lock", "put_insert", "put_store"}
CloseSteps == {"close_account", "close_mappings", "close_usage", "close_replay",
               "close_lock", "close_overlap", "close_store"}
Answers    == {"none", "done", "replayed", "key_conflict", "refused",
               "source_rejected", "error"}
Period(p)  ==
  /\ DOMAIN p = {"id", "from", "to", "key", "revision", "lines"}
  /\ \E r \in CloseRequests : /\ p.id = r.id /\ p.key = r.key
                              /\ p.from = r.from /\ p.to = r.to
  /\ p.revision \in Nat \ {0} /\ p.lines \in Nat

\* Type invariant, with the lock held exactly by the transactions that are past it.
TypeOK ==
  /\ account \in [revision: Nat, active: BOOLEAN]
  /\ mappings \in Nat
  /\ \A p \in periods : Period(p)
  /\ commands \subseteq Requests
  /\ pc \in [Actors -> {"idle"} \cup PutSteps \cup CloseSteps]
  /\ request \in [Actors -> Requests \cup {NoRequest}]
  /\ \A x \in Actors : request[x] \in IF pc[x] = "idle" THEN {NoRequest}
                         ELSE IF pc[x] \in PutSteps THEN PutRequests ELSE CloseRequests
  /\ seen \in [Closers -> [revision: Nat, active: BOOLEAN, mappings: Nat]]
  /\ answer \in [Actors -> Answers]
  /\ repeated \in [Actors -> BOOLEAN]
  /\ \A x \in Actors : locker = x <=> pc[x] \in {"put_store", "close_overlap", "close_store"}

\* The stored windows of the account's periods are disjoint: the overlap query runs
\* while the account row is held, so concurrent closes cannot miss each other.
NoStoredOverlap ==
  \A p, q \in periods : p = q \/ Stamp(p.to) <= Stamp(q.from) \/ Stamp(q.to) <= Stamp(p.from)

\* A period's lines come from the mappings of the one account revision it records,
\* however updates fell between the reads of close_period.
CoherentSnapshot == \A p \in periods : p.lines = p.revision

\* Every update was based on the revision it replaced: the committed put_account
\* commands expected 0, 1, .. one after the other, and no two of them the same.
EveryUpdateBuiltOnItsBase ==
  LET puts == {r \in commands : Put(r)} IN
  /\ {r.expected : r \in puts} = 0..(account.revision - 1)
  /\ Cardinality(puts) = account.revision

\* No period is closed on a revision that disabled the account.
PeriodsOnActiveRevisions ==
  \A p \in periods : \E r \in commands :
    Put(r) /\ r.expected + 1 = p.revision /\ r.active

\* Each stored close command stands for exactly one period and each period for one
\* command, also when duplicates of a request run concurrently.
OnePeriodPerCommand ==
  /\ \A r \in commands : Close(r) => Cardinality({p \in periods : p.key = r.key}) = 1
  /\ \A p \in periods : \E r \in commands : Close(r) /\ r.key = p.key

\* The tables and the calls, without transactions, locks and snapshots, behave like one
\* account on which every call takes effect in one step or not at all; put_account and
\* close_period implement BillingAccount.
Promise == INSTANCE BillingAccount

ImplementsAccount == Promise!Spec

\* Repeating a committed update returns its stored response, whatever has happened to
\* the account since.
RepeatedPutReplays ==
  \A x \in Putters : repeated[x] => answer[x] \in {"none", "replayed"}

\* How a call of close_period may end that changes nothing.
EndsUnchanged(x) ==
  /\ UNCHANGED <<account, mappings, periods, commands>>
  /\ \/ answer'[x] \in {"none", "replayed"}
     \/ answer'[x] = "refused" /\ account.revision > request[x].expected
     \/ /\ answer'[x] = "source_rejected"
        /\ pc[x] = "close_usage" /\ seen[x].revision = request[x].expected

\* Repeating a committed close changes nothing and, unless the call dies, ends in one of
\* three ways: answered from the stored response; refused, as the account has moved past
\* the revision that close was made at; or, with the account unmoved when it was read,
\* turned down by the usage meter, which is asked again before the response is looked for.
RepeatedCloseEnds ==
  [][\A x \in Closers :
       repeated[x] /\ pc[x] # "idle" /\ pc'[x] = "idle" => EndsUnchanged(x)]_vars

\* Repeating a committed close is never refused for what has become of the account.
RepeatedCloseReplays ==
  \A x \in Closers : repeated[x] => answer[x] # "refused"

\* The windows administrators asked for are disjoint.
NoOverlap ==
  \A p, q \in periods : p = q \/ p.to <= q.from \/ q.to <= p.from
=============================================================================
