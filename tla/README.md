# Verification of the usage-billing plugin

TLA+ models, TLC runs and TLAPS proofs for the Lenso usage-billing plugin: a
PostgreSQL backend that closes billing periods from usage windows and delivers
their lines to a billing-meter sink. Paths below are relative to the repository;
`storage.rs` and `lib.rs` are those of
`crates/lenso-usage-billing-postgres-plugin/src/`.

## 1. The system

All runtime state is in five tables (migration 001). Every plugin process is
stateless but for its connection pool, and several processes may share the
tables. Transactions run at PostgreSQL's default level, READ COMMITTED.

| Part | State | Operations |
|---|---|---|
| account | `billing_accounts`, `billing_meter_mappings` | `put_account` (CAS on the revision, replaces all mappings), `get_account`, `list_accounts` |
| periods | `billing_periods`, and the lines inserted with a period | `close_period` (reads account and usage, then one transaction), `get_period`, `list_periods` |
| outbox | `billing_period_lines` (status, attempts, lease, reference), `billing_periods.status` | `reconcile_next` = `claim_next_delivery`; publish; `complete_delivery`. `resolve_delivery`, `inspect_delivery`, and `refresh_period_status` inside the three writers |
| commands | `billing_commands` | `replay` at the start and `store_command` at the end of put, close and resolve |
| authorization | none | `authorize_admin` (caller, assertion, membership, permission), `allowed_caller` for workers |
| configuration, validation | `UsageBillingConfig` | `validate`, `validate_meters`, `valid_*` |
| amounts and errors | none | BigInt products, `stable_delivery_id`, `sink_failure`, `map_*` |
| lifecycle | `prepared` (the pool) | `activate`, `deactivate`, secret resolution |
| operator | schema, ledger | `setup`, `upgrade` (in `lenso_postgres_kit`, outside the repository) |
| agent tools | none | `catalog`, `execute`: five read-only tools |
| capability crates | none | generated types and clients |

How they interact: a Host worker calls `reconcile_next` again and again (there is
no scheduler inside); each call claims one line in a transaction, publishes it
outside any transaction, and completes it in a second transaction. Administrators
put accounts, close periods and resolve deliveries. The account's row lock orders
updates and closes; the line's row lock orders claims, completions and
resolutions; the period's row lock orders the refreshes.

What is hard:

- the publish happens between two transactions: leases run out, processes die,
  two calls may publish one line, and a late call must not overwrite a newer one;
- the outcome of a publish may be unknown; retry is an operator's decision;
- `refresh_period_status` aggregates many rows into one under READ COMMITTED, where
  a statement that waits keeps the snapshot it started with;
- `close_period` reads the account in two snapshots, then makes remote calls, and
  only then locks the account;
- requests are repeated, duplicated and run concurrently with themselves;
- the claim's payload is read from the account as it is then, processes may have
  different attempt limits, and the provider may take an event up after its call has
  gone;
- views and lists are made of several statements, each with a snapshot of its own;
- authority, the pool and the dependencies may change or fail at every await of a call,
  and errors travel between plugins built to different versions of a contract.

What makes each part correct: the account's revisions form a chain, each built on
the one before; a period comes from one revision, was closed on an active account
and overlaps no other; a command takes effect once; an attempt belongs to one call;
a line is delivered only if the sink accepted it or an administrator said so;
settled lines move only by a command; delivered lines never move; a period's
status is what its lines say; everything pending is eventually tried; attempts publish
what the account said, never going back; a view never claims too much and a walk over
pages misses nothing; nobody acts without authority, no failure becomes a success, and
an error means what its code says wherever it arrives.

## 2. Modules

| Module | Part of the system | A step is | Connected to |
|---|---|---|---|
| `Delivery` | what the outbox promises | a commit | implemented by the next two |
| `DeliveryOutbox` | claim, completion, resolution, refresh | an SQL statement | implements `Delivery` |
| `UsageBilling` | account, processes, outbox and provider together | a transaction, a reply | implements `Delivery` |
| `BillingAccount` | what `put_account` and `close_period` promise | a call's request, effect or end | implemented by the next |
| `AccountPeriods` | `put_account`, `close_period` | an SQL statement | implements `BillingAccount` |
| `Reads` | `get_*`, `list_*` | an SQL statement | its writers are `Delivery` |
| `Wire` | error codec, `sink_failure`, `map_error` | no steps | used by `Invocation` |
| `Invocation` | authorization, lifecycle, tools, the way of a call and its answer | what runs between two awaits | uses `Wire` |

**`Delivery`** is the committed life of the lines of closed periods, with no
transactions, locks, leases, workers or crashes: `Open` (a period and its lines
appear), `Try` and `GiveUp` (one commit may fail lines without an attempt left and try
another), `Accept` (the provider), `Conclude`, `Resolve`. `Report` says what may
happen to the stored statuses of periods in such a commit: anything but a "delivered"
that is not true. `DeliveryOutbox` and `UsageBilling` are shown to implement it, and
`Reads` uses its next-state relation for the writers.

**`DeliveryOutbox`** is the outbox, one action per SQL statement. A row has a
committed version (`lines`), a newest version (`written`) and a lock (`holder`); a
transaction sees its own versions and the committed ones of the others (`Seen`).
The same for the period rows. Calls of `reconcile_next` are `Calls`, calls of
`resolve_delivery` are `Resolvers`.

| Code | Actions |
|---|---|
| `close_period`, its commit | `ClosePeriod` |
| `claim_next_delivery` | `ClaimBegin` (exhausted UPDATE), `ClaimNext` (candidate, lease, commit), `ClaimIdle` |
| publish in `reconcile_next` | `SinkReply`: delivered, failed or unknown |
| `complete_delivery` | `CompleteBegin`, `CompleteLost` (no row matches worker and attempt), `CompleteCommit` |
| `refresh_period_status` | `RefreshRead` (the statement's snapshot), `RefreshWrite` (the period row) |
| `resolve_delivery` | `ResolveStart` (replay), `ResolveLock`, `ResolveRefuse`, `ResolveCommit`, `ResolveDuplicate` |
| death, cancellation, closed pool | `Die` (rollback; the sink may have accepted) |
| time | `LeaseExpires` |

`RefreshRead` and `RefreshWrite` are two actions because PostgreSQL, when an UPDATE
had to wait for a row, re-reads that row only and evaluates the subqueries of SET
at the snapshot the statement began with. Every other statement reads only the
rows it waits for, and is one action that starts when those rows are free.

Left out: the payload of a claim (see `UsageBilling`); `ORDER BY updated_at` (any
claimable line may be chosen); the partial locking of a multi-row UPDATE (the exhausted UPDATE takes its
rows at once; concurrent ones meet the same rows in the same scan order); the
refusal of a key used for another request, which changes nothing.

**`AccountPeriods`** is one account with its periods, again by statement:
`PutBegin`, `PutReplay`, `PutLock`, `PutInsert`, `PutStore` for `put_account`;
`CloseBegin`, `CloseAccount`, `CloseMappings` (the two snapshots of
`load_account_tx`), `CloseUsage`, `CloseReplay`, `CloseLock`, `CloseOverlap`,
`CloseStore` for `close_period`; `Die` for both. The mapping rows are the number of
the revision that wrote them, and so are a period's lines. Instants are numbers
and `Stamp` is the rounding of TIMESTAMPTZ. Workers and resolutions do not touch
this state.

**`BillingAccount`** is what the callers of these two operations may rely on: calls ask
(`Ask`), and each ends in one step that does all of its work (`Update`, `Close`) or none:
answered from the stored command (`Replay`), turned down (`TurnDownUpdate`,
`TurnDownClose`) or gone (`Vanish`). An update is turned down only for what the
tables hold at that moment; `Close` prices a period from the account as it is at that
moment, although the code has read it in two snapshots long before. It has no locks and
no transactions.

| `AccountPeriods` | `BillingAccount` |
|---|---|
| `PutBegin`, `CloseBegin` | `Ask` |
| `PutStore`, `CloseStore` that commit | `Update`, `Close` |
| `PutReplay`, `CloseReplay` that find the key | `Replay` |
| every other end of a call | `TurnDownUpdate`, `TurnDownClose`, `Vanish` |
| every other step | a stutter |

**`UsageBilling`** composes account, outbox, processes and provider at the grain of
transactions; what happens inside a transaction is the business of the two modules
above.

| Code | Actions |
|---|---|
| `put_account`, `close_period`, `resolve_delivery` | `PutAccount`, `ClosePeriod`, `ResolveDelivery` |
| `activate` with a configuration's attempt limit, `deactivate` | `Activate`, `Deactivate` |
| `claim_next_delivery` and the start of the publish | `ClaimNext` (with `EventOf`, the payload read from the account), `ClaimIdle` |
| the sink, from how `reconcile_next` uses it | `SinkAccepts` (perhaps after the call has gone), `SinkReplies` |
| `complete_delivery` | `Complete`, `CompleteDropped` (overtaken, or no pool any more) |
| death, time | `Die`, `LeaseExpires` |

The provider takes up an event at most once: an equal event is a replay, a different
one under the same id a conflict. Each process has its own limit, and takes another
one at every activation.

**`Reads`** is one client next to any writers. A view takes two statements: `Get` and
`GetChildren`, or `ListedRow` and `ListedChildren` inside a list. A walk is
`BeginWalk`, `ListPage` (limit + 1 ids beyond the cursor), the two reads of every
listed row, `PageReceived` (with the next cursor) and `EndWalk`; `PageLost` is a failure
or a lost response, after which the client asks for the same page again. Readers write
nothing, so one stands for all. Accounts are put without any check here, which allows
more than `put_account` does.

**`Wire`** is the codec of errors in the generated crates: a known error is a string, an
unknown one an object that keeps its code and payload, and what a reader makes of
either depends on the codes of its contract version. `SinkStatus` is `sink_failure`,
`ToolError` the tools' `map_error`. **`Invocation`** is the way of a call:

| Code | Actions |
|---|---|
| caller, directly or through the agent tools | `Call`; `Execute`, `ExecuteRefused` |
| `authorize_admin` | `Enter` (`allowed_caller`, `authenticated_subject`), `CheckMembership`, `CheckPermission` |
| validation, `prepared()` and the management operations | `Handle`, `Begin`, `Transact`; `ReadAccount` and `ReadSource` of `close_period` |
| `reconcile_next` | `EnterWorker`, `Claim`, `Publish`, `Record` |
| the answer, back through the codec and the tools | `Return`, `Forget` |
| a dropped call | `Cancel` |
| `activate`, `deactivate` | `Activate`, `Deactivate`, `Deactivated` (the pool is closed when its last connection is back) |
| other plugins | `Join`, `Leave`, `Grant`, `Revoke` |

A call keeps a clone of the pool it took (`handle`); a transaction can begin only on a
pool that has not been closed. `reconcile_next` takes the pool again after its publish,
and may then hold the one of a later activation. What a transaction finds in the
database is left open, since the other modules say so: it may end in every result its
operation has.

**`MCDeliveryOutbox`, `MCAccountPeriods`, `MCUsageBilling`, `MCReads`, `MCInvocation`**
give the instances for TLC. **`DeliveryOutboxProofs`, `DeliveryOutboxRefinement`,
`DeliveryOutboxPeriods`, `DeliveryOutboxFailures`, `AccountPeriodsProofs`,
`UsageBillingProofs`, `ReadsProofs`, `InvocationProofs`** hold the theorems.

A definition whose comment begins with "Mutated:" is not part of the model. It is a
plausible bug in the definition after it, kept to show that a property
can tell the difference.

## 3. Runs

| Run | Instance | Shows |
|---|---|---|
| `outbox_safety` | 2 calls, 2 administrators, 1 worker id, 2 lines of 1 period, 2 attempts, 1 death | types, claim generations, stale holders, billed deliveries, operators' rights, one change of a line per stored key, no period delivered early, no more stranded lines than deaths; it implements `Delivery` |
| `outbox_single_lines` | 2 calls, 1 administrator, 2 periods of 1 line, 1 attempt, 1 death, fair | no wait cycle over period rows when a claim fails rows of two periods, every handler returns, single-line periods show their line |
| `outbox_liveness` | 2 calls, 2 lines of 1 period, 2 attempts, 1 death, fair | pending lines are served, lost leases are taken over |
| `accounts` | 2 updates, 2 closes, 3 put requests, 5 close requests | revision chain, coherent and disjoint periods on active revisions, one period per command, updates replay, a repeated close changes nothing and replays unless the account moved on or the usage meter rejects it; it implements `BillingAccount` |
| `billing` | 1 line, 2 processes with limits of 1 or 3 and a call each, 2 account revisions, 2 scopes, a retry, a settlement, 1 death | attempts follow the account, deliveries were accepted as sent, failures are known; it implements `Delivery` |
| `reads` | 3 accounts of up to 2 revisions, 1 period of 2 lines with 1 attempt and a retry, pages of 1 or 2 | sound views, exact current views, complete walks |
| `invocation` | 1 call by an admin, a worker or the tools, 1 subject, 6 operations, 2 activations, callers with an older contract | witnessed authority, clean errors, failures are no success, records are the sink's, quiet deactivation, answers arrive |
| `outbox_period_race` | as `outbox_liveness`, no fairness | a counterexample: see 6.1 |
| `outbox_last_attempt` | 2 calls, 1 attempt, 1 death, fair | a counterexample: see 6.2 |
| `outbox_retry_refused` | 2 calls, 2 administrators | a counterexample: see 6.3 |
| `accounts_repeated_close` | 1 update, 1 close | a counterexample: see 6.4 |
| `accounts_fine_windows` | 1 update, 1 close, two windows | a counterexample: see 6.5 |

Deadlock is checked in every run: workers, clients and administrators may always call
again. `AuthorityIsWitnessed` keeps, in `held`, the authority that was there at some
moment of the call: two checks in sequence cannot promise that both held at once.

Bounds and why they are enough. Two calls of one worker id are what the attempt
generation exists for (the id alone cannot tell them apart), and every race in the
code is between two transactions over one line or one period row; a third call
could only repeat a step of the first two. Two attempts distinguish a first, a
repeated and a last attempt; one attempt makes the exhausted UPDATE fail rows of two
periods at once. Two lines give a period whose aggregate is neither line. The
resolutions of `Disputed` include two requests under one key and conflicting
answers for one line. The bounds on deaths (`MaxDeaths`) keep the state finite and,
for liveness, say that processes do not die for ever. The three put requests and
five close requests hold two competing updates, a disabling one, a reused key, a
reused id, an overlap and a window that is empty once stored.

In `billing`, limits of 1 and 3 make one process give up what the other goes on trying,
and a restart lower or raise the limit under a pending line; two revisions are an
account before and after a claim, and two scopes events that do and do not agree. Lines
share nothing there but the account. In `reads`, three accounts make a walk of first,
middle and last pages with an insertion before, inside and behind each, and two lines a
period status that is neither line's. In `invocation`, calls share no state but pool and
authority, which one call sees change at each of its places; the theorems of section 4
are about any number of calls. Its six operations are one with each permission, one whose
missing item has an error of its own, the close with its two pools, and the worker's;
the other three take the way of `get_account`. Two activations tell the pool a call has
taken from its successor, and the callers' contract lacks two codes for which the tools
have errors of their own.

The calls of one kind are interchangeable, which the safety runs of the outbox and the
account use as symmetry; no run with a liveness property uses it.

Fairness (`Fairness` in `DeliveryOutbox`): workers keep calling `reconcile_next`, as
README.md's "A Host worker must invoke `reconcile_next`" requires; a handler
that can take its next statement takes it; the sink answers or the call fails; time
passes. Weak fairness is enough, and nothing is assumed of administrators, closes
or deaths. `PendingIsServed` assumes no more than this, although `SKIP LOCKED` may
make one call answer Idle.

## 4. Proofs

Every invariant, every action property and every refinement that a passing run checks is
proved for all values of the constants; `PeriodReflectsLines`, which the code does not keep
in general (6.1), is proved for periods of one line, as the run that passes has them.

`DeliveryOutboxProofs` proves, for all finite or infinite sets of calls,
administrators, workers, lines, periods and requests and all attempt limits,
under the assumptions named in `DeliveryOutbox` (disjoint kinds of calls; every
period has a line, which `validate_meters` gives; at least one attempt, which
`validate` gives; well-formed requests):

- `TypeCorrect`: `Spec => []TypeOK`, with the lease CHECK of the table
  (a line has an owner exactly while it is in flight);
- `DeliveredPeriodsAreSound`: `Spec => []DeliveredPeriodSound`. The race of 6.1 can
  leave a status behind its lines, but "delivered" is never ahead of them.
- `DeliveredStays`: `Spec => DeliveredIsFinal`. No step of any actor changes a
  delivered line.

`DeliveredPeriodSound` is not inductive. A stored "delivered" is sound because what
was computed before was sound when it was computed *and* because delivered lines stay
delivered while it waits. So the inductive invariant `IInv` adds:

- `ControlInv`: what a call works on where it works on something;
- `RowsInv`: an unlocked row has one version; a locked row was neither absent nor
  delivered when locked, so no open transaction can take a delivered line back;
- `PeriodsInv`: the same for period rows; a line exists exactly with its period;
- `RefreshInv`: a refresh is owed only for rows the transaction holds;
- `SoundInv`: "delivered" is true of the committed lines where it is committed, and
  of the lines its transaction sees where it is written or only computed.

Most actions change the tables in one of a few ways (write, commit, lease, rollback,
insert, refresh). There is one lemma for each way, `NextKeepsTables` has one step per
action that cites them, `NextKeepsControl` and `NextKeepsTypes` do the rest, and
`Inductive` puts them together.

`DeliveryOutboxRefinement` builds on it:

| Theorem | Property |
|---|---|
| `GenerationsAreUnique` | `ClaimGenerations` |
| `Implementation` | `ImplementsDelivery` |
| `StaleHoldersAreHarmless` | `StaleHolderHarmless` |
| `OperatorsDecideSettledLines` | `SettledNeedsOperator` |
| `KeysTakeEffectOnce` | `ResolutionOnce` |
| `DeliveredIsBilled` | `DeliveredMeansBilled` |

`IInv` knows which rows can be locked, but a commit can only be shown to be a step of
`Delivery` by knowing who holds a row and what its new version says. `HoldInv` adds
this: a claim holds exhausted lines only, and fails them; a completion holds the line of
its claim while the line still has that generation; a resolution holds the line of its
request, settled as it found it. With it every commit maps to one action (a claim to `Try`
with the lines it gives up, an idle claim to `GiveUp`, a completion to `Conclude`, a
resolution to `Resolve`, `SinkReply` to `Accept`, a close to `Open`) and every other step to a
stutter; `SoundInv` gives what `Report` demands. `GenerationInv` (calls that claimed one
line with one generation are one call, and no claim is ahead of its line) makes a stale
holder harmless, and `DeliveredIsBilled` follows from the actions of `Delivery`, through
the refinement. `KeysTakeEffectOnce` is about the lines: the commit that stores a command
moves the one line it names, from a settled state to the one asked for, because by
`HoldInv` the resolution still holds that line as it found it and holds no other
(`ResolutionCommits`); nothing else stores a command (`OthersStoreNothing`), and no
claim or completion moves a settled line. With the primary key of `billing_commands` a
second request under the key, identical or not, can therefore not move a line again.

`DeliveryOutboxPeriods` is about the period rows. `WaitsEnd` is `NoLockWaitCycle` for any
number of transactions, lines and periods. By `LockInv`, a transaction that owes a refresh
or holds a period row holds a line; a completion or a resolution takes its one period row
with its last refresh, so only a claim can hold one row and wait for the next; the lines
this claim holds are exhausted, and another claim's exhausted UPDATE has to wait for them.
Hence two members of a cycle would be the same claim. `SingleLinesAreReflected` is
`PeriodReflectsLines` under the hypothesis `SingleLines` (no period has two lines): by
`MirrorInv` whoever holds the line has refreshed its period or will, and nobody else has
computed or written anything for it.

`DeliveryOutboxFailures` is about what goes wrong with a line, and how far:

| Theorem | Statement |
|---|---|
| `OnlyDeathsStrandLines` | `DeathsStrandLines`: never more lines in flight that no running call works on than calls have died |
| `LastAttemptsStayStranded` | such a line with no attempt left is never changed again by anybody, as long as the attempt limit is the same (6.2) |
| `FailuresAreDecidedOrRetried` | a failure that the sink did not announce and nobody confirmed is the claim of a line that somebody asked to retry (6.3 needs a retry) |
| `FailuresWithoutRetriesAreDecided` | `FailureIsDecided`, which 6.3 refutes, where no request asks for a retry |

The first follows one call from its claim: it goes on working on its attempt until it
concludes it, dies, or finds that a later attempt has replaced it, in which case the
line is that attempt's business (`WorkGoesOn`). By `OwnerInv` a call that works on the
present attempt of a line also has the worker id the line shows, so a completion that
matches no row strands nothing. What strands a line is then a `Die`, and it strands no
other (`StrandedInv` counts them). The other theorems come from `RowMoves`, the list of
what any step may do to a committed row; `RetryInv` says that a pending line that has
been tried has a stored retry.

`UsageBillingProofs` proves what the run `billing` checks: `TypeCorrect`,
`AttemptsFollowTheAccount`, `DeliveriesAreAsSent`, `FailuresAreKnown` and
`Implementation`, for all sets of processes, calls, lines and limits. The inductive
invariant `BInv` is: `PeriodInv` (a line exists exactly with its closed period), `SentInv`
(events have generations up to the line's attempts, of revisions up to the
account's), `EventsFollowTheAccount` itself, `ClaimInv` (what a call works on was sent, and
what it was answered is true of the provider), `ProviderInv` (accepted events were sent, and
an event taken up is not on the wire any more), `RecordInv` (a line nobody has decided on is
tried again only while none of its attempts is recorded, and a refused one has nothing
left with the provider) and `DeliveredAsSent`.

`ReadsProofs` proves what the run `reads` checks: `TypeCorrect`, `PeriodViewsHold`,
`AccountViewsHold`, `WalksHold`. `RInv` joins the types to four facts: `Billed` (in `Delivery`, a
period reported as delivered has delivered lines, and a line exists with its report),
`ViewInv` (a half-made view is at most as new as the rows, and a finished one has children
at least as new as its row), `WalkInv` (every row that was
there when the walk began and is not beyond the cursor has been returned) and `PageInv`
(the page being read and what has been read of it are the first rows beyond the cursor).
Each step of the writers is a step of `Delivery`, of which `Forward` is what readers need:
rows never disappear, and delivered lines stay. Together with `Implementation` this holds
next to the real writers. That a non-empty set of ids has a least one comes from the
library's theorem on well-founded orders, since an induction over the set is out of the
prover's reach.

`InvocationProofs` proves what the run `invocation` checks, for any number of
concurrent calls, callers, subjects, activations and contract versions:

| Theorem | Property |
|---|---|
| `TypeCorrect` | `TypeOK` |
| `AuthorizationComesFirst` | `AuthorityIsWitnessed` |
| `DomainErrorsAreClean` | `DomainErrorsChangeNothing` |
| `SuccessNeedsAnswers` | `FailuresAreNoSuccess` |
| `QuietOnceDeactivated` | `QuietWhenInactive` |
| `RecordsFollowTheSink` | `RecordsAreTheSinks` |
| `AnswersSurviveTheWire` | `AnswersArrive` |

`IInv` says for each call what has been decided by the place it is at: `Gates` (what has
been checked by then), `Outcomes` (what it may have written, recorded or been refused),
`Arrived` (what the caller receives); and of all together that authority a running call needs and that is there now has been
witnessed (`Current`), that no call holds a pool of the future (`TypeOK`), and that no
transaction runs on a closed pool (`QuietWhenInactive`).

`AccountPeriodsProofs` proves every property the run `accounts` checks, for all sets
of calls and requests and every precision of stored timestamps, under the assumptions
of `AccountPeriods` (disjoint kinds of calls, well-formed requests, a usage window that
is not empty and a positive revision, which `close_period` checks, and a positive
precision):

| Theorem | Property |
|---|---|
| `TypeCorrect` | `TypeOK`, with the account row held exactly by the calls past their lock |
| `UpdatesFormAChain` | `EveryUpdateBuiltOnItsBase` |
| `PeriodsAreCoherent` | `CoherentSnapshot` |
| `PeriodsAreDisjoint` | `NoStoredOverlap` |
| `ClosedWhileActive` | `PeriodsOnActiveRevisions` |
| `ClosesTakeEffectOnce` | `OnePeriodPerCommand` |
| `RepeatedPutsReplay` | `RepeatedPutReplays` |
| `RepeatedClosesReplayOrAreTurnedDown` | `RepeatedCloseEnds` |
| `Implementation` | `ImplementsAccount` |
| `WholeWindowsAreDisjoint` | `NoOverlap`, where windows are given in whole units of TIMESTAMPTZ |
| `OverlapsAreBelowATick` | in general, windows overlap by less than one unit |

The argument is the lock on the account row. Only its holder may be about to write
(`StepsOrWaits`), so what it read or compared under the lock still holds when it
writes: `PutInv` (the revision an update replaces), `FreeInv` (no stored period
overlaps the one about to be stored). What a close read *before* the lock is not
protected. `ViewInv` bounds it: the account's revision only grows (`Monotone`), so the
mappings it read lie between the revision it expected and the present one, and the
lock shows these two to be equal. `AccountInv` ties the account to the command that
wrote it, which carries "active" over to the period, and `ReplayInv` follows a repeated
update to its stored answer. `ChainInv` counts the stored updates, over `IInv`.

`Implementation` uses the same facts at the moment a call ends: by `PutInv` the update
still replaces the revision it compared, by `ViewInv` the mappings a close has read are
those of the account it locked, by `FreeInv` its window is apart from the closed ones;
an insert that loses the race for the first revision finds the revision of the winner.
`RepeatedClosesReplayOrAreTurnedDown` marks where 6.4 ends. Of what stands between a
repeated close and the look-up of its answer, the account's checks can only fail after a
later update, because the stored close expected a revision that exists and was active
(`StoredCloses`); the other obstacle is the usage meter, which is asked again and may
reject a window it once answered. `RepeatInv` says that a repeated close stops at the
look-up, so it never reaches the lock and changes nothing. The last two theorems are
`NoStoredOverlap` with the arithmetic of rounding down.

Only model-checked: what needs fairness (`PendingIsServed`, `LostLeaseIsRetried`,
`HandlersReturn`), since liveness and ENABLED are beyond the prover, and the
counterexamples of section 6.

## 5. Not modelled

- The kernel, whose code is not in the repository: it admits calls to the plugin (the
  generated default is one at a time with no queue,
  `crates/lenso-capability-usage-billing/src/generated.rs:16`) and may drop them. The
  models let several calls run, as several processes on one database do in any case.
- The predicates of validation over text (lengths, control characters, currencies, unique
  mappings) and the equality of request hashes: requests are valid or not, equal or not.
- The BigInt products of quantities and prices, and the derivation of delivery ids by
  SHA-256: exact arithmetic and a hash without collisions have no states.
- `accepted` in the sink's answer, which `reconcile_next` ignores (`lib.rs:548`): nothing
  in the repository says what a provider means by `false`. The models take an Ok answer
  for an accepted event.
- `inspect_delivery` beyond its way through `Invocation`: one statement on one row.
- Requests and responses of the generated crates are plain data; of their clients,
  the models have the dispatch, the error codec and the two kinds of failure.
- `setup` and `upgrade` of the operator (their code is in `lenso_postgres_kit`), the tools'
  constant `catalog`, scripts, build and release.
- Other accounts next to the one of `AccountPeriods` and `UsageBilling`. Accounts share
  the workers, the keys of `billing_periods` and the key of `billing_accounts` on
  organization, scope and subject: an update can fail on another account's triple, with a
  database error and without effect. A request that names the account under another
  organization is answered NotFound (`storage.rs:199`, `storage.rs:328`), also without
  effect; there is one organization in the models.
- Revisions are strings in requests and views, and `lib.rs:373` compares them as such;
  in the models they are numbers, so "01" and "1" do not differ.
- `ClosePeriod` of `UsageBilling` closes whether or not the account is active, which is
  more than the code allows; `AccountPeriods` has the check.
- Two conversions that cannot fail on what reaches them: the tools' serialization of a
  response (`crates/lenso-usage-billing-agent-tools-plugin/src/lib.rs:153`) and the unit
  price that `close_period` parses (`lib.rs:406`), which `validate_meters` has parsed
  before it was stored.
- The order of `activate` and `deactivate`: the kernel is taken not to activate a
  plugin while its `deactivate` waits for the pool to close.
- PostgreSQL failures other than lost connections, and the runtime failures of membership,
  access and usage meter: these are deaths in the outbox and account models, and in
  `Invocation` runtime failures, with the commit gone through or not.

## 6. Where the code and its documents part

1. **A period may stay behind its lines** (`PeriodReflectsLines`). Two calls complete
   the two lines of a period. The second refresh starts before the first commits,
   waits for the period row, and then writes the status of its own snapshot:
   "pending", with every line delivered and no later step to correct it. A period of one
   line cannot get there (`SingleLinesAreReflected`), and none is ahead of its lines
   (`DeliveredPeriodsAreSound`).
2. **A death on the last attempt is not concluded** (`AttemptsConclude`). The line stays
   in_flight: the claim wants an attempt left, the exhausted UPDATE a pending line, a
   resolution a failed or unknown one. `LastAttemptsStayStranded` proves that it stays so
   as long as the attempt limit is the same, `OnlyDeathsStrandLines` that nothing but a
   death brings it about. A process started with a higher `max_delivery_attempts` would
   claim it again (`UsageBilling` has such restarts); no operation of an administrator does.
3. **A retry may become a failure** (`FailureIsDecided`). The attempts are not reset by
   a retry, so a line that used them all is failed by the next claim. By
   `FailuresAreDecidedOrRetried` there is no other way to such a failure.
4. **A repeated close may be turned down** (`RepeatedCloseReplays`). `close_period` checks
   the account and asks the usage meter before it looks for the stored response, so the
   promise of README.md:34 is broken in two ways: an account that has been updated or
   disabled since refuses the repetition, as the run shows, and so does a usage meter that
   now rejects the window, with the account unmoved (`lib.rs:376-421`, SourceRejected;
   the action `CloseUsage`). `RepeatedCloseEnds` says that there is no third way and that
   neither changes anything. An update repeats correctly (`RepeatedPutReplays`).
5. **Windows may overlap by less than a microsecond** (`NoOverlap`), since the overlap
   query compares stored timestamps; the stored ones are disjoint
   (`NoStoredOverlap`), and so are all windows given in whole microseconds
   (`WholeWindowsAreDisjoint`).

## 7. What is left

- A theorem about the readers and the outbox composed: `ReadsProofs` and
  `Implementation` meet in `Delivery`, and only this document puts them together.
- An account in `UsageBilling` that implements `BillingAccount`: its updates and closes
  have no keys and no requests yet.
- Liveness of `UsageBilling`: that every line is settled if the limits agree and
  processes are activated again. `PendingIsServed` has it for one fixed limit.
- Pure operators against reference definitions: `validate_meters` and the totals of a
  period, should a property come to depend on them.
- Admission by the kernel, should its code join the repository.
