------------------------------- MODULE Reads -------------------------------
(***************************************************************************)
(* Reading while others write: get_account, list_accounts, get_period and  *)
(* list_periods, as one client uses them, on a database at READ COMMITTED. *)
(* Every statement sees what is committed when it starts: a view made of   *)
(* two statements mixes two moments, and a walk over the pages of a list   *)
(* mixes many.                                                             *)
(*                                                                         *)
(* The writers are given by what they promise: lines, reports and          *)
(* resolutions move as in module Delivery, which DeliveryOutbox is proved  *)
(* to implement; accounts are put at the next revision.  So what holds     *)
(* here holds next to the real writers.  Readers write nothing: one client *)
(* stands for any number.                                                  *)
(*                                                                         *)
(* Simplifications: one organization; identifiers are numbers, in the      *)
(* order of the database; the mappings of an account are known by the      *)
(* revision that stored them.  Grain of atomicity: one SQL statement.      *)
(***************************************************************************)
EXTENDS Naturals, Sequences, FiniteSets

CONSTANTS
  Accounts,     \* account ids
  Periods,      \* period ids
  Deliveries,   \* delivery ids
  PeriodOf,     \* the period of each line
  Requests,     \* resolutions administrators may ask for
  MinAttempts,  \* see Delivery
  MaxAttempts,
  MaxRevision,  \* bound: how often an account is put
  PageSizes     \* limits the client asks for: 1..MAX_PAGE_SIZE

ASSUME IdsAssumption ==
  /\ Accounts \subseteq Nat \ {0} /\ Periods \subseteq Nat \ {0}
  /\ IsFiniteSet(Accounts) /\ IsFiniteSet(Periods)
  /\ PeriodOf \in [Deliveries -> Periods]

ASSUME DecisionsAssumption ==
  \A r \in Requests : r.delivery \in Deliveries /\ r.resolution \in {"retry", "delivered", "failed"}

ASSUME SizesAssumption ==
  /\ PageSizes \subseteq 1..200 /\ PageSizes # {}
  /\ MaxRevision \in Nat

VARIABLES
  line, charged, resolved, reported,  \* the billing side: see Delivery
  accounts,     \* committed revision of each account and its mappings; 0: not stored
  at,           \* what the client's current call does next
  list,         \* the table it lists or reads from
  cursor,       \* where its current page starts; 0: at the beginning
  page,         \* listed rows of the page that are not read yet
  more,         \* whether there were more rows than the page holds
  item,         \* the item whose row has been read; 0: none
  got,          \* ids of the page's views, in order
  walk,         \* ids of all views of the pages received so far, in order
  since,        \* ids that were stored when the walk began
  account,      \* the last view, or the one in the making, if it is an account's
  period        \* ... and if it is a period's

billing == <<line, charged, resolved, reported>>
client  == <<at, list, cursor, page, more, item, got, walk, since>>
views   == <<account, period>>
vars    == <<billing, accounts, client, views>>

Billing == INSTANCE Delivery

Statuses  == {"absent", "pending", "in_flight", "delivered", "failed", "unknown"}
NoAccount == [id |-> 0, revision |-> 0, mappings |-> 0]
NoPeriod  == [id |-> 0, status |-> "absent", lines |-> [d \in Deliveries |-> "absent"]]

Init ==
  /\ Billing!Init
  /\ accounts = [a \in Accounts |-> 0]
  /\ at = "idle" /\ list = "none"
  /\ cursor = 0 /\ page = {} /\ more = FALSE /\ item = 0
  /\ got = <<>> /\ walk = <<>> /\ since = {}
  /\ account = NoAccount /\ period = NoPeriod

-----------------------------------------------------------------------------
(***************************************************************************)
(* Writers.                                                                *)
(***************************************************************************)
BillingCommit == Billing!Next /\ UNCHANGED <<accounts, client, views>>

\* put_account replaces the row and its mappings in one transaction.
PutAccount(a) ==
  /\ accounts[a] < MaxRevision
  /\ accounts' = [accounts EXCEPT ![a] = @ + 1]
  /\ UNCHANGED <<billing, client, views>>

-----------------------------------------------------------------------------
(***************************************************************************)
(* One item: the row, then its mappings or lines.                          *)
(***************************************************************************)
Stored(t) == IF t = "accounts" THEN {a \in Accounts : accounts[a] > 0}
                               ELSE {p \in Periods : reported[p] # "absent"}

\* Mutated: the children are read before their row.
ChildrenFirst == <<"children", "row">>

\* The order of the two statements behind a view.
Statements == <<"row", "children">>

\* What a statement adds to a view: revision and status are in the row, the mappings
\* and the lines are the children's rows, as committed by now.
AccountRead(v, a, s) == IF s = "row" THEN [v EXCEPT !.id = a, !.revision = accounts[a]]
                                     ELSE [v EXCEPT !.id = a, !.mappings = accounts[a]]

LinesOf(p) == [d \in Deliveries |-> IF PeriodOf[d] = p THEN line[d].status ELSE "absent"]

PeriodRead(v, p, s) == IF s = "row" THEN [v EXCEPT !.id = p, !.status = reported[p]]
                                    ELSE [v EXCEPT !.id = p, !.lines = LinesOf(p)]

\* The two statements on item i of table t.
Find(t, i) ==
  /\ account' = IF t = "accounts" THEN AccountRead(NoAccount, i, Statements[1]) ELSE NoAccount
  /\ period'  = IF t = "periods"  THEN PeriodRead(NoPeriod, i, Statements[1])   ELSE NoPeriod

Complete ==
  /\ account' = IF list = "accounts" THEN AccountRead(account, item, Statements[2]) ELSE NoAccount
  /\ period'  = IF list = "periods"  THEN PeriodRead(period, item, Statements[2])   ELSE NoPeriod

\* get_account, get_period: NotFound unless the item is stored.
Get(t, i) ==
  /\ at = "idle"
  /\ i \in Stored(t)
  /\ list' = t /\ Find(t, i)
  /\ at' = "get" /\ item' = i
  /\ UNCHANGED <<billing, accounts, cursor, page, more, got, walk, since>>

GetChildren ==
  /\ at = "get"
  /\ Complete
  /\ at' = "idle" /\ item' = 0
  /\ UNCHANGED <<billing, accounts, list, cursor, page, more, got, walk, since>>

-----------------------------------------------------------------------------
(***************************************************************************)
(* A walk over a list: pages of at most n items, asked for one after the   *)
(* other, each with the cursor the one before has returned.                *)
(***************************************************************************)
Least(ids)    == CHOOSE i \in ids : \A j \in ids : i <= j
First(n, ids) == {i \in ids : Cardinality({j \in ids : j < i}) < n}

BeginWalk(t) ==
  /\ at = "idle"
  /\ at' = "list" /\ list' = t
  /\ cursor' = 0 /\ walk' = <<>> /\ got' = <<>>
  /\ since' = Stored(t)
  /\ account' = NoAccount /\ period' = NoPeriod
  /\ UNCHANGED <<billing, accounts, page, more, item>>

After(i) == {j \in Stored(list) : j > i}

\* Mutated: the extra row is served, too.
ListPageWhole(n) ==
  /\ at = "list"
  /\ page' = First(n + 1, After(cursor))
  /\ more' = (Cardinality(First(n + 1, After(cursor))) > n)
  /\ at' = "items"
  /\ UNCHANGED <<billing, accounts, list, cursor, item, got, walk, since, views>>

\* One row more than the limit is asked for, to know whether it is the last page.
ListPage(n) ==
  /\ at = "list"
  /\ page' = First(n, After(cursor))
  /\ more' = (Cardinality(First(n + 1, After(cursor))) > n)
  /\ at' = "items"
  /\ UNCHANGED <<billing, accounts, list, cursor, item, got, walk, since, views>>

\* Every listed row is read again by get_account or get_period, in its own transaction.
ListedRow ==
  /\ at = "items" /\ page # {}
  /\ Least(page) \in Stored(list)
  /\ item' = Least(page) /\ Find(list, Least(page))
  /\ at' = "item"
  /\ UNCHANGED <<billing, accounts, list, cursor, page, more, got, walk, since>>

ListedChildren ==
  /\ at = "item"
  /\ Complete
  /\ got' = Append(got, item) /\ page' = page \ {item}
  /\ at' = "items" /\ item' = 0
  /\ UNCHANGED <<billing, accounts, list, cursor, more, walk, since>>

\* Mutated: the cursor is the id of the row that told that there is more.
PageReceivedBeyond ==
  /\ at = "items" /\ page = {}
  /\ walk' = walk \o got /\ got' = <<>>
  /\ cursor' = IF more THEN Least(After(got[Len(got)])) ELSE cursor
  /\ at' = IF more THEN "list" ELSE "walked"
  /\ more' = FALSE
  /\ UNCHANGED <<billing, accounts, list, page, item, since, views>>

\* The response, and its next_cursor: the last item's id, if there is more.
PageReceived ==
  /\ at = "items" /\ page = {}
  /\ walk' = walk \o got /\ got' = <<>>
  /\ cursor' = IF more THEN got[Len(got)] ELSE cursor
  /\ at' = IF more THEN "list" ELSE "walked"
  /\ more' = FALSE
  /\ UNCHANGED <<billing, accounts, list, page, item, since, views>>

\* A statement or the call fails half-way: nothing is returned, and the client asks
\* for the same page again.
PageLost ==
  /\ at \in {"items", "item"}
  /\ got' = <<>> /\ page' = {} /\ more' = FALSE /\ item' = 0
  /\ account' = NoAccount /\ period' = NoPeriod
  /\ at' = "list"
  /\ UNCHANGED <<billing, accounts, list, cursor, walk, since>>

EndWalk ==
  /\ at = "walked"
  /\ at' = "idle" /\ cursor' = 0 /\ walk' = <<>> /\ since' = {}
  /\ account' = NoAccount /\ period' = NoPeriod
  /\ UNCHANGED <<billing, accounts, list, page, more, item, got>>

Next ==
  \/ BillingCommit
  \/ \E a \in Accounts : PutAccount(a)
  \/ \E a \in Accounts : Get("accounts", a)
  \/ \E p \in Periods : Get("periods", p)
  \/ \E t \in {"accounts", "periods"} : BeginWalk(t)
  \/ \E n \in PageSizes : ListPage(n)
  \/ GetChildren \/ ListedRow \/ ListedChildren \/ PageReceived \/ PageLost \/ EndWalk

Spec == Init /\ [][Next]_vars

-----------------------------------------------------------------------------
(***************************************************************************)
(* Properties.                                                             *)
(***************************************************************************)

Ids == Accounts \cup Periods

\* Type invariant; a page holds no more items than the client has asked for.
TypeOK ==
  /\ accounts \in [Accounts -> 0..MaxRevision]
  /\ at \in {"idle", "get", "list", "items", "item", "walked"}
  /\ list \in {"none", "accounts", "periods"}
  /\ cursor \in Ids \cup {0} /\ page \subseteq Ids /\ since \subseteq Ids
  /\ more \in BOOLEAN
  /\ item \in Ids \cup {0}
  /\ \E n \in PageSizes : Cardinality(page) + Len(got) <= n
  /\ got \in Seq(Ids) /\ walk \in Seq(Ids)
  /\ account \in [id: Accounts \cup {0}, revision: 0..MaxRevision, mappings: 0..MaxRevision]
  /\ period \in [id: Periods \cup {0}, status: Statuses, lines: [Deliveries -> Statuses]]

\* The views the client holds: not the one whose second statement is still to come.
Held(t) == ~(list = t /\ at \in {"get", "item"})

\* A period view that says "delivered" shows delivered lines only, and every view of a
\* period shows all its lines, although its two statements see two moments.
PeriodViewsAreSound ==
  Held("periods") =>
    \A d \in Deliveries : PeriodOf[d] = period.id =>
      /\ period.lines[d] # "absent"
      /\ period.status = "delivered" => period.lines[d] = "delivered"

\* An account view may mix two revisions, but then its revision is not the current one:
\* who replaces the account or closes a period at the revision of a view, and is not
\* refused, has seen the mappings of exactly that revision.
CurrentViewsAreExact ==
  Held("accounts") /\ account.id # 0 /\ account.revision = accounts[account.id] =>
    account.mappings = account.revision

\* A finished walk has returned every row that was stored when it began, in order and
\* none twice, whatever was inserted meanwhile, however the page sizes changed and
\* however often a page had to be asked for again.
WalksAreComplete ==
  at = "walked" =>
    /\ since \subseteq {walk[i] : i \in DOMAIN walk}
    /\ \A i, j \in DOMAIN walk : i < j => walk[i] < walk[j]
=============================================================================
