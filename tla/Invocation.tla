----------------------------- MODULE Invocation -----------------------------
(***************************************************************************)
(* The way of one invocation through the plugin: from the caller, directly *)
(* or through the agent tools, past the caller lists, the assertion, the   *)
(* membership and the permission, to the database and the dependencies,    *)
(* and of the answer back over the wire.  Meanwhile memberships and grants *)
(* come and go, dependencies fail, the process is deactivated and          *)
(* activated again, and the caller may give up at any await.               *)
(*                                                                         *)
(* Simplifications:                                                        *)
(*  - one organization; what a request says is reduced to whether it       *)
(*    passes validation;                                                   *)
(*  - what the database holds is left open: a transaction may end in any   *)
(*    of the results its operation has.  DeliveryOutbox, AccountPeriods    *)
(*    and Reads say which, and when;                                       *)
(*  - the source windows of a close are read as one, list pages are one    *)
(*    transaction;                                                         *)
(*  - the kernel activates a plugin only once its deactivate has returned; *)
(*  - stored prices parse and responses serialize.                         *)
(* Grain of atomicity: what happens between two awaits.                    *)
(***************************************************************************)
EXTENDS Naturals, FiniteSets, Wire

CONSTANTS
  Calls,          \* invocations that may be running at once
  Instances,      \* plugin instances that may call
  AdminCallers,   \* configured admin_callers
  WorkerCallers,  \* configured worker_callers
  Tools,          \* the instance of the agent tools plugin
  Subjects,       \* authenticated subjects
  ClientCodes,    \* error codes of the contract version the callers were built with
  Used,           \* bound: the operations the callers use
  MaxActivations  \* bound: how often the process is activated

AdminOperations ==
  {"put_account", "get_account", "list_accounts", "close_period", "get_period",
   "list_periods", "inspect_delivery", "resolve_delivery"}
Operations == AdminOperations \cup {"reconcile_next"}

\* UsageBillingConfig::validate, as far as callers go.
ValidConfig ==
  /\ AdminCallers # {} /\ Cardinality(AdminCallers) <= 64
  /\ WorkerCallers # {} /\ Cardinality(WorkerCallers) <= 64

ASSUME ConfigAssumption ==
  /\ AdminCallers \subseteq Instances /\ WorkerCallers \subseteq Instances
  /\ Tools \in Instances
  /\ ValidConfig
  /\ ClientCodes \subseteq BillingCodes
  /\ Used \subseteq Operations /\ MaxActivations \in Nat

VARIABLES
  members,      \* subjects with an active membership
  grants,       \* <<subject, permission>> that access control allows
  pool,         \* the plugin's database pool
  activation,   \* how often the process has been activated
  at,           \* where each call is
  call,         \* what it asks for, and for whom
  handle,       \* the activation whose pool the call has taken; 0: none
  answer,       \* the plugin's answer
  received,     \* the answer as the caller receives it
  delivery,     \* reconcile_next: what the sink said, and what was recorded
  held,         \* history: needed authority that was there at some moment of the call
  faulty,       \* history: a dependency has failed during the call
  wrote         \* history: the call has committed a change

authority == <<members, grants>>
process   == <<pool, activation>>
vars      == <<authority, process, at, call, handle, answer, received, delivery, held, faulty,
               wrote>>

NoCall  == [route |-> "none"]
Silence == [kind |-> "none"]
Ok(what)  == [kind |-> "ok", code |-> what]
Domain(e) == [kind |-> "domain", error |-> e]
Runtime   == [kind |-> "runtime"]

Init ==
  /\ members = {} /\ grants = {}
  /\ pool = "none" /\ activation = 0
  /\ at = [c \in Calls |-> "idle"]
  /\ call = [c \in Calls |-> NoCall]
  /\ handle = [c \in Calls |-> 0]
  /\ answer = [c \in Calls |-> Silence]
  /\ received = [c \in Calls |-> Silence]
  /\ delivery = [c \in Calls |-> [said |-> [kind |-> "nothing"], recorded |-> "nothing"]]
  /\ held = [c \in Calls |-> {}]
  /\ faulty = [c \in Calls |-> FALSE]
  /\ wrote = [c \in Calls |-> FALSE]

\* The permission an operation asks for.
PermissionOf(op) ==
  CASE op = "put_account"      -> "billing.accounts.write"
    [] op = "close_period"     -> "billing.periods.close"
    [] op = "resolve_delivery" -> "billing.deliveries.resolve"
    [] OTHER                   -> "billing.accounts.read"

Permissions == {PermissionOf(op) : op \in AdminOperations}

Goto(c, where) == at' = [at EXCEPT ![c] = where]

\* The plugin answers; nothing else changes.
Answer(c, a) == Goto(c, "answered") /\ answer' = [answer EXCEPT ![c] = a]

\* A dependency's answer is no answer: the call ends in a runtime failure.
Fails(c) == Answer(c, Runtime) /\ faulty' = [faulty EXCEPT ![c] = TRUE]

-----------------------------------------------------------------------------
(***************************************************************************)
(* Memberships and grants change at any time.                              *)
(***************************************************************************)
Running == {c \in Calls : at[c] \notin {"idle", "done"}}

\* What a call of the operation needs: "member" stands for an active membership.
Needed(op) == IF op \in AdminOperations THEN {"member", PermissionOf(op)} ELSE {}

Witness(s, fact) ==
  held' = [c \in Calls |->
             IF c \in Running /\ call[c].subject = s THEN held[c] \cup (Needed(call[c].op) \cap {fact})
                                                     ELSE held[c]]

Join(s) ==
  /\ members' = members \cup {s}
  /\ Witness(s, "member")
  /\ UNCHANGED <<grants, process, at, call, handle, answer, received, delivery, faulty, wrote>>

Leave(s) ==
  /\ members' = members \ {s}
  /\ UNCHANGED <<grants, process, at, call, handle, answer, received, delivery, held, faulty,
                 wrote>>

Grant(s, p) ==
  /\ grants' = grants \cup {<<s, p>>}
  /\ Witness(s, p)
  /\ UNCHANGED <<members, process, at, call, handle, answer, received, delivery, faulty, wrote>>

Revoke(s, p) ==
  /\ grants' = grants \ {<<s, p>>}
  /\ UNCHANGED <<members, process, at, call, handle, answer, received, delivery, held, faulty,
                 wrote>>

-----------------------------------------------------------------------------
(***************************************************************************)
(* Lifecycle.  activate stores a new pool once the secret is resolved and  *)
(* the schema is prepared; deactivate takes it away at once and returns    *)
(* when the pool is closed, which is when its last connection is back.     *)
(***************************************************************************)
Activate ==
  /\ pool = "none" /\ activation < MaxActivations
  /\ pool' = "open" /\ activation' = activation + 1
  /\ UNCHANGED <<authority, at, call, handle, answer, received, delivery, held, faulty, wrote>>

\* Mutated: the pool is dropped, not closed.
DeactivateAtOnce ==
  /\ pool = "open"
  /\ pool' = "none"
  /\ UNCHANGED <<authority, activation, at, call, handle, answer, received, delivery, held,
                 faulty, wrote>>

Deactivate ==
  /\ pool = "open"
  /\ pool' = "closing"
  /\ UNCHANGED <<authority, activation, at, call, handle, answer, received, delivery, held,
                 faulty, wrote>>

InTransaction(c) == at[c] \in {"transaction", "closing_period", "recording"}

Deactivated ==
  /\ pool = "closing" /\ \A c \in Calls : ~InTransaction(c)
  /\ pool' = "none"
  /\ UNCHANGED <<authority, activation, at, call, handle, answer, received, delivery, held,
                 faulty, wrote>>

CanBegin(c) == pool = "open" /\ handle[c] = activation

\* prepared(): the call takes the pool there is and goes on, or ends.
Prepared(c, where) ==
  \/ /\ pool = "open"
     /\ handle' = [handle EXCEPT ![c] = activation] /\ Goto(c, where)
     /\ UNCHANGED answer
  \/ /\ pool # "open"
     /\ Answer(c, Runtime) /\ UNCHANGED handle

\* begin: a connection of the pool the call has taken, if that has not been closed.
Begin(c) ==
  /\ \/ at[c] = "begin" /\ CanBegin(c) /\ Goto(c, "transaction") /\ UNCHANGED answer
     \/ at[c] = "begin_close" /\ CanBegin(c) /\ Goto(c, "closing_period") /\ UNCHANGED answer
     \/ at[c] = "begin_record" /\ CanBegin(c) /\ Goto(c, "recording") /\ UNCHANGED answer
     \/ /\ at[c] \in {"begin", "begin_close", "begin_record"} /\ ~CanBegin(c)
        /\ Answer(c, Runtime)
  /\ UNCHANGED <<authority, process, call, handle, received, delivery, held, faulty, wrote>>

-----------------------------------------------------------------------------
(***************************************************************************)
(* Callers.  The context carries the caller's instance and, perhaps, an    *)
(* assertion of the subject, for this or another operation; the agent      *)
(* tools pass the context of their caller on, under their own instance.    *)
(***************************************************************************)
Requests(route, callers, ops) ==
  [route: {route}, op: ops \cap Used, caller: callers, subject: Subjects,
   assertion: {"none", "this", "other"}, valid: BOOLEAN]

\* Authority that is there when the call begins counts, too.
Now(s) == (IF s \in members THEN {"member"} ELSE {}) \cup {p \in Permissions : <<s, p>> \in grants}

Starts(c, r) ==
  /\ at[c] = "idle"
  /\ call' = [call EXCEPT ![c] = r]
  /\ held' = [held EXCEPT ![c] = Needed(r.op) \cap Now(r.subject)]
  /\ Goto(c, "called")

Call(c, r) ==
  /\ r \in Requests("direct", Instances, Operations)
  /\ Starts(c, r)
  /\ UNCHANGED <<authority, process, handle, answer, received, delivery, faulty, wrote>>

ToolOperations ==
  {"get_account", "list_accounts", "get_period", "list_periods", "inspect_delivery"}

\* execute: a tool's arguments become the request of its operation.
Execute(c, r) ==
  /\ r \in Requests("tool", {Tools}, ToolOperations)
  /\ Starts(c, r)
  /\ UNCHANGED <<authority, process, handle, answer, received, delivery, faulty, wrote>>

\* execute: no such tool, or arguments that are no request of its operation.
ExecuteRefused(c, error) ==
  /\ at[c] = "idle" /\ error \in {"not_found", "invalid_arguments"}
  /\ Goto(c, "done")
  /\ received' = [received EXCEPT ![c] = Domain(Known(error))]
  /\ UNCHANGED <<authority, process, call, handle, answer, delivery, held, faulty, wrote>>

-----------------------------------------------------------------------------
(***************************************************************************)
(* Management operations.                                                  *)
(***************************************************************************)

\* Mutated: an assertion for any operation will do.
EnterAsserted(c) ==
  /\ at[c] = "called" /\ call[c].op \in AdminOperations
  /\ \/ call[c].caller \notin AdminCallers /\ Answer(c, Domain(Known("forbidden")))
     \/ /\ call[c].caller \in AdminCallers /\ call[c].assertion = "none"
        /\ Answer(c, Domain(Known("unauthenticated")))
     \/ /\ call[c].caller \in AdminCallers /\ call[c].assertion # "none"
        /\ Goto(c, "membership") /\ UNCHANGED answer
  /\ UNCHANGED <<authority, process, call, handle, received, delivery, held, faulty, wrote>>

\* authorize_admin up to its first await: allowed_caller, authenticated_subject.
Enter(c) ==
  /\ at[c] = "called" /\ call[c].op \in AdminOperations
  /\ \/ call[c].caller \notin AdminCallers /\ Answer(c, Domain(Known("forbidden")))
     \/ /\ call[c].caller \in AdminCallers /\ call[c].assertion # "this"
        /\ Answer(c, Domain(Known("unauthenticated")))
     \/ /\ call[c].caller \in AdminCallers /\ call[c].assertion = "this"
        /\ Goto(c, "membership") /\ UNCHANGED answer
  /\ UNCHANGED <<authority, process, call, handle, received, delivery, held, faulty, wrote>>

\* Mutated: who cannot be asked about is let through.
CheckMembershipOpen(c) ==
  /\ at[c] = "membership"
  /\ \/ /\ call[c].subject \in members
        /\ Goto(c, "permission") /\ UNCHANGED <<answer, faulty>>
     \/ /\ call[c].subject \notin members
        /\ Answer(c, Domain(Known("forbidden"))) /\ UNCHANGED faulty
     \/ Goto(c, "permission") /\ faulty' = [faulty EXCEPT ![c] = TRUE] /\ UNCHANGED answer
  /\ UNCHANGED <<authority, process, call, handle, received, delivery, held, wrote>>

\* The membership plugin answers, or fails: a domain error is a failure, too.
CheckMembership(c) ==
  /\ at[c] = "membership"
  /\ \/ /\ call[c].subject \in members
        /\ Goto(c, "permission") /\ UNCHANGED <<answer, faulty>>
     \/ /\ call[c].subject \notin members
        /\ Answer(c, Domain(Known("forbidden"))) /\ UNCHANGED faulty
     \/ Fails(c)
  /\ UNCHANGED <<authority, process, call, handle, received, delivery, held, wrote>>

CheckPermission(c) ==
  /\ at[c] = "permission"
  /\ \/ /\ <<call[c].subject, PermissionOf(call[c].op)>> \in grants
        /\ Goto(c, "authorized") /\ UNCHANGED <<answer, faulty>>
     \/ /\ <<call[c].subject, PermissionOf(call[c].op)>> \notin grants
        /\ Answer(c, Domain(Known("forbidden"))) /\ UNCHANGED faulty
     \/ Fails(c)
  /\ UNCHANGED <<authority, process, call, handle, received, delivery, held, wrote>>

\* What every handler does between authorize_admin and its storage call: get_account is the
\* barest of them.
Handle(c) ==
  /\ at[c] = "authorized"
  /\ \/ ~call[c].valid /\ Answer(c, Domain(Known("invalid_request"))) /\ UNCHANGED handle
     \/ call[c].valid /\ Prepared(c, "begin")
  /\ UNCHANGED <<authority, process, call, received, delivery, held, faulty, wrote>>

Writes == {"put_account", "close_period", "resolve_delivery"}

\* The domain failures of the storage operations.
FailuresOf(op) ==
  CASE op = "put_account"      -> {"not_found", "revision_conflict", "idempotency_conflict"}
    [] op = "close_period"     -> {"not_found", "account_disabled", "revision_conflict",
                                   "period_conflict", "idempotency_conflict"}
    [] op = "resolve_delivery" -> {"delivery_not_found", "invalid_resolution",
                                   "idempotency_conflict"}
    [] op = "inspect_delivery" -> {"delivery_not_found"}
    [] OTHER                   -> {"not_found"}

\* Mutated: a commit that fails is told as a conflict.
TransactAssured(c) ==
  /\ \/ at[c] = "transaction" /\ call[c].op \in AdminOperations \ {"close_period"}
     \/ at[c] = "closing_period"
  /\ \/ Answer(c, Ok(call[c].op)) /\ wrote' = [wrote EXCEPT ![c] = call[c].op \in Writes]
     \/ Answer(c, Ok(call[c].op)) /\ UNCHANGED wrote
     \/ /\ \E f \in FailuresOf(call[c].op) : Answer(c, Domain(Known(f)))
        /\ UNCHANGED wrote
     \/ Answer(c, Domain(Known("not_found"))) /\ wrote' = [wrote EXCEPT ![c] = call[c].op \in Writes]
  /\ UNCHANGED <<authority, process, call, handle, received, delivery, held, faulty>>

\* The operation's transaction: it commits (a replay changes nothing), fails in the
\* domain and rolls back, or breaks, perhaps after its commit has gone through.
Transact(c) ==
  /\ \/ at[c] = "transaction" /\ call[c].op \in AdminOperations \ {"close_period"}
     \/ at[c] = "closing_period"
  /\ \/ Answer(c, Ok(call[c].op)) /\ wrote' = [wrote EXCEPT ![c] = call[c].op \in Writes]
     \/ Answer(c, Ok(call[c].op)) /\ UNCHANGED wrote
     \/ /\ \E f \in FailuresOf(call[c].op) : Answer(c, Domain(Known(f)))
        /\ UNCHANGED wrote
     \/ Answer(c, Runtime) /\ wrote' = [wrote EXCEPT ![c] = call[c].op \in Writes]
     \/ Answer(c, Runtime) /\ UNCHANGED wrote
  /\ UNCHANGED <<authority, process, call, handle, received, delivery, held, faulty>>

\* close_period reads the account first, ...
ReadAccount(c) ==
  /\ at[c] = "transaction" /\ call[c].op = "close_period"
  /\ \/ Goto(c, "source") /\ UNCHANGED answer
     \/ \E f \in {"not_found", "account_disabled", "revision_conflict"} :
          Answer(c, Domain(Known(f)))
     \/ Answer(c, Runtime)
  /\ UNCHANGED <<authority, process, call, handle, received, delivery, held, faulty, wrote>>

\* ... then the usage, whose refusals and unreadable quantities are domain errors here.
ReadSource(c) ==
  /\ at[c] = "source"
  /\ \/ Prepared(c, "begin_close") /\ UNCHANGED faulty
     \/ Answer(c, Domain(Known("source_rejected"))) /\ UNCHANGED <<handle, faulty>>
     \/ Fails(c) /\ UNCHANGED handle
  /\ UNCHANGED <<authority, process, call, received, delivery, held, wrote>>

-----------------------------------------------------------------------------
(***************************************************************************)
(* reconcile_next.                                                         *)
(***************************************************************************)
Nothing     == [kind |-> "nothing"]
Accepted    == [kind |-> "accepted"]
SinkFailure == [kind |-> "failure"]

\* The workers' list; a request is valid if it names its caller as the worker.
EnterWorker(c) ==
  /\ at[c] = "called" /\ call[c].op = "reconcile_next"
  /\ \/ /\ call[c].caller \notin WorkerCallers
        /\ Answer(c, Domain(Known("forbidden"))) /\ UNCHANGED handle
     \/ /\ call[c].caller \in WorkerCallers /\ ~call[c].valid
        /\ Answer(c, Domain(Known("invalid_request"))) /\ UNCHANGED handle
     \/ call[c].caller \in WorkerCallers /\ call[c].valid /\ Prepared(c, "begin")
  /\ UNCHANGED <<authority, process, call, received, delivery, held, faulty, wrote>>

\* claim_next_delivery: a line is claimed, or none is (but some may be given up).
Claim(c) ==
  /\ at[c] = "transaction" /\ call[c].op = "reconcile_next"
  /\ \/ Goto(c, "publish") /\ wrote' = [wrote EXCEPT ![c] = TRUE] /\ UNCHANGED answer
     \/ Answer(c, Ok("idle")) /\ \E b \in BOOLEAN : wrote' = [wrote EXCEPT ![c] = b]
     \/ Answer(c, Runtime) /\ \E b \in BOOLEAN : wrote' = [wrote EXCEPT ![c] = b]
  /\ UNCHANGED <<authority, process, call, handle, received, delivery, held, faulty>>

\* The sink accepts or replays, fails with an error of its contract, or not at all well.
Publish(c) ==
  /\ at[c] = "publish"
  /\ \E said \in {Accepted, SinkFailure} \cup SinkErrors :
       /\ delivery' = [delivery EXCEPT ![c].said = said]
       /\ faulty' = [faulty EXCEPT ![c] = @ \/ said = SinkFailure]
  /\ Prepared(c, "begin_record")
  /\ UNCHANGED <<authority, process, call, received, held, wrote>>

\* Mutated: after a runtime failure of the sink the line is to be tried again.
StatusOfRetried(said) ==
  CASE said.kind = "accepted" -> "delivered"
    [] said.kind = "failure"  -> "pending"
    [] OTHER                  -> SinkStatus(Received(said, SinkCodes))

\* The status to record for what the sink said.
StatusOf(said) ==
  CASE said.kind = "accepted" -> "delivered"
    [] said.kind = "failure"  -> "unknown"
    [] OTHER                  -> SinkStatus(Received(said, SinkCodes))

\* complete_delivery, and the answer; another's line, or a break, is a runtime failure.
Record(c) ==
  LET said == delivery[c].said IN
  /\ at[c] = "recording"
  /\ \/ /\ delivery' = [delivery EXCEPT ![c].recorded = StatusOf(said)]
        /\ \/ said # SinkFailure /\ Answer(c, Ok(StatusOf(said)))
           \/ Answer(c, Runtime)
     \/ Answer(c, Runtime) /\ UNCHANGED delivery
  /\ UNCHANGED <<authority, process, call, handle, received, held, faulty, wrote>>

-----------------------------------------------------------------------------
(***************************************************************************)
(* The way back.                                                           *)
(***************************************************************************)

\* What a caller, or the tools plugin, makes of the answer; execute turns it into a
\* result of the tool.
AnswerReceived(route, a) ==
  IF a.kind # "domain" THEN a
  ELSE IF route = "tool" THEN Domain(Known(ToolError(Received(a.error, ClientCodes))))
  ELSE Domain(Received(a.error, ClientCodes))

Return(c) ==
  /\ at[c] = "answered"
  /\ Goto(c, "done")
  /\ received' = [received EXCEPT ![c] = AnswerReceived(call[c].route, answer[c])]
  /\ UNCHANGED <<authority, process, call, handle, answer, delivery, held, faulty, wrote>>

Reset(c) ==
  /\ Goto(c, "idle")
  /\ call' = [call EXCEPT ![c] = NoCall]
  /\ handle' = [handle EXCEPT ![c] = 0]
  /\ answer' = [answer EXCEPT ![c] = Silence]
  /\ received' = [received EXCEPT ![c] = Silence]
  /\ delivery' = [delivery EXCEPT ![c] = [said |-> Nothing, recorded |-> "nothing"]]
  /\ held' = [held EXCEPT ![c] = {}]
  /\ faulty' = [faulty EXCEPT ![c] = FALSE]
  /\ wrote' = [wrote EXCEPT ![c] = FALSE]
  /\ UNCHANGED <<authority, process>>

Forget(c) == at[c] = "done" /\ Reset(c)

\* The caller gives up, or its deadline passes: the call is dropped where it waits.
Cancel(c) == at[c] \notin {"idle", "done"} /\ Reset(c)

Next ==
  \/ \E s \in Subjects : \/ Join(s) \/ Leave(s)
                         \/ \E p \in Permissions : Grant(s, p) \/ Revoke(s, p)
  \/ Activate \/ Deactivate \/ Deactivated
  \/ \E c \in Calls :
       \/ \E r \in Requests("direct", Instances, Operations) : Call(c, r)
       \/ \E r \in Requests("tool", {Tools}, ToolOperations) : Execute(c, r)
       \/ \E error \in {"not_found", "invalid_arguments"} : ExecuteRefused(c, error)
       \/ Enter(c) \/ CheckMembership(c) \/ CheckPermission(c) \/ Handle(c)
       \/ Begin(c) \/ Transact(c) \/ ReadAccount(c) \/ ReadSource(c)
       \/ EnterWorker(c) \/ Claim(c) \/ Publish(c) \/ Record(c)
       \/ Return(c) \/ Forget(c) \/ Cancel(c)

Spec == Init /\ [][Next]_vars

-----------------------------------------------------------------------------
(***************************************************************************)
(* Properties.                                                             *)
(***************************************************************************)

Answers(errors) == [kind: {"ok"}, code: Operations \cup {"idle", "delivered", "failed", "unknown"}]
                   \cup [kind: {"domain"}, error: errors] \cup {Silence, Runtime}

ToolErrors == {Known(k) : k \in {"not_found", "invalid_arguments", "permission_denied",
                                 "execution_failed"}}

\* Type invariant.
TypeOK ==
  /\ members \subseteq Subjects /\ grants \subseteq Subjects \X Permissions
  /\ pool \in {"none", "open", "closing"} /\ activation \in 0..MaxActivations
  /\ at \in [Calls -> {"idle", "called", "membership", "permission", "authorized", "begin",
                       "transaction", "source", "begin_close", "closing_period", "publish",
                       "begin_record", "recording", "answered", "done"}]
  /\ call \in [Calls -> Requests("direct", Instances, Operations)
                        \cup Requests("tool", {Tools}, ToolOperations) \cup {NoCall}]
  /\ handle \in [Calls -> 0..activation]
  /\ answer \in [Calls -> Answers({Known(k) : k \in BillingCodes})]
  /\ received \in [Calls -> Answers(BillingErrors \cup ToolErrors)]
  /\ delivery \in [Calls -> [said: {Nothing, Accepted, SinkFailure} \cup SinkErrors,
                             recorded: {"nothing", "delivered", "failed", "unknown"}]]
  /\ held \in [Calls -> SUBSET (Permissions \cup {"member"})]
  /\ faulty \in [Calls -> BOOLEAN] /\ wrote \in [Calls -> BOOLEAN]

\* Whether the call has come to the database, a dependency other than those that are
\* asked for authority, or an answer that tells what is there.
Learned(c) ==
  \/ handle[c] # 0
  \/ answer[c].kind = "ok"
  \/ answer[c].kind = "domain" /\ answer[c].error.code \notin {"forbidden", "unauthenticated"}

\* Only an admin caller with an assertion for exactly this operation gets past the
\* authorization, and both the membership and the operation's permission were there at
\* some moment since the call began, though perhaps not at the same one and not any
\* more; only a worker caller drains deliveries.
AuthorityIsWitnessed ==
  \A c \in Calls : Learned(c) =>
    IF call[c].op = "reconcile_next" THEN call[c].caller \in WorkerCallers
    ELSE /\ call[c].caller \in AdminCallers /\ call[c].assertion = "this"
         /\ {"member", PermissionOf(call[c].op)} \subseteq held[c]

\* A domain error means that the call has changed nothing: whatever may have gone
\* through is told as a runtime failure, which the caller retries with the same key.
DomainErrorsChangeNothing ==
  \A c \in Calls : answer[c].kind = "domain" => ~wrote[c]

\* The failure of a dependency never becomes a success.
FailuresAreNoSuccess ==
  \A c \in Calls : answer[c].kind = "ok" => ~faulty[c]

\* A line is recorded failed only for one of the sink's definite refusals, delivered only
\* if the sink said so, and what reconcile_next reports is what it recorded; errors of
\* newer sinks and errors a sink passes on leave the line unknown.
RecordsAreTheSinks ==
  \A c \in Calls :
    LET said == delivery[c].said IN
    /\ delivery[c].recorded = "delivered" => said = Accepted
    /\ delivery[c].recorded = "failed" =>
         said \in {Known(k) : k \in SinkCodes \ {"effect_unknown", "idempotency_conflict"}}
    /\ answer[c].kind = "ok" /\ said # Nothing => answer[c].code = delivery[c].recorded

\* Once deactivate has returned, no transaction of the process is under way, and none
\* runs on the pool of an earlier activation.
QuietWhenInactive ==
  \A c \in Calls : InTransaction(c) => pool # "none" /\ handle[c] = activation

\* An answer arrives as it was given, whichever contract version the caller was built
\* with: its code survives, the tools report a missing permission or item only if the
\* plugin did, and succeed only if the plugin did; no tool changes anything.
AnswersArrive ==
  \A c \in Calls : at[c] = "done" /\ answer[c] # Silence =>
    /\ received[c].kind = answer[c].kind
    /\ answer[c].kind = "domain" =>
         IF call[c].route = "direct" THEN received[c].error.code = answer[c].error.code
         ELSE /\ received[c].error = Known("permission_denied") =>
                   answer[c].error.code \in {"forbidden", "unauthenticated"}
              /\ received[c].error = Known("not_found") =>
                   answer[c].error.code \in {"not_found", "delivery_not_found"}
    /\ call[c].route = "tool" => ~wrote[c]
=============================================================================
