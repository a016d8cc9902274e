--------------------------- MODULE BillingAccount ---------------------------
(***************************************************************************)
(* What put_account and close_period promise their callers: one account    *)
(* and its closed periods on which every call takes effect in one step, or *)
(* not at all, between the moment it is asked for and its answer.          *)
(*                                                                         *)
(* There are no transactions, row locks or snapshots here: a close prices  *)
(* its period from the account it finds when it takes effect.  An update   *)
(* may be turned down only for a reason that is in the tables at that very *)
(* moment; a close may be refused at any time, because it depends on usage *)
(* windows and on an account read before.  AccountPeriods, one SQL         *)
(* statement per step, implements this module.                             *)
(***************************************************************************)
EXTENDS Naturals

CONSTANTS
  Actors,         \* calls that may be running at once
  PutRequests,    \* [key, expected, active]
  CloseRequests,  \* [key, id, from, to, expected]
  Tick,           \* instants of a request per unit of a stored timestamp
  NoRequest       \* the request of a call that is not running

VARIABLES
  account,        \* [revision, active]; revision 0: no account yet
  periods,        \* closed periods, with the revision their lines were priced from
  commands,       \* requests that took effect
  request,        \* what each call asks for
  answer          \* how each call ended

promised == <<account, periods, commands, request, answer>>

Init ==
  /\ account = [revision |-> 0, active |-> FALSE]
  /\ periods = {}
  /\ commands = {}
  /\ request = [x \in Actors |-> NoRequest]
  /\ answer = [x \in Actors |-> "none"]

Stamp(t)   == t \div Tick
KeyUsed(r) == \E s \in commands : s.key = r.key
Empty(r)   == Stamp(r.to) <= Stamp(r.from)
Apart(p, r) == Stamp(p.to) <= Stamp(r.from) \/ Stamp(r.to) <= Stamp(p.from)

-----------------------------------------------------------------------------
Ask(x, r) ==
  /\ request[x] = NoRequest
  /\ request' = [request EXCEPT ![x] = r]
  /\ answer' = [answer EXCEPT ![x] = "none"]
  /\ UNCHANGED <<account, periods, commands>>

Answer(x, how) == answer' = [answer EXCEPT ![x] = how]

\* The revision the caller saw is replaced by the next one.
Update(x) ==
  LET r == request[x] IN
  /\ r \in PutRequests
  /\ r.expected = account.revision
  /\ ~KeyUsed(r)
  /\ account' = [revision |-> account.revision + 1, active |-> r.active]
  /\ commands' = commands \cup {r}
  /\ Answer(x, "done")
  /\ UNCHANGED periods

\* A window apart from all closed ones is closed, and priced, at the active revision
\* the caller saw.
Close(x) ==
  LET r == request[x] IN
  /\ r \in CloseRequests
  /\ account.active /\ r.expected = account.revision
  /\ ~KeyUsed(r) /\ ~Empty(r)
  /\ \A p \in periods : p.id # r.id /\ Apart(p, r)
  /\ periods' = periods \cup
       {[id |-> r.id, from |-> r.from, to |-> r.to, key |-> r.key,
         revision |-> account.revision, lines |-> account.revision]}
  /\ commands' = commands \cup {r}
  /\ Answer(x, "done")
  /\ UNCHANGED account

\* The stored answer of a request that took effect before, or of another one's key.
Replay(x) ==
  /\ KeyUsed(request[x])
  /\ Answer(x, IF request[x] \in commands THEN "replayed" ELSE "key_conflict")
  /\ UNCHANGED <<account, periods, commands>>

\* An update is turned down because the account moved on or its key was used.
TurnDownUpdate(x, how) ==
  LET r == request[x] IN
  /\ r \in PutRequests
  /\ r.expected # account.revision \/ KeyUsed(r)
  /\ Answer(x, how)
  /\ UNCHANGED <<account, periods, commands>>

\* A close is refused, or fails on an empty window or a used key.
TurnDownClose(x, how) ==
  LET r == request[x] IN
  /\ r \in CloseRequests
  /\ how = "error" => Empty(r) \/ KeyUsed(r)
  /\ Answer(x, how)
  /\ UNCHANGED <<account, periods, commands>>

\* A call is cancelled or its process dies; what it has not done stays undone.
Vanish(x) == Answer(x, "none") /\ UNCHANGED <<account, periods, commands>>

\* A running call ends in one of these ways.
End(x) ==
  /\ request[x] # NoRequest
  /\ request' = [request EXCEPT ![x] = NoRequest]
  /\ \/ Update(x) \/ Close(x) \/ Replay(x) \/ Vanish(x)
     \/ \E how \in {"refused", "error"} : TurnDownUpdate(x, how)
     \/ \E how \in {"refused", "source_rejected", "error"} : TurnDownClose(x, how)

Next == \E x \in Actors : End(x) \/ \E r \in PutRequests \cup CloseRequests : Ask(x, r)

Spec == Init /\ [][Next]_promised
=============================================================================
