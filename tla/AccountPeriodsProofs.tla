------------------------ MODULE AccountPeriodsProofs ------------------------
(***************************************************************************)
(* Theorems about AccountPeriods, for every set of calls and requests and  *)
(* every precision of the stored timestamps.                               *)
(*                                                                         *)
(* The argument is the one the code relies on: the account row's lock.     *)
(* Only its holder may be about to write, so what the holder read or       *)
(* compared under the lock still holds when it writes; and what a close    *)
(* read before the lock is bounded by two revisions that the lock shows to *)
(* be equal.                                                               *)
(***************************************************************************)
EXTENDS AccountPeriods, TLAPS, FiniteSetTheorems

Idle    == {"idle"}
Locked  == {"put_store", "close_overlap", "close_store"}
Viewed  == {"close_mappings", "close_usage", "close_replay", "close_lock",
            "close_overlap", "close_store"}
Mapped  == Viewed \ {"close_mappings"}
Checked == {"close_overlap", "close_store"}

\* Each kind of call is in a step of its kind, and the lock is a call's or free.
KindInv ==
  /\ \A x \in Putters : pc[x] \in Idle \cup PutSteps
  /\ \A x \in Closers : pc[x] \in Idle \cup CloseSteps
  /\ locker \in Actors \cup {NoOne}

\* The mapping rows and the account row change together, by a stored command.
AccountInv ==
  /\ mappings = account.revision
  /\ account.revision > 0 =>
       \E r \in commands : /\ Put(r)
                           /\ r.expected + 1 = account.revision
                           /\ r.active = account.active

\* An update that is about to write has compared the revision it replaces.
PutInv ==
  \A x \in Putters :
    /\ pc[x] = "put_insert" => request[x].expected = 0
    /\ pc[x] = "put_store" => request[x].expected = account.revision

\* What a close has read lies between its expected revision and the present one;
\* under the lock these are the same, and the account is active.
ViewInv ==
  \A x \in Closers :
    /\ pc[x] \in Viewed => seen[x].revision <= account.revision
    /\ pc[x] \in Mapped => /\ seen[x].revision = request[x].expected
                           /\ seen[x].revision <= seen[x].mappings
                           /\ seen[x].mappings <= account.revision
    /\ pc[x] \in Checked => /\ account.revision = request[x].expected
                            /\ account.active

\* A close that is about to write overlaps no stored period.
FreeInv ==
  \A x \in Closers : pc[x] = "close_store" => \A p \in periods : ~Overlaps(p, request[x])

PeriodsInv == /\ CoherentSnapshot
              /\ NoStoredOverlap
              /\ PeriodsOnActiveRevisions
              /\ OnePeriodPerCommand

\* A repeated update waits for its stored answer, or has got it, or died.
ReplayInv ==
  \A x \in Putters : repeated[x] =>
    \/ pc[x] = "idle" /\ answer[x] \in {"none", "replayed"}
    \/ pc[x] = "put_replay" /\ answer[x] = "none" /\ request[x] \in commands

IInv == /\ TypeOK /\ KindInv
        /\ AccountInv /\ PutInv
        /\ ViewInv /\ FreeInv
        /\ PeriodsInv /\ ReplayInv

-----------------------------------------------------------------------------
(***************************************************************************)
(* Which steps write.                                                      *)
(***************************************************************************)
Database == <<account, mappings, periods, commands>>

\* The committing steps of the two operations.
PutDone(x) ==
  /\ pc[x] = "put_store" /\ ~Stored(request[x])
  /\ account' = [revision |-> account.revision + 1, active |-> request[x].active]
  /\ mappings' = account.revision + 1
  /\ commands' = commands \cup {request[x]}
  /\ UNCHANGED periods

NewPeriod(x) ==
  [id |-> request[x].id, from |-> request[x].from, to |-> request[x].to,
   key |-> request[x].key, revision |-> account.revision, lines |-> seen[x].mappings]

CloseDone(x) ==
  /\ pc[x] = "close_store" /\ ~Stored(request[x]) /\ ~EmptyWhenStored(request[x])
  /\ periods' = periods \cup {NewPeriod(x)}
  /\ commands' = commands \cup {request[x]}
  /\ UNCHANGED <<account, mappings>>

\* A step of the call x, and the steps as they concern one call.
Steps(x) ==
  \/ x \in Putters /\ (Putting(x) \/ \E r \in PutRequests : PutBegin(x, r))
  \/ x \in Closers /\ (Closing(x) \/ \E r \in CloseRequests : CloseBegin(x, r))
  \/ x \in Actors /\ Die(x)

LEMMA SomeoneSteps ==
  ASSUME Next
  PROVE  \E x \in Actors : Steps(x)
  BY DEF Next, Steps, Actors

\* Only the committing steps change the tables.
LEMMA Writers ==
  ASSUME NEW x, Steps(x)
  PROVE  \/ x \in Putters /\ PutDone(x)
         \/ x \in Closers /\ CloseDone(x)
         \/ UNCHANGED Database
<1> USE DEF Database, Refuse, Replay
<1>1. ASSUME x \in Putters, Putting(x)
      PROVE  PutDone(x) \/ UNCHANGED Database
  BY <1>1 DEF Putting, PutReplay, PutLock, PutInsert, PutStore, PutDone
<1>2. ASSUME x \in Closers, Closing(x)
      PROVE  CloseDone(x) \/ UNCHANGED Database
  <2>1. CASE CloseStore(x)
    BY <2>1 DEF CloseStore, CloseDone, NewPeriod, KeyIsFree
  <2>2. CASE CloseAccount(x) \/ CloseMappings(x) \/ CloseUsage(x) \/ CloseReplay(x)
               \/ CloseLock(x) \/ CloseOverlap(x)
    BY <2>2 DEF CloseAccount, CloseMappings, CloseUsage, CloseReplay, CloseLock, CloseOverlap
  <2> QED
    BY <1>2, <2>1, <2>2 DEF Closing
<1>3. ASSUME NEW r, PutBegin(x, r) \/ CloseBegin(x, r)
      PROVE  UNCHANGED Database
  BY <1>3 DEF PutBegin, CloseBegin, Begin
<1>4. ASSUME Die(x)
      PROVE  UNCHANGED Database
  BY <1>4 DEF Die
<1> QED
  BY <1>1, <1>2, <1>3, <1>4 DEF Steps

\* What y is doing does not change; and while y is past the lock, nor do the tables.
Waits(y) ==
  /\ pc'[y] = pc[y] /\ request'[y] = request[y]
  /\ answer'[y] = answer[y] /\ repeated'[y] = repeated[y]
  /\ y \in Closers => seen'[y] = seen[y]
  /\ pc[y] \in Locked => UNCHANGED Database

\* A step of one call is a wait of every other call.
LEMMA StepsOrWaits ==
  ASSUME TypeOK, Next, NEW y \in Actors
  PROVE  Steps(y) \/ Waits(y)
<1>1. PICK x \in Actors : Steps(x)
  BY SomeoneSteps
<1> SUFFICES ASSUME x # y
             PROVE  Waits(y)
  BY <1>1
<1>2. /\ pc'[y] = pc[y] /\ request'[y] = request[y]
      /\ answer'[y] = answer[y] /\ repeated'[y] = repeated[y]
      /\ y \in Closers => seen'[y] = seen[y]
  <2> USE DEF TypeOK, Refuse, Replay, Return, Goto
  <2>1. CASE Putting(x)
    BY <2>1 DEF Putting, PutReplay, PutLock, PutInsert, PutStore
  <2>2. CASE CloseAccount(x) \/ CloseMappings(x) \/ CloseUsage(x)
    BY <2>2 DEF CloseAccount, CloseMappings, CloseUsage
  <2>3. CASE CloseReplay(x) \/ CloseLock(x) \/ CloseOverlap(x) \/ CloseStore(x)
    BY <2>3 DEF CloseReplay, CloseLock, CloseOverlap, CloseStore
  <2>4. CASE \E r : PutBegin(x, r) \/ CloseBegin(x, r)
    BY <2>4 DEF PutBegin, CloseBegin, Begin
  <2>5. CASE Die(x)
    BY <2>5 DEF Die
  <2> QED
    BY <1>1, <2>1, <2>2, <2>3, <2>4, <2>5 DEF Steps, Closing
<1>3. ASSUME pc[y] \in Locked, PutDone(x) \/ CloseDone(x)
      PROVE  FALSE
  BY <1>3 DEF TypeOK, PutDone, CloseDone, Locked
<1> QED
  BY <1>1, <1>2, <1>3, Writers DEF Waits

-----------------------------------------------------------------------------
(***************************************************************************)
(* Types and the lock.                                                     *)
(***************************************************************************)

\* A call that returns without writing, and one that goes on to a step of its kind.
LEMMA RefuseKeepsTypes ==
  ASSUME TypeOK, KindInv, NEW x \in Actors, NEW how \in Answers, Refuse(x, how)
  PROVE  TypeOK' /\ KindInv'
<1> USE ActorsAssumption
<1>1. TypeOK'
  BY DEF TypeOK, KindInv, Refuse, Return, NoView, Requests, Answers, Actors
<1>2. KindInv'
  BY DEF TypeOK, KindInv, Refuse, Return, Idle
<1> QED
  BY <1>1, <1>2

LEMMA BeginKeepsTypes ==
  ASSUME TypeOK, KindInv, NEW x \in Actors, NEW r,
         \/ x \in Putters /\ r \in PutRequests /\ PutBegin(x, r)
         \/ x \in Closers /\ r \in CloseRequests /\ CloseBegin(x, r)
  PROVE  TypeOK' /\ KindInv'
<1> USE ActorsAssumption DEF PutBegin, CloseBegin, Begin
<1>1. repeated' \in [Actors -> BOOLEAN]
  <2>1. (r \in commands) \in BOOLEAN
    OBVIOUS
  <2>2. repeated \in [Actors -> BOOLEAN] /\ repeated' = [repeated EXCEPT ![x] = r \in commands]
    BY DEF TypeOK
  <2> QED
    BY <2>1, <2>2, Zenon
<1>2. /\ pc' \in [Actors -> {"idle"} \cup PutSteps \cup CloseSteps]
      /\ request' \in [Actors -> Requests \cup {NoRequest}]
      /\ answer' \in [Actors -> Answers]
  BY DEF TypeOK, Requests, Answers, PutSteps, CloseSteps
<1>3. ASSUME NEW y \in Actors
      PROVE  request'[y] \in IF pc'[y] = "idle" THEN {NoRequest}
               ELSE IF pc'[y] \in PutSteps THEN PutRequests ELSE CloseRequests
  BY DEF TypeOK, PutSteps, CloseSteps
<1>4. ASSUME NEW y \in Actors
      PROVE  locker' = y <=> pc'[y] \in {"put_store", "close_overlap", "close_store"}
  BY DEF TypeOK, PutSteps, CloseSteps
<1>5. TypeOK'
  BY <1>1, <1>2, <1>3, <1>4 DEF TypeOK
<1>6. KindInv'
  BY DEF TypeOK, KindInv, Idle, PutSteps, CloseSteps, Actors
<1> QED
  BY <1>5, <1>6

LEMMA PutKeepsTypes ==
  ASSUME TypeOK, KindInv, NEW x \in Putters, Putting(x)
  PROVE  TypeOK' /\ KindInv'
<1> USE ActorsAssumption DEF Actors
<1>1. CASE PutReplay(x)
  <2>1. CASE Replay(x)
    BY <2>1, RefuseKeepsTypes DEF Replay, Answers
  <2>2. CASE ~Replay(x)
    BY <1>1, <2>2 DEF PutReplay, Goto, TypeOK, KindInv, Idle, PutSteps, CloseSteps
  <2> QED
    BY <2>1, <2>2
<1>2. CASE PutLock(x)
  <2>1. CASE Refuse(x, "refused")
    BY <2>1, RefuseKeepsTypes DEF Answers
  <2>2. CASE ~Refuse(x, "refused")
    BY <1>2, <2>2 DEF PutLock, Goto, TypeOK, KindInv, Idle, PutSteps, CloseSteps
  <2> QED
    BY <2>1, <2>2
<1>3. CASE PutInsert(x)
  <2>1. CASE Refuse(x, "error")
    BY <2>1, RefuseKeepsTypes DEF Answers
  <2>2. CASE ~Refuse(x, "error")
    BY <1>3, <2>2 DEF PutInsert, Goto, TypeOK, KindInv, Idle, PutSteps, CloseSteps
  <2> QED
    BY <2>1, <2>2
<1>4. CASE PutStore(x)
  <2>1. CASE Refuse(x, "error")
    BY <2>1, RefuseKeepsTypes DEF Answers
  <2>2. CASE ~Refuse(x, "error")
    <3>1. request[x] \in PutRequests
      BY <1>4 DEF PutStore, TypeOK, PutSteps
    <3>2. request[x].active \in BOOLEAN
      BY <3>1, PutAssumption
    <3> QED
      BY <1>4, <2>2, <3>1, <3>2
      DEF PutStore, Return, TypeOK, KindInv, Idle, Requests, Answers, NoView
  <2> QED
    BY <2>1, <2>2
<1> QED
  BY <1>1, <1>2, <1>3, <1>4 DEF Putting

LEMMA CloseKeepsTypes ==
  ASSUME TypeOK, KindInv, ViewInv, NEW x \in Closers, Closing(x)
  PROVE  TypeOK' /\ KindInv'
<1> USE ActorsAssumption DEF Actors
<1>1. CASE \E how \in Answers : Refuse(x, how)
  BY <1>1, RefuseKeepsTypes
<1> SUFFICES ASSUME \A how \in Answers : ~Refuse(x, how)
             PROVE  TypeOK' /\ KindInv'
  BY <1>1
<1> USE DEF TypeOK, KindInv, Goto, Idle, PutSteps, CloseSteps, Answers
<1>2. CASE CloseAccount(x)
  <2>1. seen' \in [Closers -> [revision: Nat, active: BOOLEAN, mappings: Nat]]
    BY <1>2 DEF CloseAccount
  <2> QED
    BY <1>2, <2>1 DEF CloseAccount
<1>3. CASE CloseMappings(x)
  <2>1. seen' \in [Closers -> [revision: Nat, active: BOOLEAN, mappings: Nat]]
    BY <1>3 DEF CloseMappings
  <2> QED
    BY <1>3, <2>1 DEF CloseMappings
<1>4. CASE CloseUsage(x)
  BY <1>4 DEF CloseUsage
<1>5. CASE CloseReplay(x)
  BY <1>5 DEF CloseReplay, Replay
<1>6. CASE CloseLock(x)
  <2>1. /\ pc[x] = "close_lock" /\ pc' = [pc EXCEPT ![x] = "close_overlap"]
        /\ locker = NoOne /\ locker' = x
        /\ UNCHANGED <<account, mappings, periods, commands, request, seen, answer, repeated>>
    BY <1>6 DEF CloseLock
  <2>2. /\ request[x] \in CloseRequests
        /\ \A y \in Actors : pc[y] \notin {"put_store", "close_overlap", "close_store"}
    BY <2>1
  <2> QED
    BY <2>1, <2>2
<1>7. CASE CloseOverlap(x)
  BY <1>7 DEF CloseOverlap
<1>8. CASE CloseStore(x)
  <2> DEFINE p == NewPeriod(x)
  <2>1. /\ periods' = periods \cup {p} /\ commands' = commands \cup {request[x]}
        /\ Return(x, "done") /\ UNCHANGED <<account, mappings>>
    BY <1>8 DEF CloseStore, NewPeriod
  <2>2. request[x] \in CloseRequests
    BY <1>8 DEF CloseStore
  <2>3. Period(p)
    <3>1. account.revision \in Nat \ {0}
      BY <1>8, <2>2, CloseAssumption DEF CloseStore, ViewInv, Checked
    <3> QED
      BY <2>2, <3>1 DEF Period, NewPeriod
  <2> QED
    BY <2>1, <2>2, <2>3 DEF Return, Requests, NoView
<1> QED
  BY <1>2, <1>3, <1>4, <1>5, <1>6, <1>7, <1>8 DEF Closing

LEMMA NextKeepsTypes ==
  ASSUME TypeOK, KindInv, ViewInv, Next
  PROVE  TypeOK' /\ KindInv'
<1>1. PICK x \in Actors : Steps(x)
  BY SomeoneSteps
<1>2. CASE Die(x)
  BY <1>2, RefuseKeepsTypes DEF Die, Answers
<1> QED
  BY <1>1, <1>2, PutKeepsTypes, CloseKeepsTypes, BeginKeepsTypes DEF Steps

-----------------------------------------------------------------------------
(***************************************************************************)
(* What each call knows.  A call keeps what it knows while others move,    *)
(* because it holds the lock or because revisions only grow.               *)
(***************************************************************************)

\* Revisions and commands only grow.
LEMMA Monotone ==
  ASSUME TypeOK, Next
  PROVE  account.revision <= account'.revision /\ commands \subseteq commands'
<1>1. PICK x \in Actors : Steps(x)
  BY SomeoneSteps
<1> QED
  BY <1>1, Writers DEF PutDone, CloseDone, Database, TypeOK

PutKnows(x) ==
  /\ pc[x] = "put_insert" => request[x].expected = 0
  /\ pc[x] = "put_store" => request[x].expected = account.revision

LEMMA NextKeepsPut ==
  ASSUME TypeOK, KindInv, PutInv, Next
  PROVE  PutInv'
<1> SUFFICES ASSUME NEW x \in Putters
             PROVE  PutKnows(x)'
  BY DEF PutInv, PutKnows
<1> USE ActorsAssumption DEF Actors
<1>1. PutKnows(x)
  BY DEF PutInv, PutKnows
<1>2. CASE Waits(x)
  BY <1>1, <1>2 DEF PutKnows, Waits, Locked, Database
<1>3. CASE Putting(x)
  BY <1>1, <1>3
  DEF Putting, PutReplay, PutLock, PutInsert, PutStore, Replay, Refuse, Return, Goto,
      PutKnows, TypeOK
<1>4. CASE \E r \in PutRequests : PutBegin(x, r)
  BY <1>4 DEF PutBegin, Begin, PutKnows, TypeOK
<1>5. CASE Die(x)
  BY <1>5 DEF Die, Refuse, Return, PutKnows, TypeOK
<1> QED
  BY <1>2, <1>3, <1>4, <1>5, StepsOrWaits DEF Steps

CloseKnows(x) ==
  /\ pc[x] \in Viewed => seen[x].revision <= account.revision
  /\ pc[x] \in Mapped => /\ seen[x].revision = request[x].expected
                         /\ seen[x].revision <= seen[x].mappings
                         /\ seen[x].mappings <= account.revision
  /\ pc[x] \in Checked => /\ account.revision = request[x].expected
                          /\ account.active

LEMMA NextKeepsView ==
  ASSUME TypeOK, KindInv, AccountInv, ViewInv, Next
  PROVE  ViewInv'
<1> SUFFICES ASSUME NEW x \in Closers
             PROVE  CloseKnows(x)'
  BY DEF ViewInv, CloseKnows
<1> USE ActorsAssumption DEF Actors, Viewed, Mapped, Checked
<1>1. CloseKnows(x)
  BY DEF ViewInv, CloseKnows
<1>2. /\ account.revision \in Nat /\ account'.revision \in Nat
      /\ seen[x].revision \in Nat /\ seen[x].mappings \in Nat
  BY NextKeepsTypes DEF TypeOK
<1>3. CASE Waits(x)
  BY <1>1, <1>2, <1>3, Monotone DEF CloseKnows, Waits, Locked, Database
<1>4. CASE Closing(x)
  <2> USE DEF Refuse, Return, Goto, CloseKnows
  <2>0. pc \in [Actors -> Idle \cup PutSteps \cup CloseSteps]
    BY DEF TypeOK, Idle
  <2>1. CASE CloseAccount(x)
    BY <1>1, <1>2, <2>0, <2>1 DEF CloseAccount, TypeOK
  <2>2. CASE CloseMappings(x)
    BY <1>1, <1>2, <2>0, <2>2 DEF CloseMappings, AccountInv, TypeOK
  <2>3. CASE CloseUsage(x) \/ CloseReplay(x)
    BY <1>1, <1>2, <2>0, <2>3 DEF CloseUsage, CloseReplay, Replay
  <2>4. CASE CloseLock(x)
    BY <1>1, <1>2, <2>0, <2>4 DEF CloseLock
  <2>5. CASE CloseOverlap(x)
    BY <1>1, <1>2, <2>0, <2>5 DEF CloseOverlap
  <2>6. CASE CloseStore(x)
    BY <1>1, <1>2, <2>0, <2>6 DEF CloseStore
  <2> QED
    BY <1>4, <2>1, <2>2, <2>3, <2>4, <2>5, <2>6 DEF Closing
<1>5. CASE \E r \in CloseRequests : CloseBegin(x, r)
  BY <1>5 DEF CloseBegin, Begin, CloseKnows, TypeOK
<1>6. CASE Die(x)
  BY <1>6 DEF Die, Refuse, Return, CloseKnows, TypeOK
<1> QED
  BY <1>3, <1>4, <1>5, <1>6, StepsOrWaits DEF Steps

LEMMA NextKeepsFree ==
  ASSUME TypeOK, KindInv, FreeInv, Next
  PROVE  FreeInv'
<1> SUFFICES ASSUME NEW x \in Closers, pc'[x] = "close_store", NEW p \in periods'
             PROVE  ~Overlaps(p, request'[x])
  BY DEF FreeInv, Overlaps, Stamp
<1> USE ActorsAssumption DEF Actors
<1>1. CASE Waits(x)
  BY <1>1 DEF FreeInv, Waits, Locked, Database
<1>2. CASE Steps(x)
  <2>1. pc \in [Actors -> Idle \cup PutSteps \cup CloseSteps]
    BY DEF TypeOK, Idle
  <2>2. CloseOverlap(x)
    BY <1>2, <2>1
    DEF Steps, Closing, CloseAccount, CloseMappings, CloseUsage, CloseReplay, CloseLock,
        CloseStore, CloseBegin, Begin, Die, Replay, Refuse, Return, Goto
  <2> QED
    BY <2>1, <2>2 DEF CloseOverlap, Refuse, Return, Goto
<1> QED
  BY <1>1, <1>2, StepsOrWaits

LEMMA NextKeepsReplay ==
  ASSUME TypeOK, KindInv, ReplayInv, Next
  PROVE  ReplayInv'
<1> SUFFICES ASSUME NEW x \in Putters, repeated'[x]
             PROVE  \/ pc'[x] = "idle" /\ answer'[x] \in {"none", "replayed"}
                    \/ /\ pc'[x] = "put_replay" /\ answer'[x] = "none"
                       /\ request'[x] \in commands'
  BY DEF ReplayInv
<1> USE ActorsAssumption DEF Actors
<1>1. CASE Waits(x)
  BY <1>1, Monotone DEF Waits, ReplayInv
<1>2. CASE Putting(x)
  <2>1. repeated[x]
    BY <1>2 DEF Putting, PutReplay, PutLock, PutInsert, PutStore, Replay, Refuse, Return,
                Goto, TypeOK
  <2>2. \/ pc[x] = "idle"
        \/ pc[x] = "put_replay" /\ request[x] \in commands
    BY <2>1, Zenon DEF ReplayInv
  <2>3. PutReplay(x) /\ request[x] \in commands
    BY <1>2, <2>2 DEF Putting, PutReplay, PutLock, PutInsert, PutStore
  <2> QED
    BY <2>3 DEF PutReplay, Replay, Stored, Refuse, Return, TypeOK
<1>3. CASE \E r \in PutRequests : PutBegin(x, r)
  BY <1>3 DEF PutBegin, Begin, TypeOK
<1>4. CASE Die(x)
  BY <1>4 DEF Die, Refuse, Return, TypeOK
<1> QED
  BY <1>1, <1>2, <1>3, <1>4, StepsOrWaits DEF Steps

-----------------------------------------------------------------------------
(***************************************************************************)
(* The stored periods.                                                     *)
(***************************************************************************)

\* A stored instant is a number.
LEMMA StampType ==
  ASSUME NEW t \in Nat
  PROVE  Stamp(t) \in Nat
  BY TickAssumption DEF Stamp

\* A set with one element more, of which none had the key.
LEMMA OneMore ==
  ASSUME NEW S, NEW n, NEW key, \A p \in S : p.key # n.key
  PROVE  /\ key # n.key => {p \in S \cup {n} : p.key = key} = {p \in S : p.key = key}
         /\ Cardinality({p \in S \cup {n} : p.key = n.key}) = 1
<1>1. {p \in S \cup {n} : p.key = n.key} = {n}
  OBVIOUS
<1> QED
  BY <1>1, FS_Singleton

\* The requests of the two operations differ.
LEMMA Kinds == ASSUME NEW r, Put(r)  PROVE ~Close(r)
<1>1. Put(r) => DOMAIN r = {"key", "expected", "active"}
  BY PutAssumption DEF Put
<1>2. Close(r) => DOMAIN r = {"key", "id", "from", "to", "expected"}
  BY CloseAssumption DEF Close
<1>3. {"key", "expected", "active"} # {"key", "id", "from", "to", "expected"}
  OBVIOUS
<1> QED
  BY <1>1, <1>2, <1>3

LEMMA PutDoneKeepsPeriods ==
  ASSUME TypeOK, KindInv, PeriodsInv, NEW x \in Putters, PutDone(x)
  PROVE  PeriodsInv'
<1> DEFINE r == request[x]
<1>1. Put(r) /\ ~Close(r)
  BY Kinds DEF PutDone, TypeOK, Put, PutSteps, Actors
<1>2. CoherentSnapshot' /\ NoStoredOverlap'
  BY DEF PutDone, PeriodsInv, CoherentSnapshot, NoStoredOverlap
<1>3. PeriodsOnActiveRevisions'
  BY DEF PutDone, PeriodsInv, PeriodsOnActiveRevisions
<1>4. OnePeriodPerCommand'
  BY <1>1 DEF PutDone, PeriodsInv, OnePeriodPerCommand
<1> QED
  BY <1>2, <1>3, <1>4 DEF PeriodsInv

LEMMA CloseDoneKeepsPeriods ==
  ASSUME TypeOK, KindInv, AccountInv, ViewInv, FreeInv, PeriodsInv,
         NEW x \in Closers, CloseDone(x)
  PROVE  PeriodsInv'
<1> DEFINE r == request[x]
           n == NewPeriod(x)
<1>1. r \in CloseRequests
  BY DEF CloseDone, TypeOK, PutSteps, Actors
<1>2. periods' = periods \cup {n} /\ commands' = commands \cup {r}
  BY DEF CloseDone
<1>3. /\ n.from = r.from /\ n.to = r.to /\ n.key = r.key
      /\ n.revision = account.revision /\ n.lines = seen[x].mappings
  BY DEF NewPeriod
<1>4. CoherentSnapshot'
  <2>1. /\ seen[x].revision <= seen[x].mappings /\ seen[x].mappings <= account.revision
        /\ seen[x].revision = account.revision
    BY DEF ViewInv, Mapped, Viewed, Checked, CloseDone
  <2>2. seen[x].mappings = account.revision
    BY <2>1 DEF TypeOK
  <2> QED
    BY <1>2, <1>3, <2>2 DEF PeriodsInv, CoherentSnapshot
<1>5. NoStoredOverlap'
  <2>1. Stamp(r.from) \in Nat /\ Stamp(r.to) \in Nat
    BY <1>1, CloseAssumption, StampType
  <2>2. ASSUME NEW p \in periods
        PROVE  Stamp(p.to) <= Stamp(n.from) \/ Stamp(n.to) <= Stamp(p.from)
    <3>1. Stamp(p.from) \in Nat /\ Stamp(p.to) \in Nat
      BY CloseAssumption, StampType DEF TypeOK, Period
    <3>2. ~Overlaps(p, r)
      BY DEF FreeInv, CloseDone
    <3> QED
      BY <1>3, <2>1, <3>1, <3>2 DEF Overlaps
  <2> QED
    BY <1>2, <2>2 DEF PeriodsInv, NoStoredOverlap
<1>6. PeriodsOnActiveRevisions'
  <2>1. account.active /\ account.revision > 0
    BY <1>1, CloseAssumption DEF ViewInv, Checked, CloseDone
  <2>2. \E s \in commands : Put(s) /\ s.expected + 1 = account.revision /\ s.active
    BY <2>1 DEF AccountInv
  <2> QED
    BY <1>2, <1>3, <2>2 DEF PeriodsInv, PeriodsOnActiveRevisions
<1>7. OnePeriodPerCommand'
  <2>1. \A s \in commands : s.key # n.key
    BY <1>3 DEF CloseDone, Stored
  <2>2. \A p \in periods : p.key # n.key
    BY <2>1 DEF PeriodsInv, OnePeriodPerCommand
  <2>3. ASSUME NEW s \in commands', Close(s)
        PROVE  Cardinality({p \in periods' : p.key = s.key}) = 1
    <3>1. CASE s.key = n.key
      <4>1. periods' = periods \cup {n}
        BY <1>2
      <4>2. Cardinality({p \in periods \cup {n} : p.key = n.key}) = 1
        BY <2>2, OneMore
      <4> HIDE DEF n
      <4> QED
        BY <3>1, <4>1, <4>2
    <3>2. CASE s.key # n.key
      <4>1. s \in commands
        BY <1>2, <1>3, <3>2
      <4>2. {p \in periods' : p.key = s.key} = {p \in periods : p.key = s.key}
        BY <1>2, <2>2, <3>2, OneMore
      <4> QED
        BY <2>3, <4>1, <4>2 DEF PeriodsInv, OnePeriodPerCommand
    <3> QED
      BY <3>1, <3>2
  <2>4. \A p \in periods' : \E s \in commands' : Close(s) /\ s.key = p.key
    BY <1>1, <1>2, <1>3 DEF PeriodsInv, OnePeriodPerCommand, Close
  <2> QED
    BY <2>3, <2>4 DEF OnePeriodPerCommand
<1> QED
  BY <1>4, <1>5, <1>6, <1>7 DEF PeriodsInv

LEMMA NextKeepsPeriods ==
  ASSUME TypeOK, KindInv, AccountInv, ViewInv, FreeInv, PeriodsInv, Next
  PROVE  PeriodsInv'
<1>1. PICK x \in Actors : Steps(x)
  BY SomeoneSteps
<1>2. CASE UNCHANGED Database
  BY <1>2 DEF Database, PeriodsInv, CoherentSnapshot, NoStoredOverlap,
              PeriodsOnActiveRevisions, OnePeriodPerCommand
<1> QED
  BY <1>1, <1>2, Writers, PutDoneKeepsPeriods, CloseDoneKeepsPeriods

LEMMA NextKeepsAccount ==
  ASSUME TypeOK, KindInv, AccountInv, PutInv, Next
  PROVE  AccountInv'
<1>1. PICK x \in Actors : Steps(x)
  BY SomeoneSteps
<1>2. ASSUME x \in Putters, PutDone(x)
      PROVE  AccountInv'
  <2>1. request[x] \in PutRequests /\ request[x].expected = account.revision
    BY <1>2 DEF PutDone, TypeOK, PutInv, PutSteps, Actors
  <2> QED
    BY <1>2, <2>1 DEF PutDone, AccountInv, Put, TypeOK
<1>3. CASE CloseDone(x)
  BY <1>3 DEF CloseDone, AccountInv
<1>4. CASE UNCHANGED Database
  BY <1>4 DEF Database, AccountInv
<1> QED
  BY <1>1, <1>2, <1>3, <1>4, Writers

-----------------------------------------------------------------------------
(***************************************************************************)
(* The theorems.                                                           *)
(***************************************************************************)
LEMMA InitIInv == Init => IInv
<1> SUFFICES ASSUME Init
             PROVE  IInv
  OBVIOUS
<1> USE ActorsAssumption DEF Init
<1>1. TypeOK /\ KindInv
  BY DEF TypeOK, KindInv, Idle, Requests, Answers, NoView, Actors
<1>2. AccountInv /\ PutInv /\ FreeInv /\ ReplayInv
  BY DEF AccountInv, PutInv, FreeInv, ReplayInv, Actors
<1>3. ViewInv
  BY DEF ViewInv, Viewed, Mapped, Checked, Actors
<1>4. PeriodsInv
  BY DEF PeriodsInv, CoherentSnapshot, NoStoredOverlap, PeriodsOnActiveRevisions,
         OnePeriodPerCommand
<1> QED
  BY <1>1, <1>2, <1>3, <1>4 DEF IInv

\* The inductive invariant holds in every reachable state.
THEOREM Inductive == Spec => []IInv
<1>1. IInv /\ Next => IInv'
  BY NextKeepsTypes, NextKeepsAccount, NextKeepsPut, NextKeepsView, NextKeepsFree,
     NextKeepsPeriods, NextKeepsReplay DEF IInv
<1>2. IInv /\ UNCHANGED vars => IInv'
  <2> SUFFICES ASSUME IInv, UNCHANGED vars
               PROVE  IInv'
    OBVIOUS
  <2> USE DEF IInv, vars
  <2>1. TypeOK' /\ KindInv' /\ AccountInv' /\ PutInv'
    BY DEF TypeOK, KindInv, AccountInv, PutInv
  <2>2. ViewInv' /\ FreeInv' /\ ReplayInv'
    BY DEF ViewInv, FreeInv, ReplayInv
  <2>3. PeriodsInv'
    BY DEF PeriodsInv, CoherentSnapshot, NoStoredOverlap, PeriodsOnActiveRevisions,
           OnePeriodPerCommand
  <2> QED
    BY <2>1, <2>2, <2>3
<1> QED
  BY <1>1, <1>2, InitIInv, PTL DEF Spec

\* put_account and close_period keep the types of the tables, and exactly the calls past
\* their SELECT .. FOR UPDATE hold the account row.
THEOREM TypeCorrect == Spec => []TypeOK
<1>1. IInv => TypeOK
  BY DEF IInv
<1> QED
  BY <1>1, Inductive, PTL

\* close_period records the lines of one account revision, although it reads the account
\* in two snapshots and before the lock.
THEOREM PeriodsAreCoherent == Spec => []CoherentSnapshot
<1>1. IInv => CoherentSnapshot
  BY DEF IInv, PeriodsInv
<1> QED
  BY <1>1, Inductive, PTL

\* The overlap query of close_period keeps the stored windows disjoint.
THEOREM PeriodsAreDisjoint == Spec => []NoStoredOverlap
<1>1. IInv => NoStoredOverlap
  BY DEF IInv, PeriodsInv
<1> QED
  BY <1>1, Inductive, PTL

\* close_period closes only on revisions that left the account active.
THEOREM ClosedWhileActive == Spec => []PeriodsOnActiveRevisions
<1>1. IInv => PeriodsOnActiveRevisions
  BY DEF IInv, PeriodsInv
<1> QED
  BY <1>1, Inductive, PTL

\* store_command makes every close take effect once, and no period lacks its command.
THEOREM ClosesTakeEffectOnce == Spec => []OnePeriodPerCommand
<1>1. IInv => OnePeriodPerCommand
  BY DEF IInv, PeriodsInv
<1> QED
  BY <1>1, Inductive, PTL

\* put_account answers a repeated request from the store, whatever the account's revision.
THEOREM RepeatedPutsReplay == Spec => []RepeatedPutReplays
<1>1. IInv => RepeatedPutReplays
  BY Zenon DEF IInv, ReplayInv, RepeatedPutReplays
<1> QED
  BY <1>1, Inductive, PTL

-----------------------------------------------------------------------------
(***************************************************************************)
(* The chain of updates, over the invariant above.                         *)
(***************************************************************************)
Puts == {r \in commands : Put(r)}

ChainInv == /\ IsFiniteSet(Puts)
            /\ {r.expected : r \in Puts} = 0..(account.revision - 1)
            /\ Cardinality(Puts) = account.revision

\* The one step that replaces the account adds the link from its present revision.
LEMMA PutDoneKeepsChain ==
  ASSUME TypeOK, KindInv, PutInv, ChainInv, NEW x \in Putters, PutDone(x)
  PROVE  ChainInv'
<1> DEFINE r == request[x]
           n == account.revision
<1>1. Put(r) /\ r.expected = n /\ n \in Nat
  BY DEF PutDone, TypeOK, PutInv, Put, PutSteps, Actors
<1>2. Puts' = Puts \cup {r} /\ account'.revision = n + 1
  BY <1>1 DEF PutDone, Puts, Put
<1>3. r \notin Puts
  <2>1. \A q \in Puts : q.expected \in 0..(n - 1)
    BY DEF ChainInv
  <2> QED
    BY <1>1, <2>1
<1>4. IsFiniteSet(Puts') /\ Cardinality(Puts') = n + 1
  BY <1>1, <1>2, <1>3, FS_AddElement DEF ChainInv
<1>5. {q.expected : q \in Puts'} = 0..n
  <2>1. {q.expected : q \in Puts'} = {q.expected : q \in Puts} \cup {n}
    BY <1>1, <1>2
  <2>2. 0..n = (0..(n - 1)) \cup {n}
    BY <1>1
  <2> QED
    BY <2>1, <2>2 DEF ChainInv
<1>6. account'.revision - 1 = n
  BY <1>1, <1>2
<1>7. {q.expected : q \in Puts'} = 0..(account'.revision - 1)
  BY <1>5, <1>6
<1> QED
  BY <1>2, <1>4, <1>7 DEF ChainInv

\* Closes store no update, so the chain is only ever extended at its end.
LEMMA NextKeepsChain ==
  ASSUME IInv, ChainInv, Next
  PROVE  ChainInv'
<1> USE DEF IInv
<1>1. PICK x \in Actors : Steps(x)
  BY SomeoneSteps
<1>2. ASSUME x \in Closers, CloseDone(x)
      PROVE  ChainInv'
  <2>1. ~Put(request[x])
    <3>1. Close(request[x])
      BY <1>2 DEF CloseDone, TypeOK, Close, PutSteps, Actors
    <3> QED
      BY <3>1, Kinds
  <2>2. Puts' = Puts
    BY <1>2, <2>1 DEF CloseDone, Puts, Put
  <2> QED
    BY <1>2, <2>2 DEF CloseDone, ChainInv
<1>3. CASE UNCHANGED Database
  BY <1>3 DEF Database, ChainInv, Puts, Put
<1> QED
  BY <1>1, <1>2, <1>3, Writers, PutDoneKeepsChain

\* The optimistic concurrency of put_account: the stored updates form a chain in which
\* each was based on the revision it replaced, and no update is lost or doubled.
THEOREM UpdatesFormAChain == Spec => []EveryUpdateBuiltOnItsBase
<1>1. Init => ChainInv
  <2> SUFFICES ASSUME Init
               PROVE  ChainInv
    OBVIOUS
  <2>1. Puts = {} /\ account.revision = 0
    BY DEF Init, Puts
  <2> QED
    BY <2>1, FS_EmptySet DEF ChainInv
<1>2. IInv /\ ChainInv /\ [Next]_vars => ChainInv'
  <2>1. ASSUME ChainInv, UNCHANGED vars
        PROVE  ChainInv'
    BY <2>1 DEF vars, ChainInv, Puts, Put
  <2> QED
    BY <2>1, NextKeepsChain
<1>3. ChainInv => EveryUpdateBuiltOnItsBase
  BY DEF ChainInv, Puts, EveryUpdateBuiltOnItsBase
<1> QED
  BY <1>1, <1>2, <1>3, Inductive, PTL DEF Spec

-----------------------------------------------------------------------------
(***************************************************************************)
(* The refinement.  What happens to the tables before a commit is hidden   *)
(* by the lock; so the commit is the step in which the call takes effect,  *)
(* and what the call knows (PutInv, ViewInv, FreeInv) is what the account  *)
(* of BillingAccount looks like in that step.                              *)
(***************************************************************************)

\* A request can be told from the mark of a call that is not running.
LEMMA NoRequestIsNone == NoRequest \notin Requests
<1>1. ASSUME NEW r \in PutRequests PROVE "expected" \in DOMAIN r
  BY PutAssumption
<1>2. ASSUME NEW r \in CloseRequests PROVE "expected" \in DOMAIN r
  BY CloseAssumption
<1>3. "expected" \notin DOMAIN NoRequest
  BY DEF NoRequest
<1> QED
  BY <1>1, <1>2, <1>3 DEF Requests

\* A call that returns is a call that ends.
LEMMA ReturnEnds ==
  ASSUME TypeOK, NEW x \in Actors, pc[x] # "idle", NEW how, Return(x, how)
  PROVE  /\ request[x] # NoRequest
         /\ request' = [request EXCEPT ![x] = NoRequest]
         /\ Promise!Answer(x, how)
  BY NoRequestIsNone DEF TypeOK, Requests, Return, Promise!Answer

LEMMA ReplayImplements ==
  ASSUME TypeOK, NEW x \in Actors, pc[x] # "idle", Replay(x)
  PROVE  Promise!End(x)
<1>1. Promise!Replay(x)
  BY ReturnEnds DEF Replay, Refuse, Stored, Promise!Replay, Promise!KeyUsed
<1> QED
  BY <1>1, ReturnEnds DEF Replay, Refuse, Promise!End

\* put_account turns an update down only while the tables show why.
LEMMA PutRefusalImplements ==
  ASSUME TypeOK, NEW x \in Actors, pc[x] \in PutSteps, NEW how \in {"refused", "error"},
         request[x].expected # account.revision \/ Stored(request[x]), Refuse(x, how)
  PROVE  Promise!End(x)
<1>1. request[x] \in PutRequests /\ pc[x] # "idle"
  BY DEF TypeOK, PutSteps
<1>2. Promise!TurnDownUpdate(x, how)
  BY <1>1, ReturnEnds DEF Refuse, Stored, Promise!TurnDownUpdate, Promise!KeyUsed
<1> QED
  BY <1>1, <1>2, ReturnEnds DEF Refuse, Promise!End

LEMMA CloseRefusalImplements ==
  ASSUME TypeOK, NEW x \in Actors, pc[x] \in CloseSteps,
         NEW how \in {"refused", "source_rejected", "error"},
         how = "error" => EmptyWhenStored(request[x]) \/ Stored(request[x]), Refuse(x, how)
  PROVE  Promise!End(x)
<1>1. request[x] \in CloseRequests /\ pc[x] # "idle"
  BY DEF TypeOK, PutSteps, CloseSteps
<1>2. Promise!TurnDownClose(x, how)
  BY <1>1, ReturnEnds
  DEF Refuse, Stored, EmptyWhenStored, Stamp, Promise!TurnDownClose, Promise!KeyUsed,
      Promise!Empty, Promise!Stamp
<1> QED
  BY <1>1, <1>2, ReturnEnds DEF Refuse, Promise!End

\* The commit of put_account is its effect.
LEMMA PutImplements ==
  ASSUME IInv, NEW x \in Putters, Putting(x)
  PROVE  [Promise!Next]_(Promise!promised)
<1> USE DEF IInv
<1>0. x \in Actors /\ account.revision \in Nat
  BY DEF Actors, TypeOK
<1>1. ASSUME Promise!End(x)
      PROVE  Promise!Next
  BY <1>0, <1>1 DEF Promise!Next
<1>2. CASE PutReplay(x)
  <2>1. CASE Replay(x)
    BY <1>0, <1>1, <1>2, <2>1, ReplayImplements DEF PutReplay
  <2>2. CASE ~Replay(x)
    BY <1>2, <2>2 DEF PutReplay, Goto, Promise!promised
  <2> QED
    BY <2>1, <2>2
<1>3. CASE PutLock(x)
  <2>1. CASE Refuse(x, "refused")
    <3>1. account.revision # request[x].expected
      BY <1>3, <2>1 DEF PutLock, Refuse, Return, Goto, TypeOK, Actors
    <3> QED
      BY <1>0, <1>1, <1>3, <2>1, <3>1, PutRefusalImplements DEF PutLock, PutSteps
  <2>2. CASE ~Refuse(x, "refused")
    BY <1>3, <2>2 DEF PutLock, Goto, Promise!promised
  <2> QED
    BY <2>1, <2>2
<1>4. CASE PutInsert(x)
  <2>1. CASE account.revision > 0
    <3>1. Refuse(x, "error") /\ request[x].expected = 0
      BY <1>4, <2>1 DEF PutInsert, PutInv
    <3> QED
      BY <1>0, <1>1, <1>4, <2>1, <3>1, PutRefusalImplements DEF PutInsert, PutSteps
  <2>2. CASE ~(account.revision > 0)
    BY <1>4, <2>2 DEF PutInsert, Goto, Promise!promised
  <2> QED
    BY <2>1, <2>2
<1>5. CASE PutStore(x)
  <2>1. CASE Stored(request[x])
    BY <1>0, <1>1, <1>5, <2>1, PutRefusalImplements DEF PutStore, PutSteps
  <2>2. CASE ~Stored(request[x])
    <3>1. request[x] \in PutRequests /\ request[x].expected = account.revision
      BY <1>5 DEF PutStore, TypeOK, PutInv, PutSteps, Actors
    <3>2. Promise!Update(x)
      BY <1>0, <1>5, <2>2, <3>1, ReturnEnds
      DEF PutStore, Stored, Promise!Update, Promise!KeyUsed
    <3> QED
      BY <1>0, <1>1, <1>5, <2>2, <3>2, ReturnEnds DEF PutStore, Promise!End
  <2> QED
    BY <2>1, <2>2
<1> QED
  BY <1>2, <1>3, <1>4, <1>5 DEF Putting

\* The commit of close_period is its effect: the account it read in two snapshots is the
\* account of this very step, and no closed window has come between.
LEMMA CloseDoneImplements ==
  ASSUME IInv, NEW x \in Closers, CloseStore(x), CloseDone(x), Return(x, "done"),
         ~PeriodRowConflicts(request[x])
  PROVE  Promise!End(x)
<1> DEFINE r == request[x]
<1> USE DEF IInv
<1>1. x \in Actors /\ r \in CloseRequests /\ pc[x] = "close_store"
  BY DEF CloseDone, TypeOK, PutSteps, Actors
<1>2. /\ account.active /\ r.expected = account.revision
      /\ seen[x].mappings = account.revision
  <2>1. /\ account.active /\ r.expected = account.revision
        /\ seen[x].revision = r.expected
        /\ seen[x].revision <= seen[x].mappings /\ seen[x].mappings <= account.revision
    BY <1>1 DEF ViewInv, Viewed, Mapped, Checked
  <2>2. account.revision \in Nat /\ seen[x].mappings \in Nat
    BY DEF TypeOK
  <2> QED
    BY <2>1, <2>2
<1>3. ASSUME NEW p \in periods
      PROVE  p.id # r.id /\ Promise!Apart(p, r)
  <2>1. p.id # r.id
    BY DEF PeriodRowConflicts
  <2>2. /\ Stamp(p.from) \in Nat /\ Stamp(p.to) \in Nat
        /\ Stamp(r.from) \in Nat /\ Stamp(r.to) \in Nat
    BY <1>1, CloseAssumption, StampType DEF TypeOK, Period
  <2>3. ~Overlaps(p, r)
    BY <1>1 DEF FreeInv
  <2>4. Stamp(p.to) <= Stamp(r.from) \/ Stamp(r.to) <= Stamp(p.from)
    BY <2>2, <2>3 DEF Overlaps
  <2> QED
    BY <2>1, <2>4 DEF Promise!Apart, Promise!Stamp, Stamp
<1>4. ~Promise!KeyUsed(r) /\ ~Promise!Empty(r)
  BY DEF CloseDone, Stored, EmptyWhenStored, Stamp, Promise!KeyUsed, Promise!Empty,
         Promise!Stamp
<1>5. Promise!Close(x)
  BY <1>1, <1>2, <1>3, <1>4, ReturnEnds DEF CloseDone, NewPeriod, Promise!Close
<1> QED
  BY <1>1, <1>5, ReturnEnds DEF Promise!End

LEMMA CloseImplements ==
  ASSUME IInv, NEW x \in Closers, Closing(x)
  PROVE  [Promise!Next]_(Promise!promised)
<1> USE DEF IInv
<1>0. x \in Actors /\ pc[x] \in CloseSteps /\ pc[x] # "idle"
  BY DEF Actors, CloseSteps, Closing, CloseAccount, CloseMappings, CloseUsage, CloseReplay,
         CloseLock, CloseOverlap, CloseStore
<1>1. ASSUME Promise!End(x)
      PROVE  Promise!Next
  BY <1>0, <1>1 DEF Promise!Next
<1>2. CASE Refuse(x, "refused") \/ Refuse(x, "source_rejected")
  BY <1>0, <1>1, <1>2, CloseRefusalImplements
<1>3. CASE Replay(x)
  BY <1>0, <1>1, <1>3, ReplayImplements
<1>4. CASE CloseStore(x) /\ Refuse(x, "error")
  <2>1. EmptyWhenStored(request[x]) \/ Stored(request[x])
    BY <1>0, <1>4 DEF CloseStore, KeyIsFree, Refuse, Return, TypeOK
  <2> QED
    BY <1>0, <1>1, <1>4, <2>1, CloseRefusalImplements
<1>5. CASE CloseStore(x) /\ ~Refuse(x, "error") /\ ~Refuse(x, "refused")
  <2>1. CloseDone(x) /\ Return(x, "done") /\ ~PeriodRowConflicts(request[x])
    BY <1>5 DEF CloseStore, CloseDone, NewPeriod, KeyIsFree
  <2> QED
    BY <1>1, <1>5, <2>1, CloseDoneImplements
<1>6. ASSUME ~Refuse(x, "refused"), ~Refuse(x, "source_rejected"), ~Replay(x), ~CloseStore(x)
      PROVE  UNCHANGED Promise!promised
  BY <1>6 DEF Closing, CloseAccount, CloseMappings, CloseUsage, CloseReplay, CloseLock,
              CloseOverlap, Goto, Promise!promised
<1> QED
  BY <1>2, <1>3, <1>4, <1>5, <1>6

LEMMA NextImplements ==
  ASSUME IInv, [Next]_vars
  PROVE  [Promise!Next]_(Promise!promised)
<1>1. CASE UNCHANGED vars
  BY <1>1 DEF vars, Promise!promised
<1>2. CASE Next
  <2>1. PICK x \in Actors : Steps(x)
    BY <1>2, SomeoneSteps
  <2>2. ASSUME NEW r, \/ r \in PutRequests /\ PutBegin(x, r)
                      \/ r \in CloseRequests /\ CloseBegin(x, r)
        PROVE  Promise!Next
    <3>1. pc[x] = "idle" /\ request[x] = NoRequest
      BY <2>2 DEF PutBegin, CloseBegin, Begin, IInv, TypeOK
    <3>2. Promise!Ask(x, r)
      BY <2>2, <3>1 DEF PutBegin, CloseBegin, Begin, Promise!Ask
    <3> QED
      BY <2>2, <3>2 DEF Promise!Next
  <2>3. CASE Die(x)
    <3>1. pc[x] # "idle" /\ Refuse(x, "none") /\ TypeOK
      BY <2>3 DEF Die, IInv
    <3>2. Promise!Vanish(x)
      BY <3>1, ReturnEnds DEF Refuse, Promise!Vanish
    <3>3. Promise!End(x)
      BY <3>1, <3>2, ReturnEnds DEF Refuse, Promise!End
    <3> QED
      BY <3>3 DEF Promise!Next
  <2> QED
    BY <2>1, <2>2, <2>3, PutImplements, CloseImplements DEF Steps
<1> QED
  BY <1>1, <1>2

\* put_account and close_period implement BillingAccount: every call takes effect in one
\* step between its beginning and its answer, or not at all.
THEOREM Implementation == Spec => ImplementsAccount
<1>1. Init => Promise!Init
  BY DEF Init, Promise!Init
<1>2. IInv /\ [Next]_vars => [Promise!Next]_(Promise!promised)
  BY NextImplements
<1> QED
  BY <1>1, <1>2, Inductive, PTL DEF Spec, ImplementsAccount, Promise!Spec

-----------------------------------------------------------------------------
(***************************************************************************)
(* Repeated closes.  Unlike put_account, close_period looks at the account *)
(* before it looks for a replay; what a stored close says about the        *)
(* account bounds the harm.                                                *)
(***************************************************************************)

\* A stored close was made at the present revision, which is then still active, or at
\* an earlier one.
StoredCloses ==
  \A c \in commands : Close(c) =>
    /\ account.revision >= c.expected
    /\ account.revision = c.expected => account.active

\* A repeated close stops at its replay, and what it has seen is as a stored close says.
Repeating(x) ==
  repeated[x] /\ pc[x] # "idle" =>
    /\ request[x] \in commands /\ answer[x] = "none"
    /\ pc[x] \in {"close_account", "close_mappings", "close_usage", "close_replay"}
    /\ pc[x] = "close_mappings" =>
         /\ seen[x].revision >= request[x].expected
         /\ seen[x].revision = request[x].expected => seen[x].active

RepeatInv == StoredCloses /\ \A x \in Closers : Repeating(x)

LEMMA NextKeepsStoredCloses ==
  ASSUME IInv, StoredCloses, Next
  PROVE  StoredCloses'
<1> USE DEF IInv
<1>1. PICK x \in Actors : Steps(x)
  BY SomeoneSteps
<1>2. ASSUME NEW c \in commands, Close(c)
      PROVE  c.expected \in Nat
  BY <1>2, CloseAssumption DEF Close
<1>3. ASSUME x \in Putters, PutDone(x)
      PROVE  StoredCloses'
  <2>1. ~Close(request[x])
    BY <1>3, Kinds DEF PutDone, TypeOK, Put, PutSteps, Actors
  <2>2. account.revision \in Nat /\ account'.revision = account.revision + 1
    BY <1>3 DEF PutDone, TypeOK
  <2>3. \A c \in commands' : Close(c) => c \in commands
    BY <1>3, <2>1 DEF PutDone
  <2>4. \A c \in commands : Close(c) => account'.revision > c.expected
    BY <1>2, <2>2 DEF StoredCloses
  <2>5. \A c \in commands : Close(c) => c.expected \in Nat /\ account'.revision \in Nat
    BY <1>2, <2>2
  <2> QED
    BY <2>3, <2>4, <2>5 DEF StoredCloses, Close
<1>4. ASSUME x \in Closers, CloseDone(x)
      PROVE  StoredCloses'
  <2>1. account.revision = request[x].expected /\ account.active
    BY <1>4 DEF CloseDone, ViewInv, Checked
  <2> QED
    BY <1>4, <2>1 DEF CloseDone, StoredCloses, Close, TypeOK
<1>5. CASE UNCHANGED Database
  BY <1>5 DEF Database, StoredCloses, Close
<1> QED
  BY <1>1, <1>3, <1>4, <1>5, Writers

LEMMA NextKeepsRepeating ==
  ASSUME IInv, RepeatInv, Next, NEW x \in Closers
  PROVE  Repeating(x)'
<1> SUFFICES ASSUME repeated'[x], pc'[x] # "idle"
             PROVE  /\ request'[x] \in commands' /\ answer'[x] = "none"
                    /\ pc'[x] \in {"close_account", "close_mappings", "close_usage",
                                   "close_replay"}
                    /\ pc'[x] = "close_mappings" =>
                         /\ seen'[x].revision >= request'[x].expected
                         /\ seen'[x].revision = request'[x].expected => seen'[x].active
  BY DEF Repeating
<1> USE ActorsAssumption DEF IInv, Actors
<1>1. Repeating(x) /\ commands \subseteq commands'
  BY Monotone DEF RepeatInv
<1>2. CASE Waits(x)
  BY <1>1, <1>2 DEF Waits, Repeating
<1>3. CASE \E r \in CloseRequests : CloseBegin(x, r)
  BY <1>3 DEF CloseBegin, Begin, TypeOK
<1>4. CASE Die(x)
  BY <1>4 DEF Die, Refuse, Return, TypeOK
<1>5. CASE Closing(x)
  <2> USE DEF Refuse, Return, Goto
  <2>1. pc[x] # "idle" /\ repeated[x] /\ ~(\E how : Return(x, how))
    BY <1>5 DEF Closing, CloseAccount, CloseMappings, CloseUsage, CloseReplay, CloseLock,
                CloseOverlap, CloseStore, Replay, TypeOK
  <2>2. /\ request[x] \in commands /\ Stored(request[x]) /\ answer[x] = "none"
        /\ pc[x] \in {"close_account", "close_mappings", "close_usage", "close_replay"}
    BY <1>1, <2>1, Zenon DEF Repeating, Stored
  <2>3. request[x] \in CloseRequests /\ Close(request[x])
    BY <2>1, <2>2 DEF TypeOK, PutSteps, Close
  <2>4. CASE CloseAccount(x)
    <3>1. /\ seen'[x].revision = account.revision /\ seen'[x].active = account.active
          /\ UNCHANGED <<request, answer, commands>> /\ pc'[x] = "close_mappings"
      BY <2>1, <2>4 DEF CloseAccount, TypeOK
    <3> QED
      BY <2>2, <2>3, <3>1 DEF RepeatInv, StoredCloses
  <2>5. CASE CloseMappings(x) \/ CloseUsage(x)
    BY <2>1, <2>2, <2>5 DEF CloseMappings, CloseUsage, TypeOK
  <2>6. CASE CloseReplay(x)
    BY <2>1, <2>2, <2>6 DEF CloseReplay, Replay
  <2> QED
    BY <1>5, <2>2, <2>4, <2>5, <2>6 DEF Closing, CloseLock, CloseOverlap, CloseStore
<1> QED
  BY <1>2, <1>3, <1>4, <1>5, StepsOrWaits DEF Steps

\* A repeated close that is refused has seen a revision that is not the one it was made
\* at, as a stored close excludes that there is no account or that it was not active.
LEMMA RepeatedClosesEndWell ==
  ASSUME IInv, RepeatInv, Next, NEW x \in Closers,
         repeated[x], pc[x] # "idle", pc'[x] = "idle"
  PROVE  EndsUnchanged(x)
<1> USE ActorsAssumption DEF IInv, Actors
<1>1. /\ request[x] \in commands /\ Stored(request[x]) /\ answer[x] = "none"
      /\ pc[x] \in {"close_account", "close_mappings", "close_usage", "close_replay"}
  BY Zenon DEF RepeatInv, Repeating, Stored
<1>2. request[x] \in CloseRequests /\ Close(request[x])
  BY <1>1 DEF TypeOK, PutSteps, Close
<1>3. /\ request[x].expected \in Nat \ {0} /\ account.revision \in Nat
      /\ seen[x].revision \in Nat /\ account.revision >= request[x].expected
  BY <1>1, <1>2, CloseAssumption DEF TypeOK, RepeatInv, StoredCloses
<1>4. ASSUME NEW how, Refuse(x, how)
      PROVE  answer'[x] = how /\ UNCHANGED <<account, mappings, periods, commands>>
  BY <1>4 DEF Refuse, Return, TypeOK
<1>5. CASE Die(x)
  BY <1>4, <1>5 DEF Die, EndsUnchanged
<1>6. CASE CloseAccount(x)
  <2>1. account.revision > 0
    BY <1>3
  <2> QED
    BY <1>1, <1>6, <2>1 DEF CloseAccount, Goto, TypeOK
<1>7. CASE CloseMappings(x)
  <2>1. Refuse(x, "refused") /\ (~seen[x].active \/ seen[x].revision # request[x].expected)
    BY <1>1, <1>7 DEF CloseMappings, Goto, TypeOK
  <2>2. seen[x].revision <= account.revision
    BY <1>7 DEF CloseMappings, ViewInv, Viewed
  <2>3. /\ seen[x].revision >= request[x].expected
        /\ seen[x].revision = request[x].expected => seen[x].active
    BY <1>7, Zenon DEF RepeatInv, Repeating, CloseMappings
  <2>4. account.revision > request[x].expected
    BY <1>3, <2>1, <2>2, <2>3
  <2> QED
    BY <1>4, <2>1, <2>4 DEF EndsUnchanged
<1>8. CASE CloseUsage(x)
  <2>1. pc[x] = "close_usage" /\ Refuse(x, "source_rejected")
    BY <1>1, <1>8 DEF CloseUsage, Goto, TypeOK
  <2>2. seen[x].revision = request[x].expected
    BY <2>1 DEF ViewInv, Mapped, Viewed
  <2> QED
    BY <1>4, <2>1, <2>2 DEF EndsUnchanged
<1>9. CASE CloseReplay(x)
  <2>1. Refuse(x, "replayed")
    BY <1>1, <1>9 DEF CloseReplay, Replay, Goto, TypeOK
  <2> QED
    BY <1>4, <2>1 DEF EndsUnchanged
<1>10. Closing(x) \/ Die(x)
  <2>1. ~Waits(x)
    BY DEF Waits
  <2>2. ~(\E r \in CloseRequests : CloseBegin(x, r))
    BY DEF CloseBegin, Begin
  <2> QED
    BY <2>1, <2>2, StepsOrWaits DEF Steps
<1> QED
  BY <1>1, <1>5, <1>6, <1>7, <1>8, <1>9, <1>10 DEF Closing, CloseLock, CloseOverlap, CloseStore

\* close_period repeats a stored close without effect: it returns the stored response
\* unless an update has moved the account on from the revision the close was made at, or
\* the usage meter, asked again, rejects the window.
THEOREM RepeatedClosesReplayOrAreTurnedDown == Spec => RepeatedCloseEnds
<1>1. Init => RepeatInv
  BY DEF Init, RepeatInv, StoredCloses, Repeating, Actors
<1>2. ASSUME IInv, RepeatInv, [Next]_vars
      PROVE  RepeatInv'
  <2>1. CASE Next
    BY <1>2, <2>1, NextKeepsStoredCloses, NextKeepsRepeating DEF RepeatInv
  <2>2. CASE UNCHANGED vars
    BY <1>2, <2>2 DEF RepeatInv, StoredCloses, Repeating, Close, vars
  <2> QED
    BY <1>2, <2>1, <2>2
<1>3. IInv /\ RepeatInv /\ [Next]_vars =>
        [\A x \in Closers :
           repeated[x] /\ pc[x] # "idle" /\ pc'[x] = "idle" => EndsUnchanged(x)]_vars
  BY RepeatedClosesEndWell
<1> QED
  BY <1>1, <1>2, <1>3, Inductive, PTL DEF Spec, RepeatedCloseEnds

-----------------------------------------------------------------------------
(***************************************************************************)
(* The windows administrators asked for.  The database compares them after *)
(* dropping what is finer than a microsecond, so that is how far two       *)
(* closed windows can overlap, and windows of whole microseconds cannot.   *)
(***************************************************************************)

\* How far a stored instant is from the one asked for.
LEMMA StampBounds ==
  ASSUME NEW t \in Nat
  PROVE  /\ Tick * Stamp(t) \in Nat
         /\ Tick * Stamp(t) <= t /\ t < Tick * Stamp(t) + Tick
<1>1. Tick \in Nat /\ Tick > 0 /\ Stamp(t) \in Nat
  BY TickAssumption, StampType
<1>2. ASSUME NEW q \in Int, q = t \div Tick
      PROVE  Tick * q <= t /\ t < Tick * q + Tick
  BY <1>1, <1>2, SMT
<1>3. Tick * Stamp(t) <= t /\ t < Tick * Stamp(t) + Tick
  BY <1>1, <1>2 DEF Stamp
<1>4. \A m, n \in Nat : m * n \in Nat
  OBVIOUS
<1> QED
  BY <1>1, <1>3, <1>4

\* Larger factors, larger products.
LEMMA TimesMonotone ==
  ASSUME NEW k \in Nat, NEW m \in Nat, NEW n \in Nat, m <= n
  PROVE  k * m <= k * n
  OBVIOUS

\* Instants whose stored forms are in order are in order up to the precision.
LEMMA StampOrder ==
  ASSUME NEW s \in Nat, NEW t \in Nat, Stamp(s) <= Stamp(t)
  PROVE  s < t + Tick
<1> DEFINE a == Tick * Stamp(s)
           b == Tick * Stamp(t)
<1>1. a \in Nat /\ b \in Nat /\ s < a + Tick /\ b <= t
  BY StampBounds
<1>2. a <= b
  BY TimesMonotone, TickAssumption, StampType
<1>3. Tick \in Nat
  BY TickAssumption
<1> HIDE DEF a, b
<1> QED
  BY <1>1, <1>2, <1>3

Whole(t) == \E k \in Nat : t = Tick * k

\* Whole instants less than one unit apart the wrong way are not apart the wrong way.
LEMMA WholeOrder ==
  ASSUME NEW s \in Nat, NEW t \in Nat, Whole(s), Whole(t), s < t + Tick
  PROVE  s <= t
<1>1. PICK m \in Nat, n \in Nat : s = Tick * m /\ t = Tick * n
  BY DEF Whole
<1>2. Tick \in Nat \ {0}
  BY TickAssumption
<1>3. CASE m <= n
  BY <1>1, <1>2, <1>3, TimesMonotone
<1>4. CASE n + 1 <= m
  <2>1. Tick * (n + 1) <= Tick * m
    BY <1>1, <1>2, <1>4, TimesMonotone
  <2>2. Tick * (n + 1) = Tick * n + Tick
    BY <1>1, <1>2
  <2> QED
    BY <1>1, <1>2, <2>1, <2>2
<1> QED
  BY <1>1, <1>3, <1>4

\* The windows of any two closed periods overlap by less than a unit of TIMESTAMPTZ: one
\* ends before the other begins, but for what the database does not keep.
OverlapBelowATick ==
  \A p, q \in periods : p = q \/ p.to < q.from + Tick \/ q.to < p.from + Tick

\* close_period lets the windows it was asked for overlap by less than a microsecond.
THEOREM OverlapsAreBelowATick == Spec => []OverlapBelowATick
<1>1. IInv => OverlapBelowATick
  <2> SUFFICES ASSUME IInv, NEW p \in periods, NEW q \in periods, p # q
               PROVE  p.to < q.from + Tick \/ q.to < p.from + Tick
    BY DEF OverlapBelowATick
  <2>1. p.from \in Nat /\ p.to \in Nat /\ q.from \in Nat /\ q.to \in Nat
    BY CloseAssumption DEF IInv, TypeOK, Period
  <2>2. Stamp(p.to) <= Stamp(q.from) \/ Stamp(q.to) <= Stamp(p.from)
    BY DEF IInv, PeriodsInv, NoStoredOverlap
  <2> QED
    BY <2>1, <2>2, StampOrder
<1> QED
  BY <1>1, Inductive, PTL

\* With windows given in whole microseconds, the periods close_period stores do not
\* overlap at all.
THEOREM WholeWindowsAreDisjoint ==
  ASSUME \A r \in CloseRequests : Whole(r.from) /\ Whole(r.to)
  PROVE  Spec => []NoOverlap
<1>1. TypeOK /\ OverlapBelowATick => NoOverlap
  <2> SUFFICES ASSUME TypeOK, OverlapBelowATick,
                      NEW p \in periods, NEW q \in periods, p # q
               PROVE  p.to <= q.from \/ q.to <= p.from
    BY DEF NoOverlap
  <2>1. /\ p.from \in Nat /\ p.to \in Nat /\ q.from \in Nat /\ q.to \in Nat
        /\ Whole(p.from) /\ Whole(p.to) /\ Whole(q.from) /\ Whole(q.to)
    BY CloseAssumption DEF TypeOK, Period
  <2>2. p.to < q.from + Tick \/ q.to < p.from + Tick
    BY DEF OverlapBelowATick
  <2> QED
    BY <2>1, <2>2, WholeOrder
<1> QED
  BY <1>1, TypeCorrect, OverlapsAreBelowATick, PTL
=============================================================================
