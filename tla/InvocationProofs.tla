-------------------------- MODULE InvocationProofs --------------------------
(***************************************************************************)
(* The properties of Invocation, for any callers, subjects, lists, client  *)
(* versions and numbers of calls and activations.                          *)
(*                                                                         *)
(* Each property speaks of the answer; Stages says of every place a call   *)
(* can be at what has been decided by then, so that each action is seen to *)
(* give only the answers it may.  Current ties what the two checks read to *)
(* the history: authority there is now has been witnessed.                 *)
(***************************************************************************)
EXTENDS Invocation, TLAPS

Asked(c) == call[c] \in Requests("direct", Instances, Operations)
                        \cup Requests("tool", {Tools}, ToolOperations)

\* What a call must have shown before it learns anything.
Entitled(c) ==
  IF call[c].op = "reconcile_next" THEN call[c].caller \in WorkerCallers
  ELSE /\ call[c].caller \in AdminCallers /\ call[c].assertion = "this"
       /\ {"member", PermissionOf(call[c].op)} \subseteq held[c]

Ended   == {"answered", "done"}
Checked == {"idle", "called", "membership", "permission", "authorized"}
Working == {"authorized", "begin", "transaction", "source", "begin_close", "closing_period",
            "publish", "begin_record", "recording"}

\* Authorization comes first, and each check has been passed by the next place.
Gates(c) ==
  /\ at[c] \notin {"idle", "done"} => Asked(c)
  /\ at[c] \notin Ended => answer[c] = Silence
  /\ at[c] \in Checked => handle[c] = 0
  /\ at[c] \in {"membership", "permission", "authorized"} => call[c].op \in AdminOperations
  /\ at[c] \in {"membership", "permission"} =>
       call[c].caller \in AdminCallers /\ call[c].assertion = "this"
  /\ at[c] = "permission" => "member" \in held[c]
  /\ at[c] \in Working \/ Learned(c) => Entitled(c)
  /\ at[c] \in {"source", "begin_close", "closing_period"} => call[c].op = "close_period"
  /\ at[c] \in {"publish", "begin_record", "recording"} => call[c].op = "reconcile_next"

\* What has been changed, has failed or was said, and what may still be answered.
Outcomes(c) ==
  /\ wrote[c] => /\ at[c] \in {"publish", "begin_record", "recording"} \cup Ended
                 /\ answer[c].kind # "domain"
                 /\ call[c].op \in Writes \cup {"reconcile_next"}
  /\ faulty[c] => /\ answer[c].kind # "ok"
                  /\ \/ at[c] \in Ended
                     \/ at[c] \in {"begin_record", "recording"} /\ delivery[c].said = SinkFailure
  /\ delivery[c].said # Nothing => at[c] \in {"begin_record", "recording"} \cup Ended
  /\ delivery[c].recorded # "nothing" => /\ at[c] \in Ended
                                         /\ delivery[c].recorded = StatusOf(delivery[c].said)
  /\ answer[c].kind = "ok" /\ delivery[c].said # Nothing =>
       answer[c].code = delivery[c].recorded

Arrived(c) ==
  at[c] = "done" /\ answer[c] # Silence =>
    Asked(c) /\ received[c] = AnswerReceived(call[c].route, answer[c])

Stages == \A c \in Calls : Gates(c) /\ Outcomes(c) /\ Arrived(c)

\* Authority that a running call needs and that is there now has been witnessed.
Current ==
  \A c \in Running : Needed(call[c].op) \cap Now(call[c].subject) \subseteq held[c]

IInv == TypeOK /\ Stages /\ Current /\ QuietWhenInactive

-----------------------------------------------------------------------------
\* What a step of one call leaves alone.
Untouched(c) == UNCHANGED <<at[c], call[c], handle[c], answer[c], received[c], delivery[c],
                            held[c], faulty[c], wrote[c]>>

\* The steps of one call.
Steps(c) ==
  \/ \E r \in Requests("direct", Instances, Operations) : Call(c, r)
  \/ \E r \in Requests("tool", {Tools}, ToolOperations) : Execute(c, r)
  \/ \E error \in {"not_found", "invalid_arguments"} : ExecuteRefused(c, error)
  \/ Enter(c) \/ CheckMembership(c) \/ CheckPermission(c) \/ Handle(c)
  \/ Begin(c) \/ Transact(c) \/ ReadAccount(c) \/ ReadSource(c)
  \/ EnterWorker(c) \/ Claim(c) \/ Publish(c) \/ Record(c)
  \/ Return(c) \/ Forget(c) \/ Cancel(c)

\* The steps of everybody else.
World ==
  \/ \E s \in Subjects : \/ Join(s) \/ Leave(s)
                         \/ \E p \in Permissions : Grant(s, p) \/ Revoke(s, p)
  \/ Activate \/ Deactivate \/ Deactivated

LEMMA OthersUntouched ==
  ASSUME TypeOK, NEW b \in Calls, Steps(b), NEW c \in Calls, c # b
  PROVE  Untouched(c)
<1>a. /\ at = [k \in Calls |-> at[k]] /\ call = [k \in Calls |-> call[k]]
      /\ handle = [k \in Calls |-> handle[k]] /\ answer = [k \in Calls |-> answer[k]]
      /\ received = [k \in Calls |-> received[k]] /\ delivery = [k \in Calls |-> delivery[k]]
      /\ held = [k \in Calls |-> held[k]] /\ faulty = [k \in Calls |-> faulty[k]]
      /\ wrote = [k \in Calls |-> wrote[k]]
  BY DEF TypeOK
<1> USE <1>a DEF Untouched
<1>1. CASE \/ \E r \in Requests("direct", Instances, Operations) : Call(b, r)
           \/ \E r \in Requests("tool", {Tools}, ToolOperations) : Execute(b, r)
           \/ \E error \in {"not_found", "invalid_arguments"} : ExecuteRefused(b, error)
  BY <1>1 DEF Call, Execute, ExecuteRefused, Starts, Goto
<1>2. CASE Enter(b)
  BY <1>2 DEF Enter, Answer, Goto
<1>3. CASE CheckMembership(b)
  BY <1>3 DEF CheckMembership, Fails, Answer, Goto
<1>4. CASE CheckPermission(b)
  BY <1>4 DEF CheckPermission, Fails, Answer, Goto
<1>5. CASE Handle(b)
  BY <1>5 DEF Handle, Prepared, Answer, Goto
<1>6. CASE Begin(b)
  BY <1>6 DEF Begin, Answer, Goto
<1>7. CASE Transact(b)
  BY <1>7 DEF Transact, Answer, Goto
<1>8. CASE ReadAccount(b)
  BY <1>8 DEF ReadAccount, Answer, Goto
<1>9. CASE ReadSource(b)
  BY <1>9 DEF ReadSource, Prepared, Fails, Answer, Goto
<1>10. CASE EnterWorker(b)
  BY <1>10 DEF EnterWorker, Prepared, Answer, Goto
<1>11. CASE Claim(b)
  BY <1>11 DEF Claim, Answer, Goto
<1>12. CASE Publish(b)
  BY <1>12 DEF Publish, Prepared, Answer, Goto
<1>13. CASE Record(b)
  BY <1>13 DEF Record, Answer, Goto
<1>14. CASE Return(b)
  BY <1>14 DEF Return, Goto
<1>15. CASE Forget(b)
  BY <1>15 DEF Forget, Reset, Goto
<1>16. CASE Cancel(b)
  BY <1>16 DEF Cancel, Reset, Goto
<1> QED
  BY <1>1, <1>2, <1>3, <1>4, <1>5, <1>6, <1>7, <1>8, <1>9,
     <1>10, <1>11, <1>12, <1>13, <1>14, <1>15, <1>16 DEF Steps

\* The world moves authority and the pool; of the calls, only what they have witnessed.
LEMMA WorldMoves ==
  ASSUME TypeOK, World
  PROVE  /\ UNCHANGED <<at, call, handle, answer, received, delivery, faulty, wrote>>
         /\ \A c \in Calls : held[c] \subseteq held'[c]
<1>1. ASSUME NEW s, NEW f, Witness(s, f)
      PROVE  \A c \in Calls : held[c] \subseteq held'[c]
  BY <1>1 DEF Witness
<1> QED
  BY <1>1 DEF World, Join, Leave, Grant, Revoke, Activate, Deactivate, Deactivated

LEMMA NextIsStep ==
  ASSUME Next
  PROVE  World \/ \E c \in Calls : Steps(c)
BY DEF Next, World, Steps

-----------------------------------------------------------------------------
LEMMA StepKeepsGates ==
  ASSUME TypeOK, NEW c \in Calls, Gates(c), Steps(c),
         at[c] \notin {"idle", "done"} => Needed(call[c].op) \cap Now(call[c].subject) \subseteq held[c]
  PROVE  Gates(c)'
<1> USE DEF TypeOK, Gates, Asked, Ended, Checked, Working, Learned, Entitled, Silence, Ok, Domain, Runtime, Known
<1>1. CASE \/ \E r \in Requests("direct", Instances, Operations) : Call(c, r)
           \/ \E r \in Requests("tool", {Tools}, ToolOperations) : Execute(c, r)
<2>1. PICK r \in Requests("direct", Instances, Operations)
                 \cup Requests("tool", {Tools}, ToolOperations) :
        Starts(c, r) /\ UNCHANGED <<handle, answer>>
  BY <1>1 DEF Call, Execute
<2>2. at[c] = "idle" /\ at'[c] = "called" /\ call'[c] = r
  BY <2>1 DEF Starts, Goto
<2>3. handle'[c] = 0 /\ answer'[c] = Silence /\ ~Learned(c)'
  BY <2>1, <2>2
<2> QED
  BY <2>2, <2>3
<1>2. CASE \E error \in {"not_found", "invalid_arguments"} : ExecuteRefused(c, error)
  BY <1>2 DEF ExecuteRefused, Goto
<1>3. CASE Enter(c)
  BY <1>3 DEF Enter, Answer, Goto
<1>4. CASE CheckMembership(c)
<2>1. call[c].subject \in members => "member" \in held[c]
  BY <1>4 DEF CheckMembership, Needed, Now
<2> QED
  BY <1>4, <2>1 DEF CheckMembership, Fails, Answer, Goto
<1>5. CASE CheckPermission(c)
<2>1. PermissionOf(call[c].op) \in Permissions
  BY <1>5 DEF CheckPermission, Permissions
<2>2. <<call[c].subject, PermissionOf(call[c].op)>> \in grants
        => PermissionOf(call[c].op) \in held[c]
  BY <1>5, <2>1 DEF CheckPermission, Needed, Now
<2>3. call[c].op # "reconcile_next"
  BY <1>5 DEF CheckPermission, AdminOperations
<2> QED
  BY <1>5, <2>2, <2>3 DEF CheckPermission, Fails, Answer, Goto
<1>6. CASE Handle(c)
  BY <1>6 DEF Handle, Prepared, Answer, Goto
<1>7. CASE Begin(c)
  BY <1>7 DEF Begin, Answer, Goto
<1>8. CASE Transact(c)
  BY <1>8 DEF Transact, Answer, Goto
<1>9. CASE ReadAccount(c)
  BY <1>9 DEF ReadAccount, Answer, Goto
<1>10. CASE ReadSource(c)
  BY <1>10 DEF ReadSource, Prepared, Fails, Answer, Goto
<1>11. CASE EnterWorker(c)
  BY <1>11 DEF EnterWorker, Prepared, Answer, Goto
<1>12. CASE Claim(c)
  BY <1>12 DEF Claim, Answer, Goto
<1>13. CASE Publish(c)
  BY <1>13 DEF Publish, Prepared, Answer, Goto
<1>14. CASE Record(c)
  BY <1>14 DEF Record, Answer, Goto
<1>15. CASE Return(c)
  BY <1>15 DEF Return, Goto
<1>16. CASE Forget(c) \/ Cancel(c)
  BY <1>16 DEF Forget, Cancel, Reset, Goto
<1> QED
  BY <1>1, <1>2, <1>3, <1>4, <1>5, <1>6, <1>7, <1>8, <1>9, <1>10, <1>11, <1>12, <1>13, <1>14,
     <1>15, <1>16 DEF Steps

LEMMA StepKeepsOutcomes ==
  ASSUME TypeOK, NEW c \in Calls, Gates(c), Outcomes(c), Steps(c)
  PROVE  Outcomes(c)'
<1> USE DEF TypeOK, Gates, Outcomes, Ended, Checked, Silence, Ok, Domain, Runtime, Nothing, SinkFailure
<1>1. CASE \/ \E r \in Requests("direct", Instances, Operations) : Call(c, r)
           \/ \E r \in Requests("tool", {Tools}, ToolOperations) : Execute(c, r)
  BY <1>1 DEF Call, Execute, Starts, Goto
<1>2. CASE \E error \in {"not_found", "invalid_arguments"} : ExecuteRefused(c, error)
  BY <1>2 DEF ExecuteRefused, Goto
<1>3. CASE Enter(c)
  BY <1>3 DEF Enter, Answer, Goto
<1>4. CASE CheckMembership(c)
  BY <1>4 DEF CheckMembership, Fails, Answer, Goto
<1>5. CASE CheckPermission(c)
  BY <1>5 DEF CheckPermission, Fails, Answer, Goto
<1>6. CASE Handle(c)
  BY <1>6 DEF Handle, Prepared, Answer, Goto
<1>7. CASE Begin(c)
  BY <1>7 DEF Begin, Answer, Goto
<1>8. CASE Transact(c)
  BY <1>8 DEF Transact, Answer, Goto
<1>9. CASE ReadAccount(c)
  BY <1>9 DEF ReadAccount, Answer, Goto
<1>10. CASE ReadSource(c)
  BY <1>10 DEF ReadSource, Prepared, Fails, Answer, Goto
<1>11. CASE EnterWorker(c)
  BY <1>11 DEF EnterWorker, Prepared, Answer, Goto
<1>12. CASE Claim(c)
  BY <1>12 DEF Claim, Answer, Goto
<1>13. CASE Publish(c)
  BY <1>13 DEF Publish, Prepared, Answer, Goto
<1>14. CASE Record(c)
  BY <1>14 DEF Record, Answer, Goto
<1>15. CASE Return(c)
  BY <1>15 DEF Return, Goto
<1>16. CASE Forget(c)
  BY <1>16 DEF Forget, Reset, Goto
<1>17. CASE Cancel(c)
  BY <1>17 DEF Cancel, Reset, Goto
<1> QED
  BY <1>1, <1>2, <1>3, <1>4, <1>5, <1>6, <1>7, <1>8, <1>9, <1>10,
     <1>11, <1>12, <1>13, <1>14, <1>15, <1>16, <1>17 DEF Steps

LEMMA StepKeepsArrived ==
  ASSUME TypeOK, NEW c \in Calls, Gates(c), Arrived(c), Steps(c)
  PROVE  Arrived(c)'
<1> USE DEF TypeOK, Arrived
<1>1. CASE \/ \E r \in Requests("direct", Instances, Operations) : Call(c, r)
           \/ \E r \in Requests("tool", {Tools}, ToolOperations) : Execute(c, r)
  BY <1>1 DEF Call, Execute, Starts, Goto
<1>2. CASE \E error \in {"not_found", "invalid_arguments"} : ExecuteRefused(c, error)
  BY <1>2 DEF ExecuteRefused, Goto, Gates, Ended
<1>15. CASE Return(c)
  BY <1>15 DEF Return, Goto, Gates, Asked
<1>16. CASE Forget(c) \/ Cancel(c)
  BY <1>16 DEF Forget, Cancel, Reset, Goto
<1>3. CASE Enter(c) \/ CheckMembership(c) \/ CheckPermission(c) \/ Handle(c)
  <2>1. at'[c] # "done"
    BY <1>3 DEF Enter, CheckMembership, CheckPermission, Handle, Prepared, Fails, Answer, Goto
  <2> QED
    BY <2>1
<1>4. CASE Begin(c) \/ Transact(c) \/ ReadAccount(c) \/ ReadSource(c)
  <2>1. at'[c] # "done"
    BY <1>4 DEF Begin, Transact, ReadAccount, ReadSource, Prepared, Fails, Answer, Goto
  <2> QED
    BY <2>1
<1>5. CASE EnterWorker(c) \/ Claim(c) \/ Publish(c) \/ Record(c)
  <2>1. at'[c] # "done"
    BY <1>5 DEF EnterWorker, Claim, Publish, Record, Prepared, Answer, Goto
  <2> QED
    BY <2>1
<1> QED
  BY <1>1, <1>2, <1>3, <1>4, <1>5, <1>15, <1>16 DEF Steps

\* The world only adds to what a call has witnessed.
LEMMA WorldKeepsStages ==
  ASSUME TypeOK, Stages, World
  PROVE  Stages'
<1> SUFFICES ASSUME NEW c \in Calls
             PROVE  Gates(c)' /\ Outcomes(c)' /\ Arrived(c)'
  BY DEF Stages
<1>1. /\ Gates(c) /\ Outcomes(c) /\ Arrived(c)
      /\ at' = at /\ call' = call /\ handle' = handle /\ answer' = answer
      /\ received' = received /\ delivery' = delivery /\ faulty' = faulty /\ wrote' = wrote
      /\ held[c] \subseteq held'[c]
  BY WorldMoves DEF Stages
<1>2. Gates(c)'
  BY <1>1 DEF Gates, Asked, Entitled, Learned
<1>3. Outcomes(c)' /\ Arrived(c)'
  BY <1>1 DEF Outcomes, Arrived, Asked
<1> QED
  BY <1>2, <1>3

LEMMA UntouchedKeepsStages ==
  ASSUME NEW c \in Calls, Gates(c), Outcomes(c), Arrived(c), Untouched(c)
  PROVE  Gates(c)' /\ Outcomes(c)' /\ Arrived(c)'
<1>1. Gates(c)'
  BY DEF Untouched, Gates, Asked, Entitled, Learned
<1>2. Outcomes(c)' /\ Arrived(c)'
  BY DEF Untouched, Outcomes, Arrived, Asked
<1> QED
  BY <1>1, <1>2

LEMMA NextKeepsStages ==
  ASSUME TypeOK, Stages, Current, Next
  PROVE  Stages'
<1>1. CASE World
  BY <1>1, WorldKeepsStages
<1>2. ASSUME NEW b \in Calls, Steps(b)
      PROVE  Stages'
  <2>1. ASSUME NEW c \in Calls
        PROVE  Gates(c)' /\ Outcomes(c)' /\ Arrived(c)'
    <3>1. Gates(c) /\ Outcomes(c) /\ Arrived(c)
      BY DEF Stages
    <3>2. CASE c = b
      <4>1. at[c] \notin {"idle", "done"} =>
              Needed(call[c].op) \cap Now(call[c].subject) \subseteq held[c]
        BY DEF Current, Running
      <4> QED
        BY <1>2, <3>1, <3>2, <4>1, StepKeepsGates, StepKeepsOutcomes, StepKeepsArrived
    <3>3. CASE c # b
      BY <1>2, <3>1, <3>3, OthersUntouched, UntouchedKeepsStages
    <3> QED
      BY <3>2, <3>3
  <2> QED
    BY <2>1 DEF Stages
<1> QED
  BY <1>1, <1>2, NextIsStep

-----------------------------------------------------------------------------
\* What the checks may read has been witnessed, whoever moves.
LEMMA NextKeepsCurrent ==
  ASSUME TypeOK, Current, Next
  PROVE  Current'
<1> SUFFICES ASSUME NEW c \in Calls, at'[c] \notin {"idle", "done"}
             PROVE  (Needed(call[c].op) \cap Now(call[c].subject) \subseteq held[c])'
  BY DEF Current, Running
<1>1. CASE World
  <2>1. at' = at /\ call' = call /\ held[c] \subseteq held'[c] /\ c \in Running
    BY <1>1, WorldMoves DEF Running
  <2>2. Needed(call[c].op) \cap Now(call[c].subject) \subseteq held[c]
    BY <2>1 DEF Current
  <2>3. ASSUME NEW s \in Subjects, Join(s)
        PROVE  (Needed(call[c].op) \cap Now(call[c].subject) \subseteq held[c])'
    <3> DEFINE needed == Needed(call[c].op)
    <3>1. held'[c] = IF call[c].subject = s THEN held[c] \cup (needed \cap {"member"})
                                            ELSE held[c]
      BY <2>1, <2>3 DEF Join, Witness
    <3>2. Now(call[c].subject)' \subseteq
            Now(call[c].subject) \cup (IF call[c].subject = s THEN {"member"} ELSE {})
      BY <2>1, <2>3 DEF Join, Now
    <3>3. needed' = needed
      BY <2>1 DEF Needed
    <3> HIDE DEF needed
    <3> QED
      BY <2>2, <3>1, <3>2, <3>3 DEF needed
  <2>4. ASSUME NEW s \in Subjects, NEW p \in Permissions, Grant(s, p)
        PROVE  (Needed(call[c].op) \cap Now(call[c].subject) \subseteq held[c])'
    <3> DEFINE needed == Needed(call[c].op)
    <3>1. held'[c] = IF call[c].subject = s THEN held[c] \cup (needed \cap {p})
                                            ELSE held[c]
      BY <2>1, <2>4 DEF Grant, Witness
    <3>2. Now(call[c].subject)' \subseteq
            Now(call[c].subject) \cup (IF call[c].subject = s THEN {p} ELSE {})
      BY <2>1, <2>4 DEF Grant, Now
    <3>3. needed' = needed
      BY <2>1 DEF Needed
    <3> HIDE DEF needed
    <3> QED
      BY <2>2, <3>1, <3>2, <3>3 DEF needed
  <2>5. ASSUME members' \subseteq members, grants' \subseteq grants
        PROVE  (Needed(call[c].op) \cap Now(call[c].subject) \subseteq held[c])'
    BY <2>1, <2>2, <2>5 DEF Now, Needed
  <2> QED
    BY <1>1, <2>3, <2>4, <2>5 DEF World, Leave, Revoke, Activate, Deactivate, Deactivated,
                                authority
<1>2. ASSUME NEW b \in Calls, Steps(b)
      PROVE  (Needed(call[c].op) \cap Now(call[c].subject) \subseteq held[c])'
  <2>1. members' = members /\ grants' = grants
    BY <1>2 DEF Steps, Call, Execute, ExecuteRefused, Enter, CheckMembership, CheckPermission,
                Handle, Begin, Transact, ReadAccount, ReadSource, EnterWorker, Claim, Publish,
                Record, Return, Forget, Cancel, Reset, authority
  <2>2. CASE c # b
    BY <1>2, <2>1, <2>2, OthersUntouched DEF Untouched, Current, Running, Now, Needed
  <2>3. CASE c = b
    <3>1. CASE \/ \E r \in Requests("direct", Instances, Operations) : Call(c, r)
               \/ \E r \in Requests("tool", {Tools}, ToolOperations) : Execute(c, r)
      <4>1. PICK r : Starts(c, r)
        BY <3>1 DEF Call, Execute
      <4>2. call'[c] = r /\ held'[c] = Needed(r.op) \cap Now(r.subject)
        BY <4>1 DEF Starts, TypeOK
      <4> QED
        BY <2>1, <4>2 DEF Needed, Now
    <3>2. CASE /\ at[c] \notin {"idle", "done"} /\ call'[c] = call[c] /\ held'[c] = held[c]
      BY <2>1, <3>2 DEF Current, Running, Now, Needed
    <3>3. CASE \E error \in {"not_found", "invalid_arguments"} : ExecuteRefused(c, error)
      BY <3>3 DEF ExecuteRefused, Goto, TypeOK
    <3>4. CASE Return(c) \/ Forget(c) \/ Cancel(c)
      BY <3>4 DEF Return, Forget, Cancel, Reset, Goto, TypeOK
    <3>5. CASE Enter(c) \/ CheckMembership(c) \/ CheckPermission(c) \/ Handle(c)
      BY <3>2, <3>5 DEF Enter, CheckMembership, CheckPermission, Handle
    <3>6. CASE Begin(c) \/ Transact(c) \/ ReadAccount(c) \/ ReadSource(c)
      BY <3>2, <3>6 DEF Begin, Transact, ReadAccount, ReadSource
    <3>7. CASE EnterWorker(c) \/ Claim(c) \/ Publish(c) \/ Record(c)
      BY <3>2, <3>7 DEF EnterWorker, Claim, Publish, Record
    <3> QED
      BY <1>2, <2>3, <3>1, <3>3, <3>4, <3>5, <3>6, <3>7 DEF Steps
  <2> QED
    BY <2>2, <2>3
<1> QED
  BY <1>1, <1>2, NextIsStep

\* A closed pool is gone only when nobody works on it, and nobody begins on an old one.
LEMMA NextKeepsQuiet ==
  ASSUME TypeOK, QuietWhenInactive, Next
  PROVE  QuietWhenInactive'
<1> SUFFICES ASSUME NEW c \in Calls, InTransaction(c)'
             PROVE  (pool # "none" /\ handle[c] = activation)'
  BY DEF QuietWhenInactive
<1>1. CASE World
  <2>1. at' = at /\ handle' = handle /\ InTransaction(c)
    BY <1>1, WorldMoves DEF InTransaction
  <2> QED
    BY <1>1, <2>1 DEF QuietWhenInactive, World, Join, Leave, Grant, Revoke, Activate, Deactivate,
                      Deactivated, process
<1>2. ASSUME NEW b \in Calls, Steps(b)
      PROVE  (pool # "none" /\ handle[c] = activation)'
  <2>1. pool' = pool /\ activation' = activation
    BY <1>2 DEF Steps, Call, Execute, ExecuteRefused, Enter, CheckMembership, CheckPermission,
                Handle, Begin, Transact, ReadAccount, ReadSource, EnterWorker, Claim, Publish,
                Record, Return, Forget, Cancel, Reset, process
  <2>2. CASE c # b
    BY <1>2, <2>1, <2>2, OthersUntouched DEF Untouched, QuietWhenInactive, InTransaction
  <2>3. CASE c = b /\ Begin(c)
    BY <2>1, <2>3 DEF Begin, CanBegin, Answer, Goto, InTransaction, TypeOK
  <2>4. CASE c = b /\ ~Begin(c)
    <3>1. at'[c] \notin {"transaction", "closing_period", "recording"}
      <4> USE DEF TypeOK
      <4>1. CASE \/ \E r \in Requests("direct", Instances, Operations) : Call(c, r)
                 \/ \E r \in Requests("tool", {Tools}, ToolOperations) : Execute(c, r)
                 \/ \E error \in {"not_found", "invalid_arguments"} : ExecuteRefused(c, error)
        BY <4>1 DEF Call, Execute, ExecuteRefused, Starts, Goto
      <4>2. CASE Enter(c) \/ CheckMembership(c) \/ CheckPermission(c) \/ Handle(c)
        BY <4>2 DEF Enter, CheckMembership, CheckPermission, Handle, Prepared, Fails, Answer, Goto
      <4>3. CASE Transact(c) \/ ReadAccount(c) \/ ReadSource(c)
        BY <4>3 DEF Transact, ReadAccount, ReadSource, Prepared, Fails, Answer, Goto
      <4>4. CASE EnterWorker(c) \/ Claim(c) \/ Publish(c) \/ Record(c)
        BY <4>4 DEF EnterWorker, Claim, Publish, Record, Prepared, Answer, Goto
      <4>5. CASE Return(c) \/ Forget(c) \/ Cancel(c)
        BY <4>5 DEF Return, Forget, Cancel, Reset, Goto
      <4> QED
        BY <1>2, <2>4, <4>1, <4>2, <4>3, <4>4, <4>5 DEF Steps
    <3> QED
      BY <3>1 DEF InTransaction
  <2> QED
    BY <1>2, <2>2, <2>3, <2>4
<1> QED
  BY <1>1, <1>2, NextIsStep

-----------------------------------------------------------------------------
\* Types.
Places == {"idle", "called", "membership", "permission", "authorized", "begin", "transaction",
           "source", "begin_close", "closing_period", "publish", "begin_record", "recording",
           "answered", "done"}
Given  == Answers({Known(k) : k \in BillingCodes})
Heard  == Answers(BillingErrors \cup ToolErrors)

LEMMA WhatIsGiven ==
  /\ Silence \in Given /\ Runtime \in Given
  /\ \A k \in Operations \cup {"idle", "delivered", "failed", "unknown"} : Ok(k) \in Given
  /\ \A k \in BillingCodes : Domain(Known(k)) \in Given
BY DEF Given, Answers, Silence, Runtime, Ok, Domain

LEMMA FailuresHaveCodes ==
  ASSUME NEW op, NEW f \in FailuresOf(op) \cup {"source_rejected", "forbidden",
                                   "unauthenticated", "invalid_request"}
  PROVE  f \in BillingCodes
BY DEF FailuresOf, BillingCodes

LEMMA KnownOrPassedOn ==
  ASSUME NEW codes, NEW k \in codes
  PROVE  {Known(k), Unknown(k, FALSE)} \subseteq ErrorsOf(codes)
<1> DEFINE unknowns(B) == {Unknown(x, y) : x \in codes, y \in B}
           knowns      == {Known(x) : x \in codes}
<1>1. \A B : \A b \in B : Unknown(k, b) \in unknowns(B)
  BY SMT
<1>2. Known(k) \in knowns
  BY SMT
<1>3. ErrorsOf(codes) = knowns \cup unknowns(BOOLEAN)
  BY DEF ErrorsOf
<1> HIDE DEF unknowns, knowns
<1>4. Unknown(k, FALSE) \in unknowns(BOOLEAN)
  BY <1>1, Zenon
<1> QED
  BY <1>2, <1>3, <1>4, Zenon

\* The codec and the tools make of an answer something a caller may be given.
LEMMA WhatIsHeard ==
  ASSUME NEW route, NEW a \in Given
  PROVE  AnswerReceived(route, a) \in Heard
<1>1. CASE a.kind # "domain"
  BY <1>1 DEF Given, Heard, Answers, AnswerReceived, Silence, Runtime
<1>2. CASE a.kind = "domain"
  <2>1. PICK k \in BillingCodes : a.error = Known(k)
    BY <1>2 DEF Given, Answers, Silence, Runtime
  <2>2. Received(a.error, ClientCodes) \in {Known(k), Unknown(k, FALSE)}
    BY <2>1 DEF Received, Decode, Encode, Known, Unknown
  <2>3. {Known(k), Unknown(k, FALSE)} \subseteq BillingErrors
    <3>1. k \in BillingCodes \cup {NewerCode}
      OBVIOUS
    <3> QED
      BY <3>1, KnownOrPassedOn DEF BillingErrors
  <2>4. \A e : Known(ToolError(e)) \in ToolErrors
    BY DEF ToolError, ToolErrors
  <2>5. \A e \in BillingErrors \cup ToolErrors : Domain(e) \in Heard
    BY DEF Heard, Answers, Domain
  <2> QED
    BY <1>2, <2>2, <2>3, <2>4, <2>5 DEF AnswerReceived
<1> QED
  BY <1>1, <1>2

LEMMA AnswerIsTyped ==
  ASSUME at \in [Calls -> Places], answer \in [Calls -> Given], NEW c \in Calls,
         NEW a \in Given, Answer(c, a)
  PROVE  at' \in [Calls -> Places] /\ answer' \in [Calls -> Given]
BY DEF Answer, Goto, Places

LEMMA GotoIsTyped ==
  ASSUME at \in [Calls -> Places], NEW c \in Calls, NEW p \in Places, Goto(c, p)
  PROVE  at' \in [Calls -> Places]
BY DEF Goto

LEMMA PreparedIsTyped ==
  ASSUME at \in [Calls -> Places], answer \in [Calls -> Given], activation \in Nat,
         handle \in [Calls -> 0..activation], NEW c \in Calls, NEW p \in Places, Prepared(c, p)
  PROVE  /\ at' \in [Calls -> Places] /\ answer' \in [Calls -> Given]
         /\ handle' \in [Calls -> 0..activation]
<1>1. CASE Answer(c, Runtime) /\ UNCHANGED handle
  BY <1>1, WhatIsGiven, AnswerIsTyped
<1>2. CASE handle' = [handle EXCEPT ![c] = activation] /\ Goto(c, p) /\ UNCHANGED answer
  <2>1. activation \in 0..activation
    OBVIOUS
  <2> QED
    BY <1>2, <2>1, GotoIsTyped
<1> QED
  BY <1>1, <1>2 DEF Prepared

\* The places, handles and answers of the calls.
Tracked ==
  /\ at \in [Calls -> Places] /\ handle \in [Calls -> 0..activation]
  /\ answer \in [Calls -> Given]

LEMMA TypesOfOurs ==
  TypeOK <=>
    /\ members \subseteq Subjects /\ grants \subseteq Subjects \X Permissions
    /\ pool \in {"none", "open", "closing"} /\ activation \in 0..MaxActivations
    /\ Tracked
    /\ call \in [Calls -> Requests("direct", Instances, Operations)
                          \cup Requests("tool", {Tools}, ToolOperations) \cup {NoCall}]
    /\ received \in [Calls -> Heard]
    /\ delivery \in [Calls -> [said: {Nothing, Accepted, SinkFailure} \cup SinkErrors,
                               recorded: {"nothing", "delivered", "failed", "unknown"}]]
    /\ held \in [Calls -> SUBSET (Permissions \cup {"member"})]
    /\ faulty \in [Calls -> BOOLEAN] /\ wrote \in [Calls -> BOOLEAN]
BY DEF TypeOK, Tracked, Places, Given, Heard

LEMMA TypesOfOursNext ==
  ASSUME /\ members' \subseteq Subjects /\ grants' \subseteq Subjects \X Permissions
         /\ pool' \in {"none", "open", "closing"} /\ activation' \in 0..MaxActivations,
         Tracked',
         call' \in [Calls -> Requests("direct", Instances, Operations)
                           \cup Requests("tool", {Tools}, ToolOperations) \cup {NoCall}],
         received' \in [Calls -> Heard],
         delivery' \in [Calls -> [said: {Nothing, Accepted, SinkFailure} \cup SinkErrors,
                                 recorded: {"nothing", "delivered", "failed", "unknown"}]],
         held' \in [Calls -> SUBSET (Permissions \cup {"member"})],
         faulty' \in [Calls -> BOOLEAN] /\ wrote' \in [Calls -> BOOLEAN]
  PROVE  TypeOK'
BY DEF TypeOK, Tracked, Places, Given, Heard

LEMMA StepKeepsTracked ==
  ASSUME TypeOK, NEW c \in Calls, Gates(c), Steps(c)
  PROVE  Tracked'
<1>1. /\ Tracked /\ activation \in Nat /\ activation' = activation
  BY ConfigAssumption, TypesOfOurs DEF Steps, Call, Execute, ExecuteRefused, Enter,
     CheckMembership, CheckPermission, Handle, Begin, Transact, ReadAccount, ReadSource,
     EnterWorker, Claim, Publish, Record, Return, Forget, Cancel, Reset, process
<1>2. at \in [Calls -> Places] /\ handle \in [Calls -> 0..activation]
      /\ answer \in [Calls -> Given]
  BY <1>1 DEF Tracked
<1>3. ASSUME NEW a \in Given, Answer(c, a), UNCHANGED handle
      PROVE  Tracked'
  BY <1>1, <1>2, <1>3, AnswerIsTyped DEF Tracked
<1>4. ASSUME NEW p \in Places, Goto(c, p), UNCHANGED <<handle, answer>>
      PROVE  Tracked'
  BY <1>1, <1>2, <1>4, GotoIsTyped DEF Tracked
<1>5. ASSUME NEW p \in Places, Prepared(c, p)
      PROVE  Tracked'
  BY <1>1, <1>2, <1>5, PreparedIsTyped DEF Tracked
<1>6. /\ Runtime \in Given
      /\ \A k \in {"forbidden", "unauthenticated", "invalid_request", "source_rejected",
                    "not_found", "account_disabled", "revision_conflict"} :
           Domain(Known(k)) \in Given
      /\ \A op : \A f \in FailuresOf(op) : Domain(Known(f)) \in Given
  <2>1. {"forbidden", "unauthenticated", "invalid_request", "source_rejected",
         "not_found", "account_disabled", "revision_conflict"} \subseteq BillingCodes
    BY DEF BillingCodes
  <2> QED
    BY <2>1, WhatIsGiven, FailuresHaveCodes
<1>7. {"called", "membership", "permission", "authorized", "begin", "transaction", "source",
       "begin_close", "closing_period", "publish", "begin_record", "recording", "done", "idle"}
      \subseteq Places
  BY DEF Places
<1>11. CASE \/ \E r \in Requests("direct", Instances, Operations) : Call(c, r)
            \/ \E r \in Requests("tool", {Tools}, ToolOperations) : Execute(c, r)
            \/ \E error \in {"not_found", "invalid_arguments"} : ExecuteRefused(c, error)
            \/ Return(c)
  BY <1>4, <1>7, <1>11 DEF Call, Execute, ExecuteRefused, Return, Starts
<1>12. CASE Enter(c)
  BY <1>3, <1>4, <1>6, <1>7, <1>12 DEF Enter
<1>13. CASE CheckMembership(c) \/ CheckPermission(c)
  BY <1>3, <1>4, <1>6, <1>7, <1>13 DEF CheckMembership, CheckPermission, Fails
<1>14. CASE Handle(c) \/ EnterWorker(c)
  BY <1>3, <1>5, <1>6, <1>7, <1>14 DEF Handle, EnterWorker
<1>15. CASE Begin(c)
  BY <1>3, <1>4, <1>6, <1>7, <1>15 DEF Begin
<1>16. CASE Transact(c)
  <2>1. call[c].op \in Operations
    <3>1. call[c].op = "close_period" \/ call[c].op \in AdminOperations
      BY <1>16 DEF Transact, Gates
    <3> QED
      BY <3>1 DEF Operations, AdminOperations
  <2>2. Ok(call[c].op) \in Given
    BY <2>1, WhatIsGiven
  <2> QED
    BY <1>3, <1>6, <1>16, <2>2 DEF Transact
<1>17. CASE ReadAccount(c) \/ ReadSource(c)
  BY <1>3, <1>4, <1>5, <1>6, <1>7, <1>17 DEF ReadAccount, ReadSource, Fails
<1>18. CASE Claim(c)
  <2>1. Ok("idle") \in Given
    BY WhatIsGiven
  <2> QED
    BY <1>3, <1>4, <1>6, <1>7, <1>18, <2>1 DEF Claim
<1>19. CASE Publish(c)
  BY <1>5, <1>7, <1>19 DEF Publish
<1>20. CASE Record(c)
  <2>1. StatusOf(delivery[c].said) \in {"delivered", "failed", "unknown"}
    BY DEF StatusOf, SinkStatus
  <2>2. Ok(StatusOf(delivery[c].said)) \in Given
    BY <2>1, WhatIsGiven
  <2> QED
    BY <1>3, <1>6, <1>20, <2>2 DEF Record
<1>21. CASE Forget(c) \/ Cancel(c)
  <2>1. at' = [at EXCEPT ![c] = "idle"] /\ handle' = [handle EXCEPT ![c] = 0]
        /\ answer' = [answer EXCEPT ![c] = Silence]
    BY <1>21 DEF Forget, Cancel, Reset, Goto
  <2>2. 0 \in 0..activation /\ "idle" \in Places /\ Silence \in Given
    BY <1>1, <1>7, WhatIsGiven
  <2> QED
    BY <1>1, <1>2, <2>1, <2>2 DEF Tracked
<1> QED
  BY <1>11, <1>12, <1>13, <1>14, <1>15, <1>16, <1>17, <1>18, <1>19, <1>20, <1>21 DEF Steps

LEMMA WorldKeepsTypes ==
  ASSUME TypeOK, World
  PROVE  TypeOK'
<1>1. /\ at' = at /\ call' = call /\ handle' = handle /\ answer' = answer
      /\ received' = received /\ delivery' = delivery /\ faulty' = faulty /\ wrote' = wrote
  BY WorldMoves
<1>2. /\ members' \subseteq Subjects /\ grants' \subseteq Subjects \X Permissions
  BY TypesOfOurs DEF World, Join, Leave, Grant, Revoke, Activate, Deactivate, Deactivated, authority
<1>3. /\ pool' \in {"none", "open", "closing"} /\ activation' \in 0..MaxActivations
      /\ activation' \in Nat /\ activation <= activation' /\ activation \in Nat
  BY TypesOfOurs, ConfigAssumption
     DEF World, Join, Leave, Grant, Revoke, Activate, Deactivate, Deactivated, process
<1>4. Tracked'
  <2>1. 0..activation \subseteq 0..activation'
    BY <1>3
  <2>2. handle \in [Calls -> 0..activation'] /\ at \in [Calls -> Places]
        /\ answer \in [Calls -> Given]
    BY <2>1, TypesOfOurs DEF Tracked
  <2> QED
    BY <1>1, <2>2 DEF Tracked
<1>5. held' \in [Calls -> SUBSET (Permissions \cup {"member"})]
  <2>1. held \in [Calls -> SUBSET (Permissions \cup {"member"})]
    BY TypesOfOurs
  <2>2. ASSUME NEW s, NEW fact \in Permissions \cup {"member"}, Witness(s, fact)
        PROVE  held' \in [Calls -> SUBSET (Permissions \cup {"member"})]
    BY <2>1, <2>2 DEF Witness
  <2> QED
    BY <2>1, <2>2 DEF World, Join, Leave, Grant, Revoke, Activate, Deactivate, Deactivated
<1>6. /\ call \in [Calls -> Requests("direct", Instances, Operations)
                          \cup Requests("tool", {Tools}, ToolOperations) \cup {NoCall}]
      /\ received \in [Calls -> Heard]
      /\ delivery \in [Calls -> [said: {Nothing, Accepted, SinkFailure} \cup SinkErrors,
                                recorded: {"nothing", "delivered", "failed", "unknown"}]]
      /\ faulty \in [Calls -> BOOLEAN] /\ wrote \in [Calls -> BOOLEAN]
  BY TypesOfOurs
<1> QED
  BY <1>1, <1>2, <1>3, <1>4, <1>5, <1>6, TypesOfOursNext

LEMMA StepKeepsRest ==
  ASSUME TypeOK, NEW c \in Calls, Gates(c), Steps(c)
  PROVE  /\ members' = members /\ grants' = grants /\ pool' = pool /\ activation' = activation
         /\ call' \in [Calls -> Requests("direct", Instances, Operations)
                               \cup Requests("tool", {Tools}, ToolOperations) \cup {NoCall}]
         /\ received' \in [Calls -> Heard]
         /\ delivery' \in [Calls -> [said: {Nothing, Accepted, SinkFailure} \cup SinkErrors,
                                     recorded: {"nothing", "delivered", "failed", "unknown"}]]
         /\ held' \in [Calls -> SUBSET (Permissions \cup {"member"})]
         /\ faulty' \in [Calls -> BOOLEAN] /\ wrote' \in [Calls -> BOOLEAN]
<1> DEFINE asked == Requests("direct", Instances, Operations)
                    \cup Requests("tool", {Tools}, ToolOperations)
           said  == {Nothing, Accepted, SinkFailure} \cup SinkErrors
           facts == Permissions \cup {"member"}
<1>0. /\ call \in [Calls -> asked \cup {NoCall}] /\ received \in [Calls -> Heard]
      /\ delivery \in [Calls -> [said: said, recorded: {"nothing", "delivered", "failed", "unknown"}]]
      /\ held \in [Calls -> SUBSET facts]
      /\ faulty \in [Calls -> BOOLEAN] /\ wrote \in [Calls -> BOOLEAN]
  BY TypesOfOurs
<1> HIDE DEF asked, said, facts
<1>1. members' = members /\ grants' = grants /\ pool' = pool /\ activation' = activation
  BY DEF Steps, Call, Execute, ExecuteRefused, Enter, CheckMembership, CheckPermission,
         Handle, Begin, Transact, ReadAccount, ReadSource, EnterWorker, Claim, Publish,
         Record, Return, Forget, Cancel, Reset, process, authority
<1>2. CASE Forget(c) \/ Cancel(c)
  <2>1. Silence \in Heard /\ Nothing \in said
    BY DEF Heard, Answers, said
  <2>2. [said |-> Nothing, recorded |-> "nothing"]
          \in [said: said, recorded: {"nothing", "delivered", "failed", "unknown"}]
    BY <2>1
  <2>3. call' \in [Calls -> asked \cup {NoCall}] /\ received' \in [Calls -> Heard]
        /\ held' \in [Calls -> SUBSET facts]
    <3>1. /\ call' = [call EXCEPT ![c] = NoCall] /\ received' = [received EXCEPT ![c] = Silence]
          /\ held' = [held EXCEPT ![c] = {}]
      BY <1>2 DEF Forget, Cancel, Reset
    <3> QED
      BY <1>0, <2>1, <3>1
  <2>4. delivery' = [delivery EXCEPT ![c] = [said |-> Nothing, recorded |-> "nothing"]]
        /\ faulty' = [faulty EXCEPT ![c] = FALSE] /\ wrote' = [wrote EXCEPT ![c] = FALSE]
    BY <1>2 DEF Forget, Cancel, Reset
  <2> QED
    BY <1>0, <1>1, <2>2, <2>3, <2>4 DEF asked, said, facts
<1>3. received' \in [Calls -> Heard] \/ Forget(c) \/ Cancel(c)
  <2>1. CASE Return(c)
    <3>1. AnswerReceived(call[c].route, answer[c]) \in Heard
      BY TypesOfOurs, WhatIsHeard DEF Tracked
    <3> QED
      BY <1>0, <2>1, <3>1 DEF Return
  <2>2. CASE \E error \in {"not_found", "invalid_arguments"} : ExecuteRefused(c, error)
    <3>1. \A error \in {"not_found", "invalid_arguments"} : Domain(Known(error)) \in Heard
      BY DEF Heard, Answers, Domain, ToolErrors
    <3> QED
      BY <1>0, <2>2, <3>1 DEF ExecuteRefused
  <2>3. received' = received \/ Return(c) \/ Forget(c) \/ Cancel(c)
        \/ \E error \in {"not_found", "invalid_arguments"} : ExecuteRefused(c, error)
    BY DEF Steps, Call, Execute, Enter, CheckMembership, CheckPermission, Handle, Begin,
           Transact, ReadAccount, ReadSource, EnterWorker, Claim, Publish, Record
  <2> QED
    BY <1>0, <2>1, <2>2, <2>3
<1>4. \/ call' \in [Calls -> asked \cup {NoCall}] /\ held' \in [Calls -> SUBSET facts]
      \/ Forget(c) \/ Cancel(c)
  <2>1. ASSUME NEW r \in asked, Starts(c, r)
        PROVE  call' \in [Calls -> asked \cup {NoCall}] /\ held' \in [Calls -> SUBSET facts]
    <3>1. Needed(r.op) \cap Now(r.subject) \subseteq facts
      BY DEF Now, facts
    <3> QED
      BY <1>0, <2>1, <3>1 DEF Starts
  <2>2. \/ call' = call /\ held' = held
        \/ \E r \in asked : Starts(c, r)
        \/ Forget(c) \/ Cancel(c)
    BY DEF Steps, Call, Execute, ExecuteRefused, Enter, CheckMembership, CheckPermission, Handle,
           Begin, Transact, ReadAccount, ReadSource, EnterWorker, Claim, Publish, Record, Return,
           asked
  <2> QED
    BY <1>0, <2>1, <2>2
<1>5. delivery' \in [Calls -> [said: said, recorded: {"nothing", "delivered", "failed", "unknown"}]]
      \/ Forget(c) \/ Cancel(c)
  <2>1. CASE Publish(c)
    <3>1. PICK s \in said : delivery' = [delivery EXCEPT ![c].said = s]
      BY <2>1 DEF Publish, said
    <3> QED
      BY <1>0, <3>1
  <2>2. CASE Record(c)
    <3>1. StatusOf(delivery[c].said) \in {"nothing", "delivered", "failed", "unknown"}
      BY DEF StatusOf, SinkStatus
    <3> QED
      BY <1>0, <2>2, <3>1 DEF Record
  <2>3. delivery' = delivery \/ Publish(c) \/ Record(c) \/ Forget(c) \/ Cancel(c)
    BY DEF Steps, Call, Execute, ExecuteRefused, Enter, CheckMembership, CheckPermission, Handle,
           Begin, Transact, ReadAccount, ReadSource, EnterWorker, Claim, Return
  <2> QED
    BY <1>0, <2>1, <2>2, <2>3
<1>6. faulty' \in [Calls -> BOOLEAN] \/ Forget(c) \/ Cancel(c)
  <2>1. \/ faulty' = faulty
        \/ faulty' = [faulty EXCEPT ![c] = TRUE]
        \/ \E s : faulty' = [faulty EXCEPT ![c] = @ \/ s = SinkFailure]
        \/ Forget(c) \/ Cancel(c)
    BY DEF Steps, Call, Execute, ExecuteRefused, Enter, CheckMembership, CheckPermission, Handle,
           Begin, Transact, ReadAccount, ReadSource, EnterWorker, Claim, Publish, Record, Return,
           Fails
  <2> QED
    BY <1>0, <2>1
<1>7. wrote' \in [Calls -> BOOLEAN] \/ Forget(c) \/ Cancel(c)
  <2>1. CASE Transact(c)
    <3>1. \/ wrote' = wrote
          \/ wrote' = [wrote EXCEPT ![c] = call[c].op \in Writes]
      BY <2>1 DEF Transact
    <3>2. ASSUME NEW b \in BOOLEAN, wrote' = [wrote EXCEPT ![c] = b]
          PROVE  wrote' \in [Calls -> BOOLEAN]
      BY <1>0, <3>2
    <3>3. (call[c].op \in Writes) \in BOOLEAN
      OBVIOUS
    <3> QED
      BY <1>0, <3>1, <3>2, <3>3, Zenon
  <2>2. CASE Claim(c)
    <3>1. \/ wrote' = [wrote EXCEPT ![c] = TRUE]
          \/ \E b \in BOOLEAN : wrote' = [wrote EXCEPT ![c] = b]
      BY <2>2 DEF Claim
    <3> QED
      BY <1>0, <3>1
  <2>3. wrote' = wrote \/ Transact(c) \/ Claim(c) \/ Forget(c) \/ Cancel(c)
    BY DEF Steps, Call, Execute, ExecuteRefused, Enter, CheckMembership, CheckPermission, Handle,
           Begin, ReadAccount, ReadSource, EnterWorker, Publish, Record, Return
  <2> QED
    BY <1>0, <2>1, <2>2, <2>3
<1> QED
  BY <1>1, <1>2, <1>3, <1>4, <1>5, <1>6, <1>7 DEF asked, said, facts

LEMMA NextKeepsTypes ==
  ASSUME TypeOK, Stages, Next
  PROVE  TypeOK'
<1>1. ASSUME NEW c \in Calls, Steps(c)
      PROVE  TypeOK'
  <2>1. Gates(c)
    BY DEF Stages
  <2>2. Tracked'
    BY <1>1, <2>1, StepKeepsTracked
  <2>3. /\ members \subseteq Subjects /\ grants \subseteq Subjects \X Permissions
        /\ pool \in {"none", "open", "closing"} /\ activation \in 0..MaxActivations
    BY TypesOfOurs
  <2> QED
    BY <1>1, <2>1, <2>2, <2>3, StepKeepsRest, TypesOfOursNext
<1> QED
  BY <1>1, WorldKeepsTypes, NextIsStep

-----------------------------------------------------------------------------
LEMMA StartsInvariant ==
  ASSUME Init
  PROVE  IInv
<1>1. Stages /\ Current /\ QuietWhenInactive
  BY DEF Init, Stages, Gates, Outcomes, Arrived, Current, Running, QuietWhenInactive,
         InTransaction, Ended, Checked, Working, Learned, Silence, Nothing
<1>2. 0 \in 0..0 /\ 0 \in 0..MaxActivations
  BY ConfigAssumption
<1>3. Tracked
  <2>1. "idle" \in Places /\ Silence \in Given
    BY WhatIsGiven DEF Places
  <2> QED
    BY <1>2, <2>1 DEF Init, Tracked
<1>4. Silence \in Heard
  BY DEF Heard, Answers
<1>5. [said |-> [kind |-> "nothing"], recorded |-> "nothing"]
        \in [said: {Nothing, Accepted, SinkFailure} \cup SinkErrors,
            recorded: {"nothing", "delivered", "failed", "unknown"}]
  BY DEF Nothing
<1> QED
  BY <1>1, <1>2, <1>3, <1>4, <1>5, TypesOfOurs DEF Init, IInv

\* What is so of every reachable state: see IInv.
THEOREM Inductive == Spec => []IInv
<1>1. Init => IInv
  BY StartsInvariant
<1>2. IInv /\ [Next]_vars => IInv'
  <2> SUFFICES ASSUME IInv, [Next]_vars
               PROVE  IInv'
    OBVIOUS
  <2>1. CASE Next
    BY <2>1, NextKeepsTypes, NextKeepsStages, NextKeepsCurrent, NextKeepsQuiet DEF IInv
  <2>2. CASE UNCHANGED vars
    <3>1. /\ members' = members /\ grants' = grants /\ pool' = pool /\ activation' = activation
          /\ at' = at /\ call' = call /\ handle' = handle /\ answer' = answer
          /\ received' = received /\ delivery' = delivery /\ held' = held /\ faulty' = faulty
          /\ wrote' = wrote
      BY <2>2 DEF vars, authority, process
    <3>2. TypeOK'
      BY <3>1 DEF IInv, TypeOK
    <3>3. Stages'
      <4>1. ASSUME NEW c \in Calls
            PROVE  Gates(c)' /\ Outcomes(c)' /\ Arrived(c)'
        <5>1. Untouched(c)
          BY <3>1 DEF Untouched
        <5> QED
          BY <5>1, UntouchedKeepsStages DEF IInv, Stages
      <4> QED
        BY <4>1 DEF Stages
    <3>4. Current' /\ QuietWhenInactive'
      BY <3>1 DEF IInv, Current, Running, Needed, Now, QuietWhenInactive, InTransaction
    <3> QED
      BY <3>2, <3>3, <3>4 DEF IInv
  <2> QED
    BY <2>1, <2>2
<1> QED
  BY <1>1, <1>2, PTL DEF Spec

\* Every variable keeps its type; a call never holds a pool of the future.
THEOREM TypeCorrect == Spec => []TypeOK
<1>1. IInv => TypeOK
  BY DEF IInv
<1> QED
  BY <1>1, Inductive, PTL

\* No call learns anything, or reaches the database, that has not passed authorize_admin
\* (or the workers' list): its caller is listed, its assertion is for this operation, and
\* both authorities were there at some moment of the call.
THEOREM AuthorizationComesFirst == Spec => []AuthorityIsWitnessed
<1>1. IInv => AuthorityIsWitnessed
  BY DEF IInv, Stages, Gates, AuthorityIsWitnessed, Entitled
<1> QED
  BY <1>1, Inductive, PTL

\* A domain error is never the answer to a call that has committed a change: Transact,
\* Claim and Record tell what may have gone through as a runtime failure.
THEOREM DomainErrorsAreClean == Spec => []DomainErrorsChangeNothing
<1>1. IInv => DomainErrorsChangeNothing
  BY DEF IInv, TypeOK, Stages, Outcomes, DomainErrorsChangeNothing
<1> QED
  BY <1>1, Inductive, PTL

\* A call during which membership, access control, the usage source or the sink has
\* failed is never answered with a success.
THEOREM SuccessNeedsAnswers == Spec => []FailuresAreNoSuccess
<1>1. IInv => FailuresAreNoSuccess
  BY DEF IInv, TypeOK, Stages, Outcomes, FailuresAreNoSuccess
<1> QED
  BY <1>1, Inductive, PTL

\* deactivate returns with no transaction under way, and a later activation finds none.
THEOREM QuietOnceDeactivated == Spec => []QuietWhenInactive
<1>1. IInv => QuietWhenInactive
  BY DEF IInv
<1> QED
  BY <1>1, Inductive, PTL

\* What reconcile_next records and reports is what the sink said: failed is only for a
\* refusal that this contract knows, delivered only for an acceptance.
THEOREM RecordsFollowTheSink == Spec => []RecordsAreTheSinks
<1>1. ASSUME NEW said \in {Nothing, Accepted, SinkFailure} \cup SinkErrors
      PROVE  /\ StatusOf(said) = "delivered" => said = Accepted
             /\ StatusOf(said) = "failed" =>
                  said \in {Known(k) : k \in SinkCodes \ {"effect_unknown", "idempotency_conflict"}}
  <2>1. CASE said \in {Nothing, Accepted, SinkFailure}
    BY <2>1 DEF StatusOf, SinkStatus, Received, Decode, Encode, Unknown, Known, Nothing, Accepted,
                SinkFailure
  <2>2. CASE said \in {Known(k) : k \in SinkCodes \cup {NewerCode}}
    BY <2>2 DEF StatusOf, SinkStatus, Received, Decode, Encode, Unknown, Known
  <2>3. CASE said \in {Unknown(k, b) : k \in SinkCodes \cup {NewerCode}, b \in BOOLEAN}
    BY <2>3 DEF StatusOf, SinkStatus, Received, Decode, Encode, Unknown
  <2> QED
    BY <2>1, <2>2, <2>3 DEF SinkErrors, ErrorsOf
<1>2. IInv => RecordsAreTheSinks
  BY <1>1 DEF IInv, TypeOK, Stages, Outcomes, RecordsAreTheSinks
<1> QED
  BY <1>2, Inductive, PTL

\* Whatever version of the contract the caller was built with, an answer keeps its kind
\* and a domain error its code; the tools make no missing permission or item of anything
\* else, and none of them has changed anything.
THEOREM AnswersSurviveTheWire == Spec => []AnswersArrive
<1>1. ASSUME NEW e
      PROVE  Received(e, ClientCodes).code = e.code
  BY DEF Received, Decode, Encode, Known, Unknown
<1>2. ASSUME NEW e
      PROVE  /\ ToolError(e) = "permission_denied" => e.code \in {"forbidden", "unauthenticated"}
             /\ ToolError(e) = "not_found" => e.code \in {"not_found", "delivery_not_found"}
  BY DEF ToolError
<1>3. ASSUME IInv, NEW c \in Calls, at[c] = "done", answer[c] # Silence
      PROVE  /\ received[c].kind = answer[c].kind
             /\ answer[c].kind = "domain" =>
                  IF call[c].route = "direct" THEN received[c].error.code = answer[c].error.code
                  ELSE /\ received[c].error = Known("permission_denied") =>
                            answer[c].error.code \in {"forbidden", "unauthenticated"}
                       /\ received[c].error = Known("not_found") =>
                            answer[c].error.code \in {"not_found", "delivery_not_found"}
             /\ call[c].route = "tool" => ~wrote[c]
  <2>1. Asked(c) /\ received[c] = AnswerReceived(call[c].route, answer[c])
    BY <1>3 DEF IInv, Stages, Arrived
  <2>2. call[c].route \in {"direct", "tool"}
        /\ (call[c].route = "tool" => call[c].op \in ToolOperations)
    BY <2>1 DEF Asked, Requests
  <2>3. call[c].route = "tool" => ~wrote[c]
    BY <1>3, <2>2 DEF IInv, Stages, Outcomes, ToolOperations, Writes
  <2>4. received[c].kind = answer[c].kind
    BY <2>1 DEF AnswerReceived, Domain
  <2>5. CASE answer[c].kind = "domain" /\ call[c].route = "direct"
    BY <1>1, <2>1, <2>3, <2>4, <2>5 DEF AnswerReceived, Domain
  <2>6. CASE answer[c].kind = "domain" /\ call[c].route = "tool"
    <3>1. received[c].error = Known(ToolError(Received(answer[c].error, ClientCodes)))
      BY <2>1, <2>6 DEF AnswerReceived, Domain
    <3>2. \A k : received[c].error = Known(k) => ToolError(Received(answer[c].error, ClientCodes)) = k
      BY <3>1 DEF Known
    <3> QED
      BY <1>1, <1>2, <2>3, <2>4, <2>6, <3>2
  <2> QED
    BY <2>2, <2>3, <2>4, <2>5, <2>6
<1>4. IInv => AnswersArrive
  BY <1>3 DEF AnswersArrive
<1> QED
  BY <1>4, Inductive, PTL
=============================================================================
