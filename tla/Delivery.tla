------------------------------ MODULE Delivery ------------------------------
(***************************************************************************)
(* What the delivery side of the plugin promises its readers and the       *)
(* billing provider: the committed life of the lines of closed periods,    *)
(* without transactions, locks, leases, workers or crashes.                *)
(*                                                                         *)
(* A line opens pending, is tried a bounded number of times, and concludes *)
(* as delivered, failed or unknown; only an administrator's stored         *)
(* resolution moves a failed or unknown line again.  The stored report on  *)
(* a period may lag behind its lines, but says "delivered" only when every *)
(* line is.  DeliveryOutbox (one SQL statement per step) and UsageBilling  *)
(* (one transaction per step) implement this module.                       *)
(***************************************************************************)
EXTENDS Naturals

CONSTANTS
  Deliveries,   \* delivery ids
  Periods,      \* period ids
  PeriodOf,     \* the period of each line
  Requests,     \* the resolutions administrators may ask for
  MinAttempts,  \* no line is given up before it was tried so often
  MaxAttempts   \* no line is tried more often

VARIABLES
  line,         \* the committed state of each line
  charged,      \* deliveries the provider has accepted
  resolved,     \* stored resolutions
  reported      \* stored status of each period

promised == <<line, charged, resolved, reported>>

Outcomes == {"delivered", "failed", "unknown"}
Reports  == {"absent", "pending"} \cup Outcomes

Lines == [status: {"absent", "pending", "in_flight"} \cup Outcomes,
          attempts: Nat,
          reference: {"none", "sink", "operator"}]

LinesOf(p)    == {d \in Deliveries : PeriodOf[d] = p}
Line(s, n, f) == [status |-> s, attempts |-> n, reference |-> f]

Init ==
  /\ line = [d \in Deliveries |-> Line("absent", 0, "none")]
  /\ charged = {}
  /\ resolved = {}
  /\ reported = [p \in Periods |-> "absent"]

\* A commit may refresh any reports, to anything that does not claim too much.
Report ==
  /\ reported' \in [Periods -> Reports]
  /\ \A p \in Periods :
       /\ reported'[p] = "absent" <=> reported[p] = "absent"
       /\ reported'[p] = "delivered" =>
            \A d \in LinesOf(p) : line'[d].status = "delivered"

-----------------------------------------------------------------------------
\* A period is closed: it and its lines appear together.
Open(p) ==
  /\ reported[p] = "absent"
  /\ reported' = [reported EXCEPT ![p] = "pending"]
  /\ line' = [d \in Deliveries |-> IF PeriodOf[d] = p THEN Line("pending", 0, "none") ELSE line[d]]
  /\ UNCHANGED <<charged, resolved>>

\* The lines a commit gives up: pending, and tried often enough.
MayGiveUp(ds) ==
  \A d \in ds : line[d].status = "pending" /\ line[d].attempts >= MinAttempts

GivenUp(ds) ==
  [d \in Deliveries |->
     IF d \in ds THEN Line("failed", line[d].attempts, line[d].reference) ELSE line[d]]

GiveUp(ds) ==
  /\ MayGiveUp(ds)
  /\ line' = GivenUp(ds)
  /\ Report
  /\ UNCHANGED <<charged, resolved>>

\* One more attempt at a line nobody has concluded, in the same commit.
Try(d, ds) ==
  /\ MayGiveUp(ds) /\ d \notin ds
  /\ line[d].status \in {"pending", "in_flight"}
  /\ line[d].attempts < MaxAttempts
  /\ line' = [GivenUp(ds) EXCEPT
                ![d] = Line("in_flight", line[d].attempts + 1, line[d].reference)]
  /\ Report
  /\ UNCHANGED <<charged, resolved>>

\* The provider accepts the event of a line that has been tried.
Accept(d) ==
  /\ line[d].attempts > 0
  /\ charged' = charged \cup {d}
  /\ UNCHANGED <<line, resolved, reported>>

\* An attempt concludes; as delivered only if the provider accepted the event.
Conclude(d, o) ==
  /\ line[d].status = "in_flight"
  /\ o = "delivered" => d \in charged
  /\ line' = [line EXCEPT ![d] = Line(o, line[d].attempts,
                                      IF o = "delivered" THEN "sink" ELSE "none")]
  /\ Report
  /\ UNCHANGED <<charged, resolved>>

\* An administrator resolves a failed or unknown line, once for each key; a retry
\* gives no attempts back, and a confirmed delivery names the provider's reference.
Resolve(r) ==
  LET d == r.delivery
      s == IF r.resolution = "retry" THEN "pending" ELSE r.resolution
      f == IF r.resolution # "retry" /\ r.reference THEN "operator" ELSE "none"
  IN  /\ \A q \in resolved : q.key # r.key
      /\ line[d].status \in {"failed", "unknown"}
      /\ r.resolution = "delivered" => r.reference
      /\ line' = [line EXCEPT ![d] = Line(s, line[d].attempts, f)]
      /\ resolved' = resolved \cup {r}
      /\ Report
      /\ UNCHANGED charged

Next ==
  \/ \E p \in Periods : Open(p)
  \/ \E ds \in SUBSET Deliveries : GiveUp(ds) \/ \E d \in Deliveries : Try(d, ds)
  \/ \E d \in Deliveries : Accept(d) \/ \E o \in Outcomes : Conclude(d, o)
  \/ \E r \in Requests : Resolve(r)

Spec == Init /\ [][Next]_promised
=============================================================================
