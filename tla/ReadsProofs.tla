---------------------------- MODULE ReadsProofs ----------------------------
(***************************************************************************)
(* The properties of Reads, for any accounts, periods, lines and page      *)
(* sizes, next to any writers that keep Delivery's promise.                *)
(*                                                                         *)
(* The views: what a row shows can only be followed by children that are   *)
(* as new, because lines that exist stay, delivered lines stay delivered   *)
(* and revisions grow.  The walks: the first rows after the cursor are all *)
(* there is up to the last of them, and rows that are stored stay stored,  *)
(* so that nothing below the cursor that counts can be missing.            *)
(***************************************************************************)
EXTENDS Reads, FiniteSetTheorems, WellFoundedInduction, SequenceTheorems, TLAPS

-----------------------------------------------------------------------------
(***************************************************************************)
(* Least, First: the ORDER BY and LIMIT of a page.                         *)
(***************************************************************************)
Below(i, S) == {j \in S : j < i}

LEMMA SomeLeast ==
  ASSUME NEW S \in SUBSET Nat, S # {}
  PROVE  \E m \in S : \A j \in S : m <= j
<1> DEFINE less == OpToRel(<, Nat)
<1>1. IsWellFoundedOn(less, Nat)
  BY NatLessThanWellFounded
<1>2. \A x, y \in Nat : x < y => <<x, y>> \in less
  BY DEF OpToRel
<1> HIDE DEF less
<1>3. PICK m \in S : \A j \in S : <<j, m>> \notin less
  BY <1>1, WFMin
<1>4. ASSUME NEW j \in S
      PROVE  m <= j
  <2>1. j \in Nat /\ m \in Nat /\ <<j, m>> \notin less
    BY <1>3
  <2>2. ~(j < m)
    BY <1>2, <2>1
  <2> QED
    BY <2>1, <2>2
<1> QED
  BY <1>4

LEMMA BelowIsFinite ==
  ASSUME NEW S \in SUBSET Nat, IsFiniteSet(S), NEW i \in Nat
  PROVE  /\ IsFiniteSet(Below(i, S)) /\ Cardinality(Below(i, S)) \in Nat
         /\ Cardinality(Below(i, S)) <= Cardinality(S)
         /\ \A j \in S : j < i => Cardinality(Below(j, S)) < Cardinality(Below(i, S))
<1>1. IsFiniteSet(Below(i, S)) /\ Cardinality(Below(i, S)) <= Cardinality(S)
  BY FS_Subset DEF Below
<1>2. Cardinality(Below(i, S)) \in Nat
  BY <1>1, FS_CardinalityType
<1>3. ASSUME NEW j \in S, j < i
      PROVE  Cardinality(Below(j, S)) < Cardinality(Below(i, S))
  <2>1. IsFiniteSet(Below(j, S)) /\ Cardinality(Below(j, S)) \in Nat
    BY FS_Subset, FS_CardinalityType DEF Below
  <2>2. Below(j, S) \subseteq Below(i, S) /\ j \in Below(i, S) /\ j \notin Below(j, S)
    <3>1. \A x \in S : x \in Nat /\ (x < j => x < i) /\ ~(j < j)
      BY <1>3
    <3> QED
      BY <1>3, <3>1 DEF Below
  <2>3. Cardinality(Below(j, S)) <= Cardinality(Below(i, S)) /\ Below(j, S) # Below(i, S)
    BY <1>1, <2>2, FS_Subset
  <2>4. Cardinality(Below(j, S)) # Cardinality(Below(i, S))
    BY <1>1, <2>2, <2>3, FS_Subset
  <2> QED
    BY <1>2, <2>1, <2>3, <2>4
<1> QED
  BY <1>1, <1>2, <1>3

LEMMA LeastIsThere ==
  ASSUME NEW S \in SUBSET Nat, S # {}
  PROVE  Least(S) \in S /\ \A j \in S : Least(S) <= j
BY SomeLeast DEF Least

LEMMA GreatestIsThere ==
  ASSUME NEW S \in SUBSET Nat, IsFiniteSet(S), NEW T \in SUBSET S, T # {}
  PROVE  \E m \in T : \A j \in T : j <= m
<1> DEFINE above(k) == Cardinality(S) - Cardinality(Below(k, S))
           counts   == {above(k) : k \in T}
<1>1. Cardinality(S) \in Nat
  BY FS_CardinalityType
<1>2. \A k \in T : above(k) \in Nat
  BY <1>1, BelowIsFinite
<1> HIDE DEF above
<1>3. PICK k \in T : \A j \in T : above(k) <= above(j)
  <2>1. counts \in SUBSET Nat /\ counts # {}
    BY <1>2
  <2>2. PICK m \in counts : \A a \in counts : m <= a
    BY <2>1, SomeLeast
  <2> QED
    BY <2>2
<1> USE DEF above
<1>4. ASSUME NEW j \in T
      PROVE  j <= k
  <2>1. Cardinality(Below(j, S)) <= Cardinality(Below(k, S))
    BY <1>1, <1>3, BelowIsFinite
  <2>2. ~(k < j)
    BY <2>1, BelowIsFinite
  <2> QED
    BY <2>2
<1> QED
  BY <1>4

LEMMA FirstIsBelow ==
  ASSUME NEW S \in SUBSET Nat, IsFiniteSet(S), NEW n \in Nat
  PROVE  /\ First(n, S) = {i \in S : Cardinality(Below(i, S)) < n}
         /\ First(n, S) \subseteq S /\ IsFiniteSet(First(n, S))
         /\ Cardinality(First(n, S)) \in Nat
<1>1. First(n, S) = {i \in S : Cardinality(Below(i, S)) < n}
  BY DEF First, Below
<1> QED
  BY <1>1, FS_Subset, FS_CardinalityType

\* A page has at most n rows, ...
LEMMA FirstIsSmall ==
  ASSUME NEW S \in SUBSET Nat, IsFiniteSet(S), NEW n \in Nat
  PROVE  Cardinality(First(n, S)) <= n
<1>1. CASE First(n, S) = {}
  BY <1>1, FS_EmptySet
<1>2. CASE First(n, S) # {}
  <2>1. PICK m \in First(n, S) : \A j \in First(n, S) : j <= m
    BY <1>2, FirstIsBelow, GreatestIsThere
  <2>2. m \in S /\ m \in Nat /\ Cardinality(Below(m, S)) < n
    BY <2>1, FirstIsBelow
  <2>10. IsFiniteSet(Below(m, S)) /\ Cardinality(Below(m, S)) \in Nat
    BY <2>2, BelowIsFinite
  <2>3. First(n, S) \subseteq Below(m, S) \cup {m}
    <3>1. ASSUME NEW j \in First(n, S)
          PROVE  j \in S /\ (j < m \/ j = m)
      <4>1. j \in S /\ j \in Nat /\ j <= m
        BY <2>1, FirstIsBelow
      <4> QED
        BY <2>2, <4>1
    <3> QED
      BY <3>1 DEF Below
  <2>4. IsFiniteSet(Below(m, S) \cup {m})
        /\ Cardinality(Below(m, S) \cup {m}) <= Cardinality(Below(m, S)) + 1
    <3>1. IsFiniteSet(Below(m, S) \cup {m})
          /\ Cardinality(Below(m, S) \cup {m}) =
               IF m \in Below(m, S) THEN Cardinality(Below(m, S)) ELSE Cardinality(Below(m, S)) + 1
      BY <2>10, FS_AddElement
    <3> QED
      BY <2>10, <3>1
  <2>5. Cardinality(First(n, S)) <= Cardinality(Below(m, S) \cup {m})
    BY <2>3, <2>4, FS_Subset
  <2>6. Cardinality(Below(m, S) \cup {m}) \in Nat
    BY <2>4, FS_CardinalityType
  <2> QED
    BY <2>2, <2>10, <2>4, <2>5, <2>6, FirstIsBelow
<1> QED
  BY <1>1, <1>2

\* ... the rows it leaves out come after it, and are told by the extra row.
LEMMA RestIsBeyond ==
  ASSUME NEW S \in SUBSET Nat, IsFiniteSet(S), NEW n \in Nat, NEW i \in S \ First(n, S)
  PROVE  /\ \A j \in First(n, S) : j < i
         /\ Cardinality(First(n + 1, S)) > n
<1>1. ASSUME NEW k \in S, Cardinality(Below(k, S)) >= n, NEW j \in First(n, S)
      PROVE  j < k
  <2>1. j \in S /\ Cardinality(Below(j, S)) < n
    BY FirstIsBelow
  <2>2. ~(k < j) /\ k # j
    BY <1>1, <2>1, BelowIsFinite
  <2> QED
    BY <2>1, <2>2
<1>2. Cardinality(Below(i, S)) >= n
  BY FirstIsBelow, BelowIsFinite
<1> DEFINE rest == {k \in S : Cardinality(Below(k, S)) >= n}
<1>3. PICK k \in rest : \A j \in rest : k <= j
  <2>1. rest \in SUBSET Nat /\ rest # {}
    BY <1>2
  <2> QED
    BY <2>1, SomeLeast
<1>4. Below(k, S) = First(n, S)
  <2>1. ASSUME NEW j \in S
        PROVE  j < k <=> j \in First(n, S)
    <3>1. j \in First(n, S) <=> Cardinality(Below(j, S)) < n
      BY FirstIsBelow
    <3>2. j \in rest <=> ~(Cardinality(Below(j, S)) < n)
      BY BelowIsFinite
    <3>3. j \in First(n, S) => j < k
      BY <1>1, <1>3
    <3>4. j < k => j \notin rest
      BY <1>3
    <3> QED
      BY <3>1, <3>2, <3>3, <3>4
  <2> QED
    BY <2>1, FirstIsBelow DEF Below
<1>5. Cardinality(Below(k, S)) = n /\ IsFiniteSet(Below(k, S))
  <2>1. k \in S /\ k \in Nat /\ Cardinality(Below(k, S)) >= n
    BY <1>3
  <2>2. IsFiniteSet(Below(k, S)) /\ Cardinality(Below(k, S)) \in Nat
    BY <2>1, BelowIsFinite
  <2>3. Cardinality(Below(k, S)) <= n
    BY <1>4, FirstIsSmall
  <2> QED
    BY <2>1, <2>2, <2>3
<1>6. Below(k, S) \cup {k} \subseteq First(n + 1, S)
  <2>1. k \in First(n + 1, S)
    <3>1. k \in S /\ n < n + 1 /\ n + 1 \in Nat
      BY <1>3
    <3>2. First(n + 1, S) = {j \in S : Cardinality(Below(j, S)) < n + 1}
      BY <3>1, FirstIsBelow
    <3> QED
      BY <1>5, <3>1, <3>2
  <2>2. ASSUME NEW j \in Below(k, S)
        PROVE  j \in First(n + 1, S)
    <3>1. j \in S /\ Cardinality(Below(j, S)) < n /\ Cardinality(Below(j, S)) \in Nat
      <4>1. j \in S /\ Cardinality(Below(j, S)) < n
        BY <1>4, FirstIsBelow
      <4> QED
        BY <4>1, BelowIsFinite
    <3>2. First(n + 1, S) = {x \in S : Cardinality(Below(x, S)) < n + 1}
      BY FirstIsBelow
    <3> QED
      BY <3>1, <3>2
  <2> QED
    BY <2>1, <2>2
<1>7. k \notin Below(k, S)
  BY DEF Below
<1>8. Cardinality(Below(k, S) \cup {k}) = n + 1
  BY <1>5, <1>7, FS_AddElement
<1>9. n + 1 <= Cardinality(First(n + 1, S))
  BY <1>6, <1>8, FirstIsBelow, FS_Subset
<1> QED
  BY <1>1, <1>2, <1>9, FirstIsBelow

\* There is an extra row only after a page that is not empty.
LEMMA MoreNeedsSome ==
  ASSUME NEW S \in SUBSET Nat, IsFiniteSet(S), NEW n \in Nat \ {0},
         Cardinality(First(n + 1, S)) > n
  PROVE  First(n, S) # {}
<1>1. S # {}
  <2>1. ASSUME S = {}
        PROVE  FALSE
    BY <2>1, FirstIsBelow, FS_EmptySet
  <2> QED
    BY <2>1
<1>2. Least(S) \in S /\ Below(Least(S), S) = {}
  <2>1. Least(S) \in S /\ \A j \in S : Least(S) <= j
    BY <1>1, LeastIsThere
  <2>2. ASSUME NEW j \in S
        PROVE  ~(j < Least(S))
    <3>1. j \in Nat /\ Least(S) \in Nat /\ Least(S) <= j
      BY <2>1
    <3> QED
      BY <3>1
  <2> QED
    BY <2>1, <2>2 DEF Below
<1>3. Cardinality(Below(Least(S), S)) = 0
  BY <1>2, FS_EmptySet
<1>4. First(n, S) = {i \in S : Cardinality(Below(i, S)) < n} /\ 0 < n
  BY FirstIsBelow
<1> QED
  BY <1>2, <1>3, <1>4

-----------------------------------------------------------------------------
(***************************************************************************)
(* The billing side: lines and reports only move forward as far as a view  *)
(* can tell.                                                               *)
(***************************************************************************)
Billed ==
  /\ line \in [Deliveries -> Billing!Lines] /\ reported \in [Periods -> Billing!Reports]
  /\ \A d \in Deliveries :
       /\ line[d].status = "absent" <=> reported[PeriodOf[d]] = "absent"
       /\ reported[PeriodOf[d]] = "delivered" => line[d].status = "delivered"

\* What exists stays, and what is delivered stays delivered.
Forward ==
  /\ \A d \in Deliveries :
       /\ line[d].status # "absent" => line'[d].status # "absent"
       /\ line[d].status = "delivered" => line'[d].status = "delivered"
  /\ \A p \in Periods : reported[p] # "absent" => reported'[p] # "absent"

\* A commit that opens no period: lines that exist move, one by one, and reports follow.
LEMMA ReportKeepsBilled ==
  ASSUME Billed, Billing!Report, line' \in [Deliveries -> Billing!Lines],
         \A d \in Deliveries :
           /\ line'[d].status = "absent" <=> line[d].status = "absent"
           /\ line[d].status = "delivered" => line'[d].status = "delivered"
  PROVE  Billed' /\ Forward
<1>1. \A d \in Deliveries : PeriodOf[d] \in Periods
  BY IdsAssumption
<1>2. reported' \in [Periods -> Billing!Reports]
      /\ \A p \in Periods : /\ reported'[p] = "absent" <=> reported[p] = "absent"
                            /\ reported'[p] = "delivered" =>
                                 \A d \in Deliveries : PeriodOf[d] = p => line'[d].status = "delivered"
  BY DEF Billing!Report, Billing!LinesOf
<1>3. Forward
  BY <1>2 DEF Forward
<1>4. \A d \in Deliveries :
        /\ line'[d].status = "absent" <=> reported'[PeriodOf[d]] = "absent"
        /\ reported'[PeriodOf[d]] = "delivered" => line'[d].status = "delivered"
  BY <1>1, <1>2 DEF Billed
<1> QED
  BY <1>2, <1>3, <1>4 DEF Billed

LEMMA BillingMoves ==
  ASSUME Billed, Billing!Next
  PROVE  Billed' /\ Forward
<1>1. /\ line \in [Deliveries -> Billing!Lines] /\ reported \in [Periods -> Billing!Reports]
      /\ \A d \in Deliveries :
           /\ line[d].status = "absent" <=> reported[PeriodOf[d]] = "absent"
           /\ reported[PeriodOf[d]] = "delivered" => line[d].status = "delivered"
  BY DEF Billed
<1>2. ASSUME NEW s \in {"absent", "pending", "in_flight", "delivered", "failed", "unknown"},
             NEW n \in Nat, NEW f \in {"none", "sink", "operator"}
      PROVE  Billing!Line(s, n, f) \in Billing!Lines /\ Billing!Line(s, n, f).status = s
  BY DEF Billing!Line, Billing!Lines, Billing!Outcomes
<1>3. \A d \in Deliveries : line[d].attempts \in Nat /\ line[d].reference \in {"none", "sink", "operator"}
  BY <1>1 DEF Billing!Lines
<1>4. ASSUME NEW p \in Periods, Billing!Open(p)
      PROVE  Billed' /\ Forward
  <2>1. /\ reported[p] = "absent"
        /\ reported' = [reported EXCEPT ![p] = "pending"]
        /\ line' = [d \in Deliveries |-> IF PeriodOf[d] = p THEN Billing!Line("pending", 0, "none")
                                                          ELSE line[d]]
    BY <1>4 DEF Billing!Open
  <2>2. Billing!Line("pending", 0, "none") \in Billing!Lines
        /\ Billing!Line("pending", 0, "none").status = "pending"
    BY <1>2
  <2>3. line' \in [Deliveries -> Billing!Lines]
    BY <1>1, <2>1, <2>2
  <2>4. reported' \in [Periods -> Billing!Reports]
    BY <1>1, <2>1 DEF Billing!Reports
  <2>5. \A d \in Deliveries : PeriodOf[d] \in Periods
    BY IdsAssumption
  <2>6. ASSUME NEW d \in Deliveries
        PROVE  /\ line[d].status # "absent" => line'[d].status # "absent"
               /\ line[d].status = "delivered" => line'[d].status = "delivered"
               /\ line'[d].status = "absent" <=> reported'[PeriodOf[d]] = "absent"
               /\ reported'[PeriodOf[d]] = "delivered" => line'[d].status = "delivered"
    <3>1. CASE PeriodOf[d] = p
      BY <1>1, <2>1, <2>2, <2>5, <3>1
    <3>2. CASE PeriodOf[d] # p
      BY <1>1, <2>1, <2>5, <3>2
    <3> QED
      BY <3>1, <3>2
  <2>7. \A q \in Periods : reported[q] # "absent" => reported'[q] # "absent"
    BY <1>1, <2>1
  <2> QED
    BY <2>3, <2>4, <2>6, <2>7 DEF Billed, Forward
<1>5. ASSUME NEW ds \in SUBSET Deliveries, Billing!MayGiveUp(ds)
      PROVE  /\ Billing!GivenUp(ds) \in [Deliveries -> Billing!Lines]
             /\ \A d \in Deliveries :
                  /\ Billing!GivenUp(ds)[d].status = "absent" <=> line[d].status = "absent"
                  /\ line[d].status = "delivered" => Billing!GivenUp(ds)[d].status = "delivered"
  <2>1. \A d \in Deliveries :
          /\ Billing!Line("failed", line[d].attempts, line[d].reference) \in Billing!Lines
          /\ Billing!Line("failed", line[d].attempts, line[d].reference).status = "failed"
    BY <1>2, <1>3
  <2>2. \A d \in ds : line[d].status = "pending"
    BY <1>5 DEF Billing!MayGiveUp
  <2> QED
    BY <1>1, <2>1, <2>2 DEF Billing!GivenUp
<1>6. ASSUME NEW ds \in SUBSET Deliveries, Billing!GiveUp(ds)
      PROVE  Billed' /\ Forward
  BY <1>5, <1>6, ReportKeepsBilled DEF Billing!GiveUp
<1>7. ASSUME NEW given \in [Deliveries -> Billing!Lines], NEW d \in Deliveries,
             NEW new \in Billing!Lines, line' = [given EXCEPT ![d] = new], Billing!Report,
             line[d].status \notin {"absent", "delivered"}, new.status # "absent",
             \A e \in Deliveries :
               /\ given[e].status = "absent" <=> line[e].status = "absent"
               /\ line[e].status = "delivered" => given[e].status = "delivered"
      PROVE  Billed' /\ Forward
  <2>1. line' \in [Deliveries -> Billing!Lines]
    BY <1>7
  <2>2. \A e \in Deliveries :
          /\ line'[e].status = "absent" <=> line[e].status = "absent"
          /\ line[e].status = "delivered" => line'[e].status = "delivered"
    BY <1>7
  <2> QED
    BY <1>7, <2>1, <2>2, ReportKeepsBilled
<1>8. ASSUME NEW ds \in SUBSET Deliveries, NEW d \in Deliveries, Billing!Try(d, ds)
      PROVE  Billed' /\ Forward
  <2> DEFINE new == Billing!Line("in_flight", line[d].attempts + 1, line[d].reference)
  <2>1. new \in Billing!Lines /\ new.status = "in_flight"
    BY <1>2, <1>3
  <2>2. /\ Billing!MayGiveUp(ds) /\ line[d].status \in {"pending", "in_flight"}
        /\ line' = [Billing!GivenUp(ds) EXCEPT ![d] = new] /\ Billing!Report
    BY <1>8 DEF Billing!Try
  <2> HIDE DEF new
  <2> QED
    BY <1>5, <1>7, <2>1, <2>2
<1>9. ASSUME NEW d \in Deliveries, NEW o \in Billing!Outcomes, Billing!Conclude(d, o)
      PROVE  Billed' /\ Forward
  <2> DEFINE new == Billing!Line(o, line[d].attempts, IF o = "delivered" THEN "sink" ELSE "none")
  <2>1. new \in Billing!Lines /\ new.status = o /\ o # "absent"
    BY <1>2, <1>3 DEF Billing!Outcomes
  <2>2. line[d].status = "in_flight" /\ line' = [line EXCEPT ![d] = new] /\ Billing!Report
    BY <1>9 DEF Billing!Conclude
  <2> HIDE DEF new
  <2> QED
    BY <1>1, <1>7, <2>1, <2>2
<1>10. ASSUME NEW r \in Requests, Billing!Resolve(r)
       PROVE  Billed' /\ Forward
  <2> DEFINE d == r.delivery
             s == IF r.resolution = "retry" THEN "pending" ELSE r.resolution
             f == IF r.resolution # "retry" /\ r.reference THEN "operator" ELSE "none"
             new == Billing!Line(s, line[d].attempts, f)
  <2>1. d \in Deliveries /\ s \in {"pending", "delivered", "failed"} /\ f \in {"none", "operator"}
    BY DecisionsAssumption
  <2>2. line[d].status \in {"failed", "unknown"} /\ line' = [line EXCEPT ![d] = new] /\ Billing!Report
    BY <1>10 DEF Billing!Resolve
  <2> HIDE DEF s, f
  <2>3. new \in Billing!Lines /\ new.status = s /\ s # "absent"
    BY <1>2, <1>3, <2>1
  <2> HIDE DEF new, d
  <2> QED
    BY <1>1, <1>7, <2>1, <2>2, <2>3
<1>11. ASSUME NEW d \in Deliveries, Billing!Accept(d)
       PROVE  Billed' /\ Forward
  BY <1>11 DEF Billing!Accept, Billed, Forward
<1> QED
  BY <1>4, <1>6, <1>8, <1>9, <1>10, <1>11 DEF Billing!Next

-----------------------------------------------------------------------------
(***************************************************************************)
(* The invariant.                                                          *)
(***************************************************************************)
Tables  == {"accounts", "periods"}
Walking == at \in {"list", "items", "item", "walked"}

\* A view in the making shows no more than what is there by now; a finished one has
\* children at least as new as its row.
ViewInv ==
  /\ at \in {"get", "item"} => list \in Tables /\ item \in Stored(list)
  /\ list # "periods" => period = NoPeriod
  /\ list # "accounts" => account = NoAccount
  /\ at \in {"get", "item"} /\ list = "periods" =>
       /\ period.id = item
       /\ period.status = "delivered" =>
            \A d \in Deliveries : PeriodOf[d] = item => line[d].status = "delivered"
  /\ at \in {"get", "item"} /\ list = "accounts" =>
       account.id = item /\ account.revision <= accounts[item]
  /\ PeriodViewsAreSound
  /\ Held("accounts") /\ account.id # 0 =>
       account.revision <= account.mappings /\ account.mappings <= accounts[account.id]

\* Up to the cursor nothing that counts is missing; ...
WalkInv ==
  /\ Walking => list \in Tables /\ since \subseteq Stored(list)
  /\ Walking => \A i, j \in DOMAIN walk : i < j => walk[i] < walk[j]
  /\ Walking /\ at # "walked" =>
       /\ \A i \in DOMAIN walk : walk[i] <= cursor
       /\ \A x \in since : x <= cursor => \E i \in DOMAIN walk : walk[i] = x
  /\ at = "walked" => \A x \in since : \E i \in DOMAIN walk : walk[i] = x

\* ... on the page, nothing up to its last row, nor beyond if it is the last one.
PageInv ==
  /\ at \in {"idle", "get", "list", "walked"} => page = {} /\ got = <<>>
  /\ at = "item" => item \in page /\ \A x \in page : item <= x
  /\ at \in {"items", "item"} =>
       /\ \A i, j \in DOMAIN got : i < j => got[i] < got[j]
       /\ \A i \in DOMAIN got : cursor < got[i]
       /\ \A x \in page : cursor < x /\ \A i \in DOMAIN got : got[i] < x
       /\ \A x \in since : cursor < x =>
            \/ x \in page
            \/ \E i \in DOMAIN got : got[i] = x
            \/ more /\ (\A y \in page : y < x) /\ (\A i \in DOMAIN got : got[i] < x)
       /\ more => page # {} \/ got # <<>>

RInv == TypeOK /\ Billed /\ ViewInv /\ WalkInv /\ PageInv

\* The steps of the client change nothing that is stored.
ClientStep ==
  \/ \E a \in Accounts : Get("accounts", a)
  \/ \E p \in Periods : Get("periods", p)
  \/ \E t \in Tables : BeginWalk(t)
  \/ \E n \in PageSizes : ListPage(n)
  \/ GetChildren \/ ListedRow \/ ListedChildren \/ PageReceived \/ PageLost \/ EndWalk

WriterStep == BillingCommit \/ \E a \in Accounts : PutAccount(a)

LEMMA NextIsStep ==
  ASSUME Next
  PROVE  ClientStep \/ WriterStep
BY DEF Next, ClientStep, WriterStep, Tables

LEMMA ClientWritesNothing ==
  ASSUME ClientStep
  PROVE  line' = line /\ reported' = reported /\ accounts' = accounts
BY DEF ClientStep, Get, BeginWalk, ListPage, GetChildren, ListedRow, ListedChildren,
       PageReceived, PageLost, EndWalk, billing

\* Writers leave the client alone, and what is stored only grows.
LEMMA WritersGrow ==
  ASSUME TypeOK, Billed, WriterStep
  PROVE  /\ UNCHANGED <<at, list, cursor, page, more, item, got, walk, since, account, period>>
         /\ Billed' /\ Forward
         /\ accounts' \in [Accounts -> 0..MaxRevision]
         /\ \A a \in Accounts : accounts[a] <= accounts'[a]
         /\ \A t \in Tables : Stored(t) \subseteq Stored(t)'
<1>1. accounts \in [Accounts -> 0..MaxRevision] /\ MaxRevision \in Nat
  BY SizesAssumption DEF TypeOK
<1>2. UNCHANGED <<at, list, cursor, page, more, item, got, walk, since, account, period>>
  BY DEF WriterStep, BillingCommit, PutAccount, client, views
<1>3. /\ Billed' /\ Forward
  <2>1. CASE BillingCommit
    BY <2>1, BillingMoves DEF BillingCommit
  <2>2. CASE \E a \in Accounts : PutAccount(a)
    BY <2>2 DEF PutAccount, Billed, Forward, billing
  <2> QED
    BY <2>1, <2>2 DEF WriterStep
<1>4. /\ accounts' \in [Accounts -> 0..MaxRevision]
      /\ \A a \in Accounts : accounts[a] <= accounts'[a]
  BY <1>1 DEF WriterStep, BillingCommit, PutAccount
<1>5. \A t \in Tables : Stored(t) \subseteq Stored(t)'
  <2>1. \A a \in Accounts : accounts[a] > 0 => accounts'[a] > 0
    BY <1>1, <1>4
  <2>2. \A p \in Periods : reported[p] # "absent" => reported'[p] # "absent"
    BY <1>3 DEF Forward
  <2> QED
    BY <2>1, <2>2 DEF Stored, Tables
<1> QED
  BY <1>2, <1>3, <1>4, <1>5

LEMMA StoredIds ==
  ASSUME NEW t \in Tables
  PROVE  /\ Stored(t) \subseteq Ids /\ Stored(t) \in SUBSET Nat /\ IsFiniteSet(Stored(t))
         /\ 0 \notin Ids /\ Ids \subseteq Nat
         /\ t = "accounts" => Stored(t) \subseteq Accounts
         /\ t = "periods" => Stored(t) \subseteq Periods
BY IdsAssumption, FS_Subset DEF Stored, Tables, Ids

-----------------------------------------------------------------------------
\* Views.
LEMMA WritersKeepViews ==
  ASSUME TypeOK, Billed, ViewInv, WriterStep
  PROVE  ViewInv'
<1>1. /\ at' = at /\ list' = list /\ item' = item /\ account' = account /\ period' = period
      /\ Forward /\ \A a \in Accounts : accounts[a] <= accounts'[a]
      /\ \A t \in Tables : Stored(t) \subseteq Stored(t)'
      /\ accounts' \in [Accounts -> 0..MaxRevision]
  BY WritersGrow
<1>2. accounts \in [Accounts -> 0..MaxRevision] /\ MaxRevision \in Nat
      /\ account \in [id: Accounts \cup {0}, revision: 0..MaxRevision, mappings: 0..MaxRevision]
  BY SizesAssumption DEF TypeOK
<1>3. (at \in {"get", "item"} => list \in Tables /\ item \in Stored(list))'
  BY <1>1 DEF ViewInv
<1>4. (/\ list # "periods" => period = NoPeriod
       /\ list # "accounts" => account = NoAccount)'
  BY <1>1 DEF ViewInv, NoPeriod, NoAccount
<1>5. (at \in {"get", "item"} /\ list = "periods" =>
         /\ period.id = item
         /\ period.status = "delivered" =>
              \A d \in Deliveries : PeriodOf[d] = item => line[d].status = "delivered")'
  BY <1>1 DEF ViewInv, Forward
<1>6. (at \in {"get", "item"} /\ list = "accounts" =>
         account.id = item /\ account.revision <= accounts[item])'
  <2>1. ASSUME at \in {"get", "item"}, list = "accounts"
        PROVE  account.id = item /\ account.revision <= accounts'[item]
    <3>1. account.id = item /\ account.revision <= accounts[item] /\ item \in Accounts
      BY <2>1, StoredIds DEF ViewInv, Tables
    <3> QED
      BY <1>1, <1>2, <3>1
  <2> QED
    BY <1>1, <2>1
<1>7. PeriodViewsAreSound'
  BY <1>1 DEF ViewInv, PeriodViewsAreSound, Held
<1>8. (Held("accounts") /\ account.id # 0 =>
         account.revision <= account.mappings /\ account.mappings <= accounts[account.id])'
  <2>1. ASSUME Held("accounts"), account.id # 0
        PROVE  account.revision <= account.mappings /\ account.mappings <= accounts'[account.id]
    <3>1. /\ account.revision <= account.mappings /\ account.mappings <= accounts[account.id]
          /\ account.id \in Accounts
      BY <1>2, <2>1 DEF ViewInv
    <3> QED
      BY <1>1, <1>2, <3>1
  <2> QED
    BY <1>1, <2>1 DEF Held
<1> QED
  BY <1>3, <1>4, <1>5, <1>6, <1>7, <1>8 DEF ViewInv

AccountViews == [id: Accounts \cup {0}, revision: 0..MaxRevision, mappings: 0..MaxRevision]
PeriodViews  == [id: Periods \cup {0}, status: Statuses, lines: [Deliveries -> Statuses]]

LEMMA StoredTypes ==
  ASSUME TypeOK, Billed
  PROVE  /\ \A a \in Accounts : accounts[a] \in 0..MaxRevision
         /\ \A p \in Periods : reported[p] \in Statuses /\ LinesOf(p) \in [Deliveries -> Statuses]
         /\ account \in AccountViews /\ period \in PeriodViews
         /\ NoAccount \in AccountViews /\ NoPeriod \in PeriodViews
<1>1. \A d \in Deliveries : line[d].status \in Statuses
  BY DEF Billed, Billing!Lines, Billing!Outcomes, Statuses
<1>2. \A p \in Periods : reported[p] \in Statuses
  BY DEF Billed, Billing!Reports, Billing!Outcomes, Statuses
<1>3. "absent" \in Statuses
  BY DEF Statuses
<1>4. \A p \in Periods : LinesOf(p) \in [Deliveries -> Statuses]
  BY <1>1, <1>3 DEF LinesOf
<1>5. 0 \in 0..MaxRevision
  BY SizesAssumption
<1> QED
  BY <1>2, <1>3, <1>4, <1>5 DEF TypeOK, AccountViews, PeriodViews, NoAccount, NoPeriod

\* The first statement of a view, ...
LEMMA RowFound ==
  ASSUME TypeOK, Billed, NEW t \in Tables, NEW i \in Stored(t), Find(t, i)
  PROVE  /\ account' \in AccountViews /\ period' \in PeriodViews
         /\ t = "accounts" => /\ account'.id = i /\ account'.revision = accounts[i]
                              /\ period' = NoPeriod
         /\ t = "periods" =>
              /\ account' = NoAccount
              /\ period'.id = i
              /\ period'.status = "delivered" =>
                   \A d \in Deliveries : PeriodOf[d] = i => line[d].status = "delivered"
<1>1. Statements[1] = "row"
  BY DEF Statements
<1>2. CASE t = "accounts"
  <2>1. i \in Accounts
    BY <1>2, StoredIds
  <2>2. account' = [NoAccount EXCEPT !.id = i, !.revision = accounts[i]] /\ period' = NoPeriod
    BY <1>1, <1>2 DEF Find, AccountRead
  <2> QED
    BY <1>2, <2>1, <2>2, StoredTypes DEF AccountViews, NoAccount
<1>3. CASE t = "periods"
  <2>1. i \in Periods
    BY <1>3, StoredIds
  <2>2. period' = [NoPeriod EXCEPT !.id = i, !.status = reported[i]] /\ account' = NoAccount
    BY <1>1, <1>3 DEF Find, PeriodRead
  <2>3. period' \in PeriodViews /\ period'.id = i /\ period'.status = reported[i]
    BY <2>1, <2>2, StoredTypes DEF PeriodViews, NoPeriod
  <2> QED
    BY <1>3, <2>2, <2>3, StoredTypes DEF Billed
<1> QED
  BY <1>2, <1>3 DEF Tables

\* ... and the second.
LEMMA ChildrenFound ==
  ASSUME TypeOK, Billed, ViewInv, at \in {"get", "item"}, Complete
  PROVE  /\ account' \in AccountViews /\ period' \in PeriodViews
         /\ list # "periods" => period' = NoPeriod
         /\ list # "accounts" => account' = NoAccount
         /\ list = "periods" =>
              \A d \in Deliveries : PeriodOf[d] = period'.id =>
                /\ period'.lines[d] # "absent"
                /\ period'.status = "delivered" => period'.lines[d] = "delivered"
         /\ list = "accounts" =>
              account'.revision <= account'.mappings /\ account'.mappings = accounts[account'.id]
<1>1. Statements[2] = "children" /\ "children" # "row"
  BY DEF Statements
<1>2. list \in Tables /\ item \in Stored(list)
  BY DEF ViewInv
<1>3. CASE list = "accounts"
  <2>1. item \in Accounts /\ account.id = item /\ account.revision <= accounts[item]
    BY <1>2, <1>3, StoredIds DEF ViewInv
  <2>2. account' = [account EXCEPT !.id = item, !.mappings = accounts[item]] /\ period' = NoPeriod
    BY <1>1, <1>3 DEF Complete, AccountRead
  <2> QED
    BY <1>3, <2>1, <2>2, StoredTypes DEF AccountViews
<1>4. CASE list = "periods"
  <2>1. /\ item \in Periods /\ reported[item] # "absent" /\ period.id = item
        /\ period.status = "delivered" =>
             \A d \in Deliveries : PeriodOf[d] = item => line[d].status = "delivered"
    BY <1>2, <1>4, StoredIds DEF ViewInv, Stored
  <2>2. period' = [period EXCEPT !.id = item, !.lines = LinesOf(item)] /\ account' = NoAccount
    BY <1>1, <1>4 DEF Complete, PeriodRead
  <2>3. period' \in PeriodViews /\ period'.id = item /\ period'.status = period.status
        /\ period'.lines = LinesOf(item)
    BY <2>1, <2>2, StoredTypes DEF PeriodViews
  <2>4. \A d \in Deliveries : PeriodOf[d] = item =>
          LinesOf(item)[d] = line[d].status /\ line[d].status # "absent"
    BY <2>1 DEF LinesOf, Billed
  <2> QED
    BY <1>4, <2>1, <2>2, <2>3, <2>4, StoredTypes
<1> QED
  BY <1>2, <1>3, <1>4 DEF Tables

LEMMA NoPeriodIsNone ==
  \A d \in Deliveries : PeriodOf[d] # NoPeriod.id
BY IdsAssumption DEF NoPeriod

LEMMA ClientKeepsViews ==
  ASSUME TypeOK, Billed, ViewInv, WalkInv, ClientStep
  PROVE  ViewInv' /\ account' \in AccountViews /\ period' \in PeriodViews
<1>1. line' = line /\ reported' = reported /\ accounts' = accounts
      /\ \A t \in Tables : Stored(t)' = Stored(t)
  BY ClientWritesNothing DEF Stored
<1>2. ASSUME NEW t \in Tables, NEW i \in Stored(t), Find(t, i), at' \in {"get", "item"},
             list' = t, item' = i
      PROVE  ViewInv' /\ account' \in AccountViews /\ period' \in PeriodViews
  <2>1. (at \in {"get", "item"} => list \in Tables /\ item \in Stored(list))'
    BY <1>1, <1>2
  <2>2. (/\ list # "periods" => period = NoPeriod
         /\ list # "accounts" => account = NoAccount
         /\ PeriodViewsAreSound
         /\ Held("accounts") /\ account.id # 0 =>
              account.revision <= account.mappings /\ account.mappings <= accounts[account.id])'
    BY <1>2, RowFound, NoPeriodIsNone DEF PeriodViewsAreSound, Held, Tables, NoAccount
  <2>3. (at \in {"get", "item"} /\ list = "periods" =>
           /\ period.id = item
           /\ period.status = "delivered" =>
                \A d \in Deliveries : PeriodOf[d] = item => line[d].status = "delivered")'
    BY <1>1, <1>2, RowFound
  <2>4. t = "accounts" => accounts[i] \in Nat /\ account'.revision <= accounts[i]
    BY <1>2, RowFound, StoredTypes, StoredIds, SizesAssumption
  <2>5. (at \in {"get", "item"} /\ list = "accounts" =>
           account.id = item /\ account.revision <= accounts[item])'
    BY <1>1, <1>2, <2>4, RowFound
  <2> QED
    BY <1>2, <2>1, <2>2, <2>3, <2>5, RowFound DEF ViewInv
<1>3. ASSUME Complete, at \in {"get", "item"}, list' = list, at' \notin {"get", "item"}
      PROVE  ViewInv' /\ account' \in AccountViews /\ period' \in PeriodViews
  <2>1. PeriodViewsAreSound'
    BY <1>3, ChildrenFound, NoPeriodIsNone DEF PeriodViewsAreSound
  <2>2. list = "accounts" /\ account'.id # 0 =>
          account'.mappings \in Nat /\ account'.mappings <= accounts'[account'.id]
    BY <1>1, <1>3, ChildrenFound, SizesAssumption DEF AccountViews
  <2>3. list # "accounts" => account'.id = 0
    BY <1>3, ChildrenFound DEF NoAccount
  <2> QED
    BY <1>3, <2>1, <2>2, <2>3, ChildrenFound DEF ViewInv
<1>4. ASSUME account' = NoAccount, period' = NoPeriod, at' \notin {"get", "item"}
      PROVE  ViewInv' /\ account' \in AccountViews /\ period' \in PeriodViews
  BY <1>4, NoPeriodIsNone, StoredTypes DEF ViewInv, PeriodViewsAreSound, NoAccount
<1>5. ASSUME account' = account, period' = period, list' = list,
             at \notin {"get", "item"}, at' \notin {"get", "item"}
      PROVE  ViewInv' /\ account' \in AccountViews /\ period' \in PeriodViews
  BY <1>1, <1>5, StoredTypes DEF ViewInv, PeriodViewsAreSound, Held
<1>6. CASE (\E a \in Accounts : Get("accounts", a)) \/ \E q \in Periods : Get("periods", q)
  BY <1>2, <1>6 DEF Get, Tables
<1>7. CASE GetChildren \/ ListedChildren
  BY <1>3, <1>7 DEF GetChildren, ListedChildren
<1>8. CASE (\E t \in Tables : BeginWalk(t)) \/ PageLost \/ EndWalk
  BY <1>4, <1>8 DEF BeginWalk, PageLost, EndWalk
<1>9. CASE (\E n \in PageSizes : ListPage(n)) \/ PageReceived
  BY <1>5, <1>9 DEF ListPage, PageReceived, views
<1>10. CASE ListedRow
  BY <1>2, <1>10 DEF ListedRow, WalkInv, Walking
<1> QED
  BY <1>6, <1>7, <1>8, <1>9, <1>10 DEF ClientStep

-----------------------------------------------------------------------------
\* Walks.
LEMMA WritersKeepWalks ==
  ASSUME TypeOK, Billed, WalkInv, PageInv, WriterStep
  PROVE  WalkInv' /\ PageInv'
<1>1. /\ at' = at /\ list' = list /\ cursor' = cursor /\ page' = page /\ more' = more
      /\ item' = item /\ got' = got /\ walk' = walk /\ since' = since
      /\ \A t \in Tables : Stored(t) \subseteq Stored(t)'
  BY WritersGrow
<1>2. WalkInv'
  BY <1>1 DEF WalkInv, Walking
<1>3. PageInv'
  BY <1>1 DEF PageInv
<1> QED
  BY <1>2, <1>3

\* What the list holds beyond the cursor.
LEMMA AfterIsFinite ==
  ASSUME TypeOK, list \in Tables, NEW i \in Ids \cup {0}
  PROVE  /\ After(i) \in SUBSET Nat /\ IsFiniteSet(After(i)) /\ After(i) \subseteq Ids
         /\ \A x \in After(i) : i < x
BY StoredIds, FS_Subset DEF After

LEMMA ListPageKeepsWalks ==
  ASSUME TypeOK, WalkInv, PageInv, NEW n \in PageSizes, ListPage(n)
  PROVE  /\ WalkInv' /\ PageInv'
         /\ page' \subseteq Ids /\ more' \in BOOLEAN /\ Cardinality(page') <= n
<1> DEFINE S == After(cursor)
<1>1. /\ at = "list" /\ at' = "items" /\ page' = First(n, S)
      /\ more' = (Cardinality(First(n + 1, S)) > n)
      /\ list' = list /\ cursor' = cursor /\ got' = got /\ walk' = walk /\ since' = since
      /\ item' = item /\ Stored(list)' = Stored(list)
  BY DEF ListPage, billing, Stored
<1>2. n \in Nat \ {0}
  BY SizesAssumption
<1>3. /\ list \in Tables /\ since \subseteq Stored(list) /\ got = <<>>
      /\ cursor \in Ids \cup {0}
  BY <1>1 DEF WalkInv, PageInv, Walking, TypeOK
<1>4. S \in SUBSET Nat /\ IsFiniteSet(S) /\ S \subseteq Ids /\ \A x \in S : cursor < x
  BY <1>3, AfterIsFinite
<1>5. \A x \in since : cursor < x => x \in S
  BY <1>3 DEF After
<1> HIDE DEF S
<1>6. First(n, S) \subseteq S /\ Cardinality(First(n, S)) <= n
  BY <1>2, <1>4, FirstIsBelow, FirstIsSmall
<1>7. \A x \in S \ First(n, S) : (\A j \in First(n, S) : j < x) /\ Cardinality(First(n + 1, S)) > n
  BY <1>2, <1>4, RestIsBeyond
<1>8. Cardinality(First(n + 1, S)) > n => First(n, S) # {}
  BY <1>2, <1>4, MoreNeedsSome
<1>9. more' <=> Cardinality(First(n + 1, S)) > n
  BY <1>1
<1>10. WalkInv'
  BY <1>1 DEF WalkInv, Walking
<1>11. DOMAIN got = {}
  BY <1>3
<1>12. PageInv'
  <2>1. \A x \in since : cursor < x =>
          x \in page' \/ (more' /\ \A y \in page' : y < x)
    BY <1>1, <1>5, <1>7, <1>9
  <2>2. \A x \in page' : cursor < x
    BY <1>1, <1>4, <1>6
  <2>3. more' => page' # {}
    BY <1>1, <1>8, <1>9
  <2> QED
    BY <1>1, <1>3, <1>11, <2>1, <2>2, <2>3 DEF PageInv
<1>13. page' \subseteq Ids /\ more' \in BOOLEAN /\ Cardinality(page') <= n
  <2>1. more' \in BOOLEAN
    <3>1. (Cardinality(First(n + 1, S)) > n) \in BOOLEAN
      OBVIOUS
    <3> QED
      BY <1>1, <3>1, Zenon
  <2>2. page' \subseteq Ids /\ Cardinality(page') <= n
    BY <1>1, <1>4, <1>6
  <2> QED
    BY <2>1, <2>2
<1> QED
  BY <1>10, <1>12, <1>13

LEMMA ListedRowKeepsWalks ==
  ASSUME TypeOK, WalkInv, PageInv, ListedRow
  PROVE  WalkInv' /\ PageInv' /\ item' \in Ids
<1>1. /\ at = "items" /\ at' = "item" /\ page # {} /\ item' = Least(page)
      /\ page' = page /\ more' = more /\ list' = list /\ cursor' = cursor /\ got' = got
      /\ walk' = walk /\ since' = since /\ Stored(list)' = Stored(list)
  BY DEF ListedRow, billing, Stored
<1>2. page \in SUBSET Nat /\ page \subseteq Ids
  BY IdsAssumption DEF TypeOK, Ids
<1>3. Least(page) \in page /\ \A x \in page : Least(page) <= x
  BY <1>1, <1>2, LeastIsThere
<1>4. WalkInv'
  BY <1>1 DEF WalkInv, Walking
<1>5. PageInv'
  BY <1>1, <1>3 DEF PageInv
<1> QED
  BY <1>1, <1>2, <1>3, <1>4, <1>5

\* got grows by the least of the page, which comes after all it holds.
LEMMA ListedChildrenKeepsWalks ==
  ASSUME TypeOK, WalkInv, PageInv, ListedChildren
  PROVE  WalkInv' /\ PageInv'
<1>1. /\ at = "item" /\ at' = "items" /\ page' = page \ {item} /\ got' = Append(got, item)
      /\ more' = more /\ list' = list /\ cursor' = cursor
      /\ walk' = walk /\ since' = since /\ Stored(list)' = Stored(list)
  BY DEF ListedChildren, billing, Stored
<1>2. /\ page \subseteq Nat /\ item \in Nat /\ got \in Seq(Nat) /\ cursor \in Nat
      /\ since \subseteq Nat
  <2>1. Ids \cup {0} \subseteq Nat
    BY IdsAssumption DEF Ids
  <2>2. /\ page \subseteq Ids /\ item \in Ids \cup {0} /\ got \in Seq(Ids)
        /\ cursor \in Ids \cup {0} /\ since \subseteq Ids
    BY DEF TypeOK
  <2>3. got \in Seq(Nat)
    BY <2>1, <2>2
  <2> QED
    BY <2>1, <2>2, <2>3
<1>3. /\ item \in page /\ (\A x \in page : item <= x)
      /\ \A i, j \in DOMAIN got : i < j => got[i] < got[j]
      /\ \A i \in DOMAIN got : cursor < got[i]
      /\ \A x \in page : cursor < x /\ \A i \in DOMAIN got : got[i] < x
      /\ \A x \in since : cursor < x =>
           \/ x \in page
           \/ \E i \in DOMAIN got : got[i] = x
           \/ more /\ (\A y \in page : y < x) /\ (\A i \in DOMAIN got : got[i] < x)
  BY <1>1 DEF PageInv
<1>4. WalkInv'
  BY <1>1 DEF WalkInv, Walking
<1> DEFINE n == Len(got)
<1>5. /\ n \in Nat /\ DOMAIN got = 1..n /\ DOMAIN got' = 1..(n + 1)
      /\ got'[n + 1] = item /\ \A i \in 1..n : got'[i] = got[i] /\ got[i] \in Nat
  BY <1>1, <1>2
<1>6. got' # <<>>
  BY <1>5
<1> HIDE DEF n
<1>7. \A i \in 1..(n + 1) : i \in 1..n \/ i = n + 1
  BY <1>5
<1>8. \A i, j \in DOMAIN got' : i < j => got'[i] < got'[j]
  <2>1. ASSUME NEW i \in 1..(n + 1), NEW j \in 1..(n + 1), i < j
        PROVE  got'[i] < got'[j]
    <3>1. i \in 1..n
      BY <1>5, <2>1
    <3>2. CASE j \in 1..n
      BY <1>3, <1>5, <2>1, <3>1, <3>2
    <3>3. CASE j = n + 1
      BY <1>3, <1>5, <3>1, <3>3
    <3> QED
      BY <1>7, <3>2, <3>3
  <2> QED
    BY <1>5, <2>1
<1>9. \A i \in DOMAIN got' : cursor < got'[i]
  BY <1>3, <1>5, <1>7
<1>10. ASSUME NEW x \in page \ {item}
       PROVE  cursor < x /\ \A i \in DOMAIN got' : got'[i] < x
  <2>1. item < x
    BY <1>2, <1>3
  <2> QED
    BY <1>3, <1>5, <1>7, <2>1
<1>11. ASSUME NEW x \in since, cursor < x
       PROVE  \/ x \in page'
              \/ \E i \in DOMAIN got' : got'[i] = x
              \/ more' /\ (\A y \in page' : y < x) /\ (\A i \in DOMAIN got' : got'[i] < x)
  <2>1. n + 1 \in DOMAIN got'
    BY <1>5
  <2>2. CASE x \in page
    BY <1>1, <1>5, <2>1, <2>2
  <2>3. CASE \E i \in DOMAIN got : got[i] = x
    <3>1. PICK i \in 1..n : got[i] = x
      BY <1>5, <2>3
    <3>2. i \in DOMAIN got' /\ got'[i] = x
      BY <1>5, <3>1
    <3> QED
      BY <3>2
  <2>4. CASE more /\ (\A y \in page : y < x) /\ (\A i \in DOMAIN got : got[i] < x)
    BY <1>1, <1>3, <1>5, <1>7, <2>4
  <2> QED
    BY <1>3, <1>11, <2>2, <2>3, <2>4
<1>12. PageInv'
  BY <1>1, <1>6, <1>8, <1>9, <1>10, <1>11 DEF PageInv
<1> QED
  BY <1>4, <1>12

\* The cursor moves to the last item: all that counts up to it is in walk and got.
LEMMA PageReceivedKeepsWalks ==
  ASSUME TypeOK, WalkInv, PageInv, PageReceived
  PROVE  WalkInv' /\ PageInv' /\ cursor' \in Ids \cup {0} /\ walk' \in Seq(Ids)
<1>1. /\ at = "items" /\ page = {} /\ walk' = walk \o got /\ got' = <<>>
      /\ cursor' = IF more THEN got[Len(got)] ELSE cursor
      /\ at' = IF more THEN "list" ELSE "walked"
      /\ page' = page /\ list' = list /\ since' = since /\ Stored(list)' = Stored(list)
  BY DEF PageReceived, billing, Stored
<1>2. /\ got \in Seq(Ids) /\ walk \in Seq(Ids) /\ cursor \in Ids \cup {0}
      /\ Ids \subseteq Nat /\ since \subseteq Nat
  BY IdsAssumption DEF TypeOK, Ids
<1>3. /\ \A i, j \in DOMAIN got : i < j => got[i] < got[j]
      /\ \A i \in DOMAIN got : cursor < got[i]
      /\ \A x \in since : cursor < x =>
           \/ \E i \in DOMAIN got : got[i] = x
           \/ more /\ \A i \in DOMAIN got : got[i] < x
      /\ more => got # <<>>
  BY <1>1 DEF PageInv
<1>4. /\ list \in Tables /\ since \subseteq Stored(list)
      /\ \A i, j \in DOMAIN walk : i < j => walk[i] < walk[j]
      /\ \A i \in DOMAIN walk : walk[i] <= cursor
      /\ \A x \in since : x <= cursor => \E i \in DOMAIN walk : walk[i] = x
  BY <1>1 DEF WalkInv, Walking
<1> DEFINE m == Len(walk)
           n == Len(got)
<1>5. /\ m \in Nat /\ n \in Nat /\ DOMAIN walk = 1..m /\ DOMAIN got = 1..n
      /\ walk' \in Seq(Ids) /\ DOMAIN walk' = 1..(m + n)
      /\ \A i \in 1..m : walk'[i] = walk[i] /\ walk[i] \in Nat
      /\ \A i \in 1..n : walk'[m + i] = got[i] /\ got[i] \in Nat /\ got[i] \in Ids
      /\ more => n > 0
  <2>1. /\ m \in Nat /\ n \in Nat /\ DOMAIN walk = 1..m /\ DOMAIN got = 1..n
    BY <1>2
  <2>2. walk' \in Seq(Ids) /\ Len(walk') = m + n
    BY <1>1, <1>2
  <2>3. DOMAIN walk' = 1..(m + n)
    BY <2>2
  <2>4. \A i \in 1..m : walk'[i] = walk[i]
    BY <1>1, <1>2
  <2>5. \A i \in 1..n : walk'[m + i] = got[i]
    BY <1>1, <1>2
  <2>6. more => n > 0
    BY <1>2, <1>3
  <2>7. (\A i \in 1..m : walk[i] \in Ids) /\ (\A i \in 1..n : got[i] \in Ids)
    BY <1>2
  <2> QED
    BY <1>2, <2>1, <2>2, <2>3, <2>4, <2>5, <2>6, <2>7
<1> HIDE DEF m, n
<1>6. ASSUME NEW i \in 1..(m + n)
      PROVE  i \in 1..m \/ (i - m \in 1..n /\ walk'[i] = got[i - m])
  <2>1. i \in 1..m \/ (i - m \in 1..n /\ m + (i - m) = i)
    BY <1>5
  <2> QED
    BY <1>5, <2>1
<1>7. ASSUME NEW i \in 1..(m + n), NEW j \in 1..(m + n), i < j
      PROVE  walk'[i] < walk'[j]
  <2>1. CASE i \in 1..m /\ j \in 1..m
    BY <1>4, <1>5, <1>7, <2>1
  <2>2. CASE i \in 1..m /\ j - m \in 1..n /\ walk'[j] = got[j - m]
    <3>1. walk'[i] <= cursor /\ cursor < walk'[j] /\ walk'[i] \in Nat /\ walk'[j] \in Nat
      BY <1>3, <1>4, <1>5, <2>2
    <3> QED
      BY <1>2, <3>1
  <2>3. CASE i - m \in 1..n /\ walk'[i] = got[i - m] /\ j - m \in 1..n /\ walk'[j] = got[j - m]
    <3>1. i - m < j - m
      BY <1>5, <1>7
    <3> QED
      BY <1>3, <1>5, <2>3, <3>1
  <2>4. i \notin 1..m => j \notin 1..m
    BY <1>5, <1>7
  <2> QED
    BY <1>6, <2>1, <2>2, <2>3, <2>4
<1>8. ASSUME NEW x \in since, (\E i \in 1..m : walk[i] = x) \/ (\E i \in 1..n : got[i] = x)
      PROVE  \E i \in DOMAIN walk' : walk'[i] = x
  <2>1. CASE \E i \in 1..m : walk[i] = x
    <3>1. PICK i \in 1..m : walk[i] = x
      BY <2>1
    <3>2. i \in 1..(m + n) /\ walk'[i] = x
      BY <1>5, <3>1
    <3> QED
      BY <1>5, <3>2
  <2>2. CASE \E i \in 1..n : got[i] = x
    <3>1. PICK i \in 1..n : got[i] = x
      BY <2>2
    <3>2. m + i \in 1..(m + n) /\ walk'[m + i] = x
      BY <1>5, <3>1
    <3> QED
      BY <1>5, <3>2
  <2> QED
    BY <1>8, <2>1, <2>2
<1>9. \A i, j \in DOMAIN walk' : i < j => walk'[i] < walk'[j]
  BY <1>5, <1>7
<1>10. CASE ~more
  <2>1. at' = "walked" /\ cursor' = cursor
    BY <1>1, <1>10
  <2>2. \A x \in since : \E i \in DOMAIN walk' : walk'[i] = x
    <3>1. ASSUME NEW x \in since
          PROVE  (\E i \in 1..m : walk[i] = x) \/ (\E i \in 1..n : got[i] = x)
      <4>1. x <= cursor \/ cursor < x
        BY <1>2
      <4> QED
        BY <1>3, <1>4, <1>5, <1>10, <4>1
    <3> QED
      BY <1>8, <3>1
  <2>3. WalkInv'
    BY <1>1, <1>4, <1>9, <2>1, <2>2 DEF WalkInv, Walking
  <2>4. PageInv'
    BY <1>1, <2>1 DEF PageInv
  <2> QED
    BY <1>2, <1>5, <2>1, <2>3, <2>4
<1>11. CASE more
  <2>1. at' = "list" /\ cursor' = got[n] /\ n \in 1..n
    BY <1>1, <1>5, <1>11 DEF n
  <2>2. cursor' \in Nat /\ cursor' \in Ids /\ cursor < cursor'
    BY <1>3, <1>5, <2>1
  <2>3. \A i \in 1..n : got[i] <= cursor'
    <3>1. ASSUME NEW i \in 1..n
          PROVE  got[i] <= cursor'
      <4>1. i < n \/ i = n
        BY <1>5
      <4>2. got[i] \in Nat /\ i \in DOMAIN got /\ n \in DOMAIN got
        BY <1>5, <2>1
      <4>3. CASE i = n
        BY <2>1, <2>2, <4>3
      <4>4. CASE i < n
        BY <1>3, <2>1, <2>2, <4>2, <4>4
      <4> QED
        BY <4>1, <4>3, <4>4
    <3> QED
      BY <3>1
  <2>4. \A i \in DOMAIN walk' : walk'[i] <= cursor'
    <3>1. ASSUME NEW i \in 1..m
          PROVE  walk'[i] <= cursor'
      <4>1. walk'[i] = walk[i] /\ walk[i] \in Nat /\ walk[i] <= cursor /\ cursor \in Nat
        <5>1. cursor \in Nat
          BY <1>2
        <5>2. walk[i] <= cursor
          BY <1>4, <1>5
        <5> QED
          BY <1>5, <5>1, <5>2
      <4> QED
        BY <2>2, <4>1
    <3> QED
      BY <1>5, <1>6, <2>3, <3>1
  <2>5. \A x \in since : x <= cursor' => \E i \in DOMAIN walk' : walk'[i] = x
    <3>1. ASSUME NEW x \in since, x <= cursor'
          PROVE  (\E i \in 1..m : walk[i] = x) \/ (\E i \in 1..n : got[i] = x)
      <4>1. x <= cursor \/ cursor < x
        BY <1>2
      <4>2. ~(\A i \in DOMAIN got : got[i] < x)
        <5>1. n \in DOMAIN got /\ x \in Nat
          BY <1>2, <1>5, <2>1
        <5>2. ~(got[n] < x)
          BY <2>1, <2>2, <3>1, <5>1
        <5> QED
          BY <5>1, <5>2
      <4> QED
        BY <1>3, <1>4, <1>5, <4>1, <4>2
    <3> QED
      BY <1>8, <3>1
  <2>6. WalkInv'
    BY <1>1, <1>4, <1>9, <2>1, <2>4, <2>5 DEF WalkInv, Walking
  <2>7. PageInv'
    BY <1>1, <2>1 DEF PageInv
  <2> QED
    BY <1>5, <2>2, <2>6, <2>7
<1> QED
  BY <1>10, <1>11

LEMMA ClientKeepsWalks ==
  ASSUME TypeOK, WalkInv, PageInv, ClientStep
  PROVE  WalkInv' /\ PageInv'
<1>1. \A t \in Tables : Stored(t)' = Stored(t)
  BY ClientWritesNothing DEF Stored
<1>2. CASE (\E a \in Accounts : Get("accounts", a)) \/ (\E q \in Periods : Get("periods", q))
           \/ GetChildren \/ EndWalk
  <2>1. /\ at \in {"idle", "get", "walked"} /\ at' \in {"idle", "get"}
        /\ page' = page /\ got' = got
    BY <1>2 DEF Get, GetChildren, EndWalk
  <2> QED
    BY <2>1 DEF WalkInv, PageInv, Walking
<1>3. ASSUME NEW t \in Tables, BeginWalk(t)
      PROVE  WalkInv' /\ PageInv'
  <2>1. /\ at = "idle" /\ at' = "list" /\ list' = t /\ cursor' = 0 /\ walk' = <<>> /\ got' = <<>>
        /\ since' = Stored(t) /\ page' = page /\ Stored(t)' = Stored(t)
    BY <1>1, <1>3 DEF BeginWalk
  <2>2. \A x \in Stored(t) : ~(x <= 0)
    BY StoredIds
  <2>3. DOMAIN walk' = {}
    BY <2>1
  <2>4. WalkInv'
    BY <2>1, <2>2, <2>3 DEF WalkInv, Walking
  <2>5. PageInv'
    BY <2>1 DEF PageInv
  <2> QED
    BY <2>4, <2>5
<1>4. CASE PageLost
  <2>1. /\ at \in {"items", "item"} /\ at' = "list" /\ got' = <<>> /\ page' = {}
        /\ list' = list /\ cursor' = cursor /\ walk' = walk /\ since' = since
    BY <1>4 DEF PageLost
  <2>2. WalkInv'
    BY <1>1, <2>1 DEF WalkInv, Walking
  <2>3. PageInv'
    BY <2>1 DEF PageInv
  <2> QED
    BY <2>2, <2>3
<1> QED
  BY <1>2, <1>3, <1>4, ListPageKeepsWalks, ListedRowKeepsWalks, ListedChildrenKeepsWalks,
     PageReceivedKeepsWalks DEF ClientStep

-----------------------------------------------------------------------------
\* Types.  What the client asked for bounds what a page holds.
Bounded == \E n \in PageSizes : Cardinality(page) + Len(got) <= n

LEMMA ClientKeepsBounds ==
  ASSUME TypeOK, WalkInv, PageInv, ClientStep
  PROVE  Bounded'
<1>1. PageSizes \subseteq Nat \ {0} /\ PageSizes # {} /\ Cardinality({}) = 0
  BY SizesAssumption, FS_EmptySet
<1>2. Bounded /\ got \in Seq(Ids) /\ page \subseteq Ids /\ IsFiniteSet(page)
      /\ Cardinality(page) \in Nat
  BY IdsAssumption, FS_Subset, FS_Union, FS_CardinalityType DEF TypeOK, Bounded, Ids
<1>3. ASSUME page' = {}, got' = <<>>
      PROVE  Bounded'
  <2>1. Len(got') = 0 /\ Cardinality(page') = 0
    BY <1>1, <1>3
  <2>2. PICK n \in PageSizes : TRUE
    BY <1>1
  <2>3. Cardinality(page') + Len(got') <= n
    BY <1>1, <2>1
  <2> QED
    BY <2>3 DEF Bounded
<1>4. ASSUME page' = page, got' = got
      PROVE  Bounded'
  BY <1>2, <1>4 DEF Bounded
<1>5. ASSUME NEW n \in PageSizes, ListPage(n)
      PROVE  Bounded'
  <2>1. Cardinality(page') <= n /\ got' = <<>> /\ page' \subseteq Ids
    BY <1>5, ListPageKeepsWalks DEF ListPage, PageInv
  <2>2. Cardinality(page') \in Nat
    BY <2>1, IdsAssumption, FS_Subset, FS_Union, FS_CardinalityType DEF Ids
  <2>3. Len(got') = 0
    BY <2>1
  <2> QED
    BY <1>1, <2>1, <2>2, <2>3 DEF Bounded
<1>6. CASE ListedChildren
  <2>1. page' = page \ {item} /\ item \in page /\ got' = Append(got, item)
    BY <1>6 DEF ListedChildren, PageInv
  <2>2. Cardinality(page') = Cardinality(page) - 1
    BY <1>2, <2>1, FS_RemoveElement
  <2>3. Len(got') = Len(got) + 1 /\ Len(got) \in Nat
    BY <1>2, <2>1
  <2> QED
    BY <1>1, <1>2, <2>2, <2>3 DEF Bounded
<1>7. CASE \/ \E a \in Accounts : Get("accounts", a)
           \/ \E q \in Periods : Get("periods", q)
           \/ GetChildren \/ EndWalk \/ ListedRow
  BY <1>4, <1>7 DEF Get, GetChildren, EndWalk, ListedRow
<1>8. CASE (\E t \in Tables : BeginWalk(t)) \/ PageReceived \/ PageLost
  BY <1>3, <1>8 DEF BeginWalk, PageReceived, PageLost, PageInv
<1> QED
  BY <1>5, <1>6, <1>7, <1>8 DEF ClientStep

LEMMA ClientKeepsTypes ==
  ASSUME TypeOK, Billed, ViewInv, WalkInv, PageInv, ClientStep
  PROVE  TypeOK'
<1>1. accounts' \in [Accounts -> 0..MaxRevision]
  BY ClientWritesNothing DEF TypeOK
<1>2. Bounded' /\ account' \in AccountViews /\ period' \in PeriodViews
  BY ClientKeepsBounds, ClientKeepsViews
<1>3. /\ at \in {"idle", "get", "list", "items", "item", "walked"}
      /\ list \in Tables \cup {"none"}
      /\ cursor \in Ids \cup {0} /\ page \subseteq Ids /\ since \subseteq Ids
      /\ more \in BOOLEAN /\ item \in Ids \cup {0}
      /\ got \in Seq(Ids) /\ walk \in Seq(Ids)
  BY DEF TypeOK, Tables
<1> DEFINE Kept ==
      /\ at' \in {"idle", "get", "list", "items", "item", "walked"}
      /\ list' \in Tables \cup {"none"}
      /\ cursor' \in Ids \cup {0} /\ page' \subseteq Ids /\ since' \subseteq Ids
      /\ item' \in Ids \cup {0}
      /\ got' \in Seq(Ids) /\ walk' \in Seq(Ids)
<1>4. <<>> \in Seq(Ids)
  OBVIOUS
<1>5. ASSUME \/ \E a \in Accounts : Get("accounts", a)
             \/ \E q \in Periods : Get("periods", q)
             \/ GetChildren \/ EndWalk
      PROVE  Kept
  BY <1>3, <1>4, <1>5 DEF Get, GetChildren, EndWalk, Tables, Ids
<1>6. ASSUME NEW t \in Tables, BeginWalk(t)
      PROVE  Kept
  BY <1>3, <1>4, <1>6, StoredIds DEF BeginWalk
<1>7. ASSUME NEW n \in PageSizes, ListPage(n)
      PROVE  Kept
  BY <1>3, <1>7, ListPageKeepsWalks DEF ListPage
<1>8. ASSUME ListedRow
      PROVE  Kept
  BY <1>3, <1>8, ListedRowKeepsWalks DEF ListedRow
<1>9. ASSUME ListedChildren
      PROVE  Kept
  <2>1. item \in Ids /\ got' = Append(got, item)
    BY <1>3, <1>9 DEF ListedChildren, PageInv
  <2>2. got' \in Seq(Ids)
    BY <1>3, <2>1
  <2> QED
    BY <1>3, <1>9, <2>2 DEF ListedChildren
<1>10. ASSUME PageReceived
       PROVE  Kept
  BY <1>3, <1>4, <1>10, PageReceivedKeepsWalks DEF PageReceived
<1>11. ASSUME PageLost
       PROVE  Kept
  BY <1>3, <1>4, <1>11 DEF PageLost
<1>12. Kept
  BY <1>5, <1>6, <1>7, <1>8, <1>9, <1>10, <1>11 DEF ClientStep
<1>13. more' \in BOOLEAN
  <2>1. more' = more \/ more' = FALSE \/ \E n \in PageSizes : ListPage(n)
    BY DEF ClientStep, Get, BeginWalk, GetChildren, ListedRow, ListedChildren, PageReceived,
           PageLost, EndWalk
  <2> QED
    BY <1>3, <2>1, ListPageKeepsWalks
<1> QED
  BY <1>1, <1>2, <1>12, <1>13 DEF TypeOK, Tables, Bounded, AccountViews, PeriodViews

LEMMA WritersKeepTypes ==
  ASSUME TypeOK, Billed, WriterStep
  PROVE  TypeOK'
<1>1. /\ at' = at /\ list' = list /\ cursor' = cursor /\ page' = page /\ more' = more
      /\ item' = item /\ got' = got /\ walk' = walk /\ since' = since
      /\ account' = account /\ period' = period
      /\ accounts' \in [Accounts -> 0..MaxRevision]
  BY WritersGrow
<1> QED
  BY <1>1 DEF TypeOK

-----------------------------------------------------------------------------
LEMMA StartsInvariant ==
  ASSUME Init
  PROVE  RInv
<1>1. /\ accounts = [a \in Accounts |-> 0] /\ at = "idle" /\ list = "none"
      /\ cursor = 0 /\ page = {} /\ more = FALSE /\ item = 0
      /\ got = <<>> /\ walk = <<>> /\ since = {} /\ account = NoAccount /\ period = NoPeriod
      /\ line = [d \in Deliveries |-> Billing!Line("absent", 0, "none")]
      /\ reported = [q \in Periods |-> "absent"]
  BY DEF Init, Billing!Init
<1>2. Billed
  <2>1. Billing!Line("absent", 0, "none") \in Billing!Lines
        /\ Billing!Line("absent", 0, "none").status = "absent"
    BY DEF Billing!Line, Billing!Lines
  <2>2. "absent" \in Billing!Reports
    BY DEF Billing!Reports
  <2>3. \A d \in Deliveries : PeriodOf[d] \in Periods
    BY IdsAssumption
  <2> QED
    BY <1>1, <2>1, <2>2, <2>3 DEF Billed
<1>3. ViewInv
  BY <1>1, NoPeriodIsNone DEF ViewInv, PeriodViewsAreSound, NoAccount
<1>4. WalkInv /\ PageInv
  BY <1>1 DEF WalkInv, PageInv, Walking
<1>5. 0 \in 0..MaxRevision /\ MaxRevision \in Nat
  BY SizesAssumption
<1>6. \E n \in PageSizes : Cardinality(page) + Len(got) <= n
  <2>1. Len(got) = 0 /\ Cardinality(page) = 0
    BY <1>1, FS_EmptySet
  <2>2. PICK n \in PageSizes : TRUE
    BY SizesAssumption
  <2>3. Cardinality(page) + Len(got) <= n
    BY <2>1, SizesAssumption
  <2> QED
    BY <2>3
<1>7. /\ account \in [id: Accounts \cup {0}, revision: 0..MaxRevision, mappings: 0..MaxRevision]
      /\ period \in [id: Periods \cup {0}, status: Statuses, lines: [Deliveries -> Statuses]]
  BY <1>1, <1>5 DEF NoAccount, NoPeriod, Statuses
<1>8. TypeOK
  <2>1. <<>> \in Seq(Ids)
    OBVIOUS
  <2>2. accounts \in [Accounts -> 0..MaxRevision]
    BY <1>1, <1>5
  <2>3. more \in BOOLEAN
    BY <1>1, Zenon
  <2> QED
    BY <1>1, <1>6, <1>7, <2>1, <2>2, <2>3 DEF TypeOK
<1> QED
  BY <1>2, <1>3, <1>4, <1>8 DEF RInv

\* What is so of every reachable state: see RInv.
THEOREM Inductive == Spec => []RInv
<1>1. Init => RInv
  BY StartsInvariant
<1>2. RInv /\ [Next]_vars => RInv'
  <2> SUFFICES ASSUME RInv, [Next]_vars
               PROVE  RInv'
    OBVIOUS
  <2> USE DEF RInv
  <2>1. CASE ClientStep
    <3>1. Billed'
      BY <2>1, ClientWritesNothing DEF Billed
    <3> QED
      BY <2>1, <3>1, ClientKeepsTypes, ClientKeepsViews, ClientKeepsWalks
  <2>2. CASE WriterStep
    BY <2>2, WritersGrow, WritersKeepTypes, WritersKeepViews, WritersKeepWalks
  <2>3. CASE UNCHANGED vars
    <3>1. /\ line' = line /\ reported' = reported /\ accounts' = accounts
          /\ at' = at /\ list' = list /\ cursor' = cursor /\ page' = page /\ more' = more
          /\ item' = item /\ got' = got /\ walk' = walk /\ since' = since
          /\ account' = account /\ period' = period
      BY <2>3 DEF vars, billing, client, views
    <3>2. TypeOK' /\ Billed'
      BY <3>1 DEF TypeOK, Billed
    <3>3. ViewInv'
      BY <3>1 DEF ViewInv, PeriodViewsAreSound, Held, Stored
    <3>4. WalkInv' /\ PageInv'
      BY <3>1 DEF WalkInv, PageInv, Walking, Stored
    <3> QED
      BY <3>2, <3>3, <3>4
  <2> QED
    BY <2>1, <2>2, <2>3, NextIsStep
<1> QED
  BY <1>1, <1>2, PTL DEF Spec

\* Every variable keeps its type, and no page holds more than the client has asked for.
THEOREM TypeCorrect == Spec => []TypeOK
<1>1. RInv => TypeOK
  BY DEF RInv
<1> QED
  BY <1>1, Inductive, PTL

\* A period view that says "delivered" shows only delivered lines, and every period view
\* all its lines: get_period reads the row before the lines.
THEOREM PeriodViewsHold == Spec => []PeriodViewsAreSound
<1>1. RInv => PeriodViewsAreSound
  BY DEF RInv, ViewInv
<1> QED
  BY <1>1, Inductive, PTL

\* An account view whose revision is the current one shows exactly its mappings, although
\* get_account reads them in a second statement.
THEOREM AccountViewsHold == Spec => []CurrentViewsAreExact
<1>1. ASSUME RInv, Held("accounts"), account.id # 0, account.revision = accounts[account.id]
      PROVE  account.mappings = account.revision
  <2>1. account.revision <= account.mappings /\ account.mappings <= account.revision
    BY <1>1 DEF RInv, ViewInv
  <2>2. account.revision \in Nat /\ account.mappings \in Nat
    BY <1>1, SizesAssumption DEF RInv, TypeOK
  <2> QED
    BY <2>1, <2>2
<1>2. RInv => CurrentViewsAreExact
  BY <1>1 DEF CurrentViewsAreExact
<1> QED
  BY <1>2, Inductive, PTL

\* A finished walk has returned every row stored when it began, in order and none twice,
\* whatever was inserted, however page sizes changed and pages were asked for again.
THEOREM WalksHold == Spec => []WalksAreComplete
<1>1. RInv => WalksAreComplete
  BY DEF RInv, WalkInv, Walking, WalksAreComplete
<1> QED
  BY <1>1, Inductive, PTL
=============================================================================
