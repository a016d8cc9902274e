-------------------------- MODULE MCDeliveryOutbox --------------------------
(***************************************************************************)
(* Instances of DeliveryOutbox for TLC.                                    *)
(***************************************************************************)
EXTENDS DeliveryOutbox, TLC

CONSTANTS d1, d2, p1, p2, k1, k2

\* Two lines of one period, and one line in each of two periods.
SharedPeriod  == d1 :> p1 @@ d2 :> p1
SinglePeriods == d1 :> p1 @@ d2 :> p2

Request(k, d, resolution, reference) ==
  [key |-> k, delivery |-> d, resolution |-> resolution, reference |-> reference]

\* Two administrators decide differently about one line; one of them reuses a key.
Disputed == {Request(k1, d1, "retry", FALSE), Request(k1, d1, "failed", FALSE),
             Request(k2, d1, "delivered", TRUE)}

\* Each line may be retried once.
Retries == {Request(k1, d1, "retry", FALSE), Request(k2, d2, "retry", FALSE)}

\* No administrator acts.
NoRequests == {}

\* The calls of one kind are interchangeable.
Interchangeable == Permutations(Calls) \cup Permutations(Resolvers)
=============================================================================
