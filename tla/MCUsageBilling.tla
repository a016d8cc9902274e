--------------------------- MODULE MCUsageBilling ---------------------------
(***************************************************************************)
(* Instance of UsageBilling for TLC: one line, two processes, one call in  *)
(* each.                                                                   *)
(***************************************************************************)
EXTENDS UsageBilling, TLC

CONSTANTS d1, p1, h1, h2, c1, c2

OneLine == d1 :> p1
Hosts   == c1 :> h1 @@ c2 :> h2

\* The line may be retried once and settled once.
Decisions == {[key |-> "k1", delivery |-> d1, resolution |-> "retry", reference |-> FALSE],
              [key |-> "k2", delivery |-> d1, resolution |-> "delivered", reference |-> TRUE]}
=============================================================================
