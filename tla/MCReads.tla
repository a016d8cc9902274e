------------------------------ MODULE MCReads ------------------------------
(***************************************************************************)
(* Instance of Reads for TLC: three accounts, so that a walk has a first,  *)
(* a middle and a last page, and one period of two lines.                  *)
(***************************************************************************)
EXTENDS Reads, TLC

CONSTANTS d1, d2

TwoLines == d1 :> 1 @@ d2 :> 1

\* One retry.
Decisions == {[key |-> "k1", delivery |-> d1, resolution |-> "retry", reference |-> FALSE]}
=============================================================================
