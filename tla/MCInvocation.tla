---------------------------- MODULE MCInvocation ----------------------------
(***************************************************************************)
(* Instance of Invocation for TLC: an admin, a worker and the tools; the   *)
(* callers were built before two of the errors were in the contract.       *)
(***************************************************************************)
EXTENDS Invocation

OlderCodes == BillingCodes \ {"delivery_not_found", "unauthenticated"}
=============================================================================
