------------------------------- MODULE Wire -------------------------------
(***************************************************************************)
(* How errors travel between the plugins, and what is made of them: the    *)
(* codec of the generated capability crates, sink_failure in the billing   *)
(* plugin, map_error in the agent tools plugin.                            *)
(*                                                                         *)
(* A domain error is known to the contract version of whoever holds it, or *)
(* Unknown with its code and perhaps a payload.  On the wire a known error *)
(* is a JSON string and an Unknown one an object.  Within one process      *)
(* errors are handed over as they are, without the codec.                  *)
(***************************************************************************)

\* The error codes of lenso.usage-billing@1 (the same for each of its operations) and of
\* lenso.billing-meter-sink@1.
BillingCodes ==
  {"account_disabled", "delivery_not_found", "forbidden", "idempotency_conflict",
   "invalid_request", "invalid_resolution", "not_found", "period_conflict",
   "revision_conflict", "source_rejected", "unauthenticated"}

SinkCodes ==
  {"account_not_found", "effect_unknown", "forbidden", "idempotency_conflict",
   "invalid_event", "meter_not_configured"}

\* A code some newer version of a contract may have.
NewerCode == "newer"

Known(code)            == [kind |-> "known", code |-> code, payload |-> FALSE]
Unknown(code, payload) == [kind |-> "unknown", code |-> code, payload |-> payload]
ErrorsOf(codes) ==
  {Known(k) : k \in codes} \cup {Unknown(k, b) : k \in codes, b \in BOOLEAN}

\* What the provider of a capability may fail with: its version may be newer than ours,
\* and it may pass on an Unknown error it was given.
BillingErrors == ErrorsOf(BillingCodes \cup {NewerCode})
SinkErrors    == ErrorsOf(SinkCodes \cup {NewerCode})

\* serialize: a string, or an object with the code and the payload there is.
Encode(e) == [form |-> IF e.kind = "known" THEN "string" ELSE "object",
              code |-> e.code, payload |-> e.payload]

\* deserialize: only a string can be a known error; objects stay Unknown, payload and all.
Decode(w, codes) ==
  IF w.form = "string" /\ w.code \in codes THEN Known(w.code) ELSE Unknown(w.code, w.payload)

\* The codec, as the reader whose contract has these codes sees the error.
Received(e, codes) == Decode(Encode(e), codes)

\* Mutated: a code of a newer contract counts as a refusal.
SinkStatusHasty(e) ==
  IF e.code \in {"effect_unknown", "idempotency_conflict"} THEN "unknown" ELSE "failed"

\* sink_failure: the status recorded for an error of the sink.
SinkStatus(e) ==
  IF e.kind = "known" /\ e.code \notin {"effect_unknown", "idempotency_conflict"}
  THEN "failed" ELSE "unknown"

\* Mutated: an error the tools do not know is not found.
ToolErrorLenient(e) ==
  CASE e.kind = "unknown" -> "not_found"
    [] e.code = "invalid_request" -> "invalid_arguments"
    [] e.code \in {"delivery_not_found", "not_found"} -> "not_found"
    [] e.code \in {"forbidden", "unauthenticated"} -> "permission_denied"
    [] OTHER -> "execution_failed"

\* map_error: the tool error for an error of the billing plugin.
ToolError(e) ==
  CASE e.kind = "unknown" -> "execution_failed"
    [] e.code = "invalid_request" -> "invalid_arguments"
    [] e.code \in {"delivery_not_found", "not_found"} -> "not_found"
    [] e.code \in {"forbidden", "unauthenticated"} -> "permission_denied"
    [] OTHER -> "execution_failed"
=============================================================================
