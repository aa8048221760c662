------------------------------- MODULE Errors -------------------------------
(***************************************************************************)
(* The Error enum of the SDK, without its texts. An error keeps what the   *)
(* retry loop and its callers branch on: the variant, the transport kind   *)
(* and the HTTP status. All errors are records of one shape.               *)
(***************************************************************************)

EXTENDS Integers

TransportErrorKinds == {"Timeout", "Connect", "Redirect", "Body", "Request", "Other"}

Variants == {"Config", "Param", "Notify", "VerifyFailed", "Api", "Transport",
             "Http", "InvalidResponse", "ResponseTooLarge"}

Error == [variant : Variants, kind : TransportErrorKinds \cup {"-"}, status : Nat]

\* What a call without an error (yet) holds.
NoError == [variant |-> "-", kind |-> "-", status |-> 0]

PlainError(variant) == [variant |-> variant, kind |-> "-", status |-> 0]

TransportError(kind) == [variant |-> "Transport", kind |-> kind, status |-> 0]

HttpError(status) == [variant |-> "Http", kind |-> "-", status |-> status]

\* What reading an answer comes to, by its status and by how its body arrives:
\* "whole", "oversized" (beyond the limit) or "broken" (it breaks off). Size and
\* integrity of the body are looked at before the status.
ReadOutcome(status, body) ==
    CASE body = "oversized" -> PlainError("ResponseTooLarge")
      [] body = "broken"    -> TransportError("Body")
      [] body = "whole" /\ status \notin 200..299 -> HttpError(status)
      [] OTHER -> NoError

IsRetryable(error) ==
    \/ error.variant = "Transport" /\ error.kind \in {"Timeout", "Connect"}
    \/ error.variant = "Http" /\ error.status \in 502..504

=============================================================================
