------------------------------ MODULE Endpoint ------------------------------
(***************************************************************************)
(* The gateway endpoints of the client and the three facts about each of   *)
(* them that its control flow depends on: the HTTP method (a GET is        *)
(* read-only and may be retried, a POST moves money and may not), the      *)
(* `code` values that mean success, and whether the call checks the        *)
(* payload of a successful answer against the request.                     *)
(***************************************************************************)

EXTENDS Integers

Endpoints == {"CreatePayment", "QueryOrder", "QueryOrders", "Refund",
              "QueryMerchant", "QuerySettlements"}

Method(endpoint) == IF endpoint \in {"CreatePayment", "Refund"} THEN "Post" ELSE "Get"

\* Fault: code 0 is accepted from every endpoint.
IsSuccessCodeZero(endpoint, code) == code \in {0, 1}

IsSuccessCode(endpoint, code) ==
    \/ code = 1
    \/ endpoint = "Refund" /\ code = 0

\* Every `*_with` method of the client calls validate_success on the decoded
\* answer except refund_with, which returns it as it is. What is checked differs:
\* of a created payment that its number is well-formed and that it can be paid
\* somewhere, of rows their merchant, numbers and amounts too (ResponseCheck).
ChecksPayload(endpoint) == endpoint # "Refund"

=============================================================================
