--------------------------- MODULE MCMockTransport --------------------------
(* A read with many retries or none, and a write.                           *)

EXTENDS MockTransport

CONSTANTS MaxRetries, Windows

\* The windows a caller passes to with_backoff.
MCPolicies == {NONE} \cup {WithBackoff(NewPolicy(MaxRetries), w[1], w[2]) : w \in Windows}

MCWindows == {<<2, 1>>, <<3, 20>>, <<100, 110>>}

MCResults ==
    {Body(1), Body(2), Failure(TransportError("Timeout")), Failure(PlainError("VerifyFailed"))}

=============================================================================
