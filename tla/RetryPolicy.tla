---------------------------- MODULE RetryPolicy -----------------------------
(***************************************************************************)
(* The retry policy of the read-only calls: how many retries, and the      *)
(* delay before each of them. Delays are counted in abstract ticks.        *)
(* MaxDuration is Duration::MAX, above which checked_mul yields None, and  *)
(* ShiftWidth the width of the integer shifted (32): both are parameters   *)
(* so that a small instance reaches the two boundaries.                    *)
(***************************************************************************)

EXTENDS Errors

CONSTANTS MaxDuration, ShiftWidth

ASSUME MaxDurationAssumption == MaxDuration \in Nat
ASSUME ShiftWidthAssumption == ShiftWidth \in Nat \ {0}

Durations == 0 .. MaxDuration

RetryPolicies == [max_retries : Nat, initial_backoff : Durations, max_backoff : Durations]

NONE == [max_retries |-> 0, initial_backoff |-> 0, max_backoff |-> 0]

\* RetryPolicy::new: 200 ms, then up to 2 s, in ticks of 100 ms.
NewPolicy(max_retries) == [max_retries |-> max_retries, initial_backoff |-> 2, max_backoff |-> 20]

\* with_backoff never leaves a maximum below the initial delay.
WithBackoff(policy, initial, max) ==
    [policy EXCEPT !.initial_backoff = initial,
                   !.max_backoff = IF max >= initial THEN max ELSE initial]

\* Fault: the exponent grows with every retry.
ExponentUnbounded(retry) == IF retry = 0 THEN 0 ELSE retry - 1

\* retry is 1-based; saturating_sub makes retry 0 the same as retry 1. The
\* exponent stops one below the width of the shifted integer.
Exponent(retry) ==
    LET previous == IF retry = 0 THEN 0 ELSE retry - 1
    IN  IF previous < ShiftWidth THEN previous ELSE ShiftWidth - 1

\* 1 << exponent: a shift by the width or more uses the exponent modulo the
\* width (where overflow checks are off).
ShiftedOne(exponent) == 2 ^ (exponent % ShiftWidth)

\* checked_mul gives a Duration or None, for which the maximum stands in.
Backoff(policy, retry) ==
    LET delay == policy.initial_backoff * ShiftedOne(Exponent(retry))
    IN  IF delay \in Durations /\ delay <= policy.max_backoff
        THEN delay
        ELSE policy.max_backoff

\* Fault: the bound counts attempts instead of retries.
ShouldRetryAttempts(policy, retries_so_far, error) ==
    /\ retries_so_far + 1 < policy.max_retries
    /\ IsRetryable(error)

ShouldRetry(policy, retries_so_far, error) ==
    /\ retries_so_far < policy.max_retries
    /\ IsRetryable(error)

=============================================================================
