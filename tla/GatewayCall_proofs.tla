------------------------- MODULE GatewayCall_proofs --------------------------
(***************************************************************************)
(* Proofs about GatewayCall, for any set of calls, endpoints, policies,    *)
(* timeouts and answers.                                                   *)
(***************************************************************************)

EXTENDS GatewayCall, TLAPS

(***************************************************************************)
(* Facts about the operators the actions are built from.                   *)
(***************************************************************************)

\* A back-off is a duration within the policy's maximum.
LEMMA BackoffBounded ==
    ASSUME NEW policy \in RetryPolicies, NEW retry \in Nat
    PROVE  Backoff(policy, retry) \in Nat /\ Backoff(policy, retry) <= policy.max_backoff
BY MaxDurationAssumption DEF Backoff, RetryPolicies, Durations

\* The client and the gateway agree on the codes that mean success.
LEMMA SuccessCodesAgree ==
    ASSUME NEW e, NEW code
    PROVE  IsSuccessCode(e, code) <=> code \in SuccessCodes(e)
BY DEF IsSuccessCode, SuccessCodes

\* Reading an answer never ends with a definite error.
LEMMA ReadOutcomeFacts ==
    ASSUME NEW r \in Replies
    PROVE  \/ ReadOutcome(r.status, r.body) = NoError
           \/ /\ ReadOutcome(r.status, r.body) \in Error
              /\ ~Definite(ReadOutcome(r.status, r.body))
BY StatusesAssumption
   DEF ReadOutcome, Replies, Definite, NoError, Error, PlainError, TransportError, HttpError,
       Variants, TransportErrorKinds

\* What an answer is turned into: an error of the transport or the client, or
\* success only for an envelope that claims it.
LEMMA VerdictFacts ==
    ASSUME NEW e \in Endpoints, NEW r \in Replies
    PROVE  /\ Verdict(e, r) \in Error \cup {NoError}
           /\ Verdict(e, r) = NoError => ClaimsSuccess(e, r)
           /\ Verdict(e, r) \in Error /\ Definite(Verdict(e, r)) => ClaimsFailure(e, r)
<1>1. CASE ReadOutcome(r.status, r.body) # NoError
  BY <1>1, ReadOutcomeFacts DEF Verdict
<1>2. CASE ReadOutcome(r.status, r.body) = NoError
  <2>1. \/ HasEnvelope(r) /\ ~IsSuccessCode(e, r.code) /\ Verdict(e, r) = PlainError("Api")
        \/ HasEnvelope(r) /\ IsSuccessCode(e, r.code) /\ Verdict(e, r) = NoError
        \/ Verdict(e, r) = PlainError("InvalidResponse")
    BY <1>2 DEF Verdict
  <2>2. /\ PlainError("Api") \in Error
        /\ PlainError("InvalidResponse") \in Error
        /\ ~Definite(PlainError("InvalidResponse"))
        /\ PlainError("Api") # NoError
        /\ PlainError("InvalidResponse") # NoError
        /\ NoError \notin Error
    BY DEF PlainError, NoError, Error, Variants, TransportErrorKinds, Definite, TransportError
  <2>3. QED
    BY <2>1, <2>2, SuccessCodesAgree DEF ClaimsSuccess, ClaimsFailure
<1>3. QED
  BY <1>1, <1>2

LEMMA ErrorsAreTyped ==
    /\ PlainError("Param") \in Error
    /\ \A kind \in TransportErrorKinds : TransportError(kind) \in Error
    /\ \A kind \in TransportErrorKinds : Definite(TransportError(kind)) => kind = "Connect"
BY DEF PlainError, TransportError, Error, Variants, TransportErrorKinds, Definite

LEMMA NoReplyClaimsNothing ==
    \A e : ~ClaimsSuccess(e, NoReply) /\ ~ClaimsFailure(e, NoReply)
BY DEF ClaimsSuccess, ClaimsFailure, HasEnvelope, NoReply

\* The effective timeout and policy of a call.
LEMMA OptionsAreTyped ==
    ASSUME TypeOK, NEW c \in Calls
    PROVE  /\ TimeoutOf(c) \in Nat
           /\ PolicyOf(c) \in RetryPolicies
           /\ PolicyOf(c).max_retries \in Nat
           /\ PolicyOf(c).max_backoff \in Nat
<1>1. options[c] \in CallOptions
  BY DEF TypeOK
<1>2. TimeoutOf(c) \in Timeouts /\ PolicyOf(c) \in Policies
  BY <1>1, TimeoutsAssumption, PoliciesAssumption DEF CallOptions, TimeoutOf, PolicyOf
<1>3. PolicyOf(c) \in RetryPolicies
  BY <1>2, PoliciesAssumption
<1>4. TimeoutOf(c) \in Nat
  BY <1>2, TimeoutsAssumption
<1>5. \A policy \in RetryPolicies : policy.max_retries \in Nat /\ policy.max_backoff \in Nat
  BY MaxDurationAssumption DEF RetryPolicies, Durations
<1>6. QED
  BY <1>3, <1>4, <1>5

-----------------------------------------------------------------------------
(***************************************************************************)
(* The inductive invariant. CallInv is what it says of one call; a step of *)
(* one call leaves the others as they are.                                 *)
(***************************************************************************)

CallInv(c) == LoopInv(c) /\ GatewayInv(c) /\ EndInv(c)

Same(d) ==
    /\ pc'[d] = pc[d] /\ endpoint'[d] = endpoint[d] /\ options'[d] = options[d]
    /\ retries'[d] = retries[d] /\ attempts'[d] = attempts[d] /\ error'[d] = error[d]
    /\ spent'[d] = spent[d] /\ slept'[d] = slept[d]
    /\ net'[d] = net[d] /\ reply'[d] = reply[d] /\ executed'[d] = executed[d]

\* The invariant of a call depends on nothing but that call.
LEMMA SameCallInv ==
    ASSUME NEW d \in Calls, CallInv(d), Same(d)
    PROVE  CallInv(d)'
BY DEF CallInv, Same, LoopInv, GatewayInv, EndInv, Failed, Ended, IsRead, TimeoutOf, PolicyOf

\* Hence a step of call c preserves the invariant if it does so for c.
LEMMA OneCallMoves ==
    ASSUME IInv, TypeOK', NEW c \in Calls, \A d \in Calls \ {c} : Same(d), CallInv(c)'
    PROVE  IInv'
<1>1. \A d \in Calls : CallInv(d)
  BY DEF IInv, CallInv
<1>2. \A d \in Calls : CallInv(d)'
  BY <1>1, SameCallInv
<1>3. QED
  BY <1>2 DEF IInv, CallInv

LEMMA InitIInv == Init => IInv
<1>1. SUFFICES ASSUME Init PROVE IInv
  OBVIOUS
<1>2. TypeOK
  BY <1>1 DEF Init, TypeOK
<1>3. ASSUME NEW c \in Calls PROVE LoopInv(c)
  <2>1. Failed(c) * TimeoutOf(c) = 0 /\ PolicyOf(c).max_retries \in Nat
    BY <1>1, <1>2, OptionsAreTyped DEF Init, Failed, Ended
  <2>2. (retries[c] - 0) * PolicyOf(c).max_backoff = 0
    BY <1>1, <1>2, OptionsAreTyped DEF Init
  <2>3. QED
    BY <1>1, <2>1, <2>2 DEF Init, LoopInv, Ended
<1>4. ASSUME NEW c \in Calls PROVE GatewayInv(c) /\ EndInv(c)
  BY <1>1, NoReplyClaimsNothing DEF Init, GatewayInv, EndInv
<1>5. QED
  BY <1>2, <1>3, <1>4 DEF IInv

\* However an attempt fails, the invariant survives, provided a definite error
\* of a write is only given when the gateway has nothing and did nothing.
LEMMA FailAttemptIInv ==
    ASSUME IInv, NEW c \in Calls, NEW e \in Error, NEW ticks \in 0 .. TimeoutOf(c),
           pc[c] \in {"ready", "waiting"},
           FailAttempt(c, e),
           spent' = [spent EXCEPT ![c] = @ + ticks],
           UNCHANGED <<endpoint, options, attempts, slept, net, executed>>,
           ~IsRead(c) /\ Definite(e) => executed[c] = 0 /\ net[c] = {}
    PROVE  IInv'
<1> DEFINE T == TimeoutOf(c)
           P == PolicyOf(c)
<1>1. /\ T \in Nat /\ P.max_retries \in Nat /\ P.max_backoff \in Nat
      /\ TimeoutOf(c)' = T /\ PolicyOf(c)' = P /\ IsRead(c)' = IsRead(c)
  BY OptionsAreTyped DEF IInv, TimeoutOf, PolicyOf, IsRead
<1>2. TypeOK'
  <2>1. ticks \in Nat
    BY <1>1
  <2>2. retries' \in [Calls -> Nat] /\ spent' \in [Calls -> Nat]
    BY <2>1 DEF FailAttempt, IInv, TypeOK
  <2>3. pc' \in [Calls -> {"idle", "ready", "waiting", "backoff", "ok", "err", "dropped"}]
    BY DEF FailAttempt, IInv, TypeOK
  <2>4. error' \in [Calls -> Error \cup {NoError}] /\ reply' \in [Calls -> Replies \cup {NoReply}]
    BY DEF FailAttempt, IInv, TypeOK
  <2>5. QED
    BY <2>2, <2>3, <2>4 DEF IInv, TypeOK
<1>3. \A d \in Calls \ {c} : Same(d)
  BY DEF FailAttempt, IInv, TypeOK, Same
<1>4. /\ LoopInv(c) /\ GatewayInv(c)
      /\ retries[c] \in Nat /\ attempts[c] \in Nat /\ spent[c] \in Nat /\ slept[c] \in Nat
  BY DEF IInv, TypeOK
<1>5. spent'[c] = spent[c] + ticks /\ error'[c] = e /\ reply'[c] = NoReply
  BY DEF FailAttempt, IInv, TypeOK
<1>6. spent'[c] <= (retries[c] + 1) * T
  <2>1. spent[c] <= retries[c] * T
    BY <1>4 DEF LoopInv, Failed, Ended
  <2>2. (retries[c] + 1) * T = retries[c] * T + T /\ retries[c] * T \in Nat
    BY <1>1, <1>4
  <2>3. QED
    BY <1>1, <1>4, <1>5, <2>1, <2>2
<1>7. slept[c] <= retries[c] * P.max_backoff
  BY <1>1, <1>4 DEF LoopInv
<1>8. CASE IsRead(c) /\ ShouldRetry(P, retries[c], e)
  <2>1. pc'[c] = "backoff" /\ retries'[c] = retries[c] + 1 /\ retries[c] < P.max_retries
    BY <1>8 DEF FailAttempt, ShouldRetry, IInv, TypeOK
  <2>2. LoopInv(c)'
    <3>1. spent'[c] <= (retries'[c] + 0) * T
      BY <1>4, <1>6, <2>1
    <3>2. slept'[c] <= (retries'[c] - 1) * P.max_backoff
      BY <1>4, <1>7, <2>1
    <3>3. QED
      BY <1>1, <1>4, <1>8, <2>1, <3>1, <3>2 DEF LoopInv, Failed, Ended
  <2>3. CallInv(c)'
    BY <1>1, <1>4, <1>5, <1>8, <2>1, <2>2, NoReplyClaimsNothing DEF CallInv, GatewayInv, EndInv
  <2>4. QED
    BY <1>2, <1>3, <2>3, OneCallMoves
<1>9. CASE ~(IsRead(c) /\ ShouldRetry(P, retries[c], e))
  <2>1. pc'[c] = "err" /\ retries'[c] = retries[c]
    BY <1>9 DEF FailAttempt, IInv, TypeOK
  <2>2. LoopInv(c)'
    <3>1. IsRead(c) /\ IsRetryable(e) => retries[c] = P.max_retries
      BY <1>1, <1>4, <1>9 DEF ShouldRetry, LoopInv
    <3>2. spent'[c] <= (retries'[c] + 1) * T /\ slept'[c] <= (retries'[c] - 0) * P.max_backoff
      BY <1>1, <1>4, <1>6, <1>7, <2>1
    <3>3. attempts[c] <= retries[c] + 1
      BY <1>4 DEF LoopInv, Ended
    <3>4. QED
      BY <1>1, <1>4, <1>5, <2>1, <3>1, <3>2, <3>3 DEF LoopInv, Failed, Ended
  <2>3. CallInv(c)'
    BY <1>1, <1>4, <1>5, <2>1, <2>2, NoReplyClaimsNothing DEF CallInv, GatewayInv, EndInv
  <2>4. QED
    BY <1>2, <1>3, <2>3, OneCallMoves
<1>10. QED
  BY <1>8, <1>9

LEMMA StartIInv ==
    ASSUME IInv, NEW c \in Calls, Prepare(c) \/ Reject(c)
    PROVE  IInv'
<1>1. TypeOK'
  BY ErrorsAreTyped DEF Prepare, Reject, IInv, TypeOK
<1>2. \A d \in Calls \ {c} : Same(d)
  BY DEF Prepare, Reject, IInv, TypeOK, Same
<1>3. /\ TimeoutOf(c) \in Nat /\ PolicyOf(c).max_backoff \in Nat
      /\ TimeoutOf(c)' = TimeoutOf(c) /\ PolicyOf(c)' = PolicyOf(c) /\ IsRead(c)' = IsRead(c)
  BY OptionsAreTyped DEF IInv, Prepare, Reject, TimeoutOf, PolicyOf, IsRead
<1>4. /\ pc[c] = "idle" /\ LoopInv(c) /\ GatewayInv(c)
      /\ retries[c] \in Nat /\ attempts[c] = 0 /\ spent[c] \in Nat /\ executed[c] = 0 /\ net[c] = {}
  BY DEF IInv, TypeOK, Prepare, Reject, LoopInv, GatewayInv
<1>5. \/ pc'[c] = "ready" /\ error'[c] = error[c]
      \/ pc'[c] = "err" /\ error'[c] = PlainError("Param")
  BY DEF IInv, TypeOK, Prepare, Reject
<1>6. /\ retries'[c] = retries[c] /\ attempts'[c] = attempts[c] /\ spent'[c] = spent[c]
      /\ slept'[c] = slept[c] /\ net'[c] = net[c] /\ reply'[c] = reply[c]
      /\ executed'[c] = executed[c] /\ endpoint'[c] = endpoint[c]
  BY DEF Prepare, Reject
<1>7. LoopInv(c)'
  <2>1. spent[c] <= retries[c] * TimeoutOf(c) /\ spent[c] <= (retries[c] + 1) * TimeoutOf(c)
    <3>1. spent[c] <= (retries[c] + 0) * TimeoutOf(c)
      BY <1>4 DEF LoopInv, Failed, Ended
    <3>2. (retries[c] + 1) * TimeoutOf(c) = retries[c] * TimeoutOf(c) + TimeoutOf(c)
      BY <1>3, <1>4
    <3>3. QED
      BY <1>3, <1>4, <3>1, <3>2
  <2>2. slept[c] <= (retries[c] - 0) * PolicyOf(c).max_backoff
    BY <1>4 DEF LoopInv
  <2>3. ~IsRetryable(PlainError("Param"))
    BY DEF IsRetryable, PlainError
  <2>4. QED
    BY <1>3, <1>4, <1>5, <1>6, <2>1, <2>2, <2>3 DEF LoopInv, Failed, Ended
<1>8. CallInv(c)'
  BY <1>3, <1>4, <1>5, <1>6, <1>7 DEF CallInv, GatewayInv, EndInv
<1>9. QED
  BY <1>1, <1>2, <1>8, OneCallMoves

LEMMA SendIInv ==
    ASSUME IInv, NEW c \in Calls, Send(c)
    PROVE  IInv'
<1>1. TypeOK'
  BY DEF Send, IInv, TypeOK
<1>2. \A d \in Calls \ {c} : Same(d)
  BY DEF Send, IInv, TypeOK, Same
<1>3. /\ TimeoutOf(c)' = TimeoutOf(c) /\ PolicyOf(c)' = PolicyOf(c) /\ IsRead(c)' = IsRead(c)
  BY DEF Send, TimeoutOf, PolicyOf, IsRead
<1>4. /\ LoopInv(c) /\ GatewayInv(c) /\ pc[c] = "ready"
      /\ retries[c] \in Nat /\ attempts[c] \in Nat /\ executed[c] \in Nat
  BY DEF IInv, TypeOK, Send
<1>5. /\ pc'[c] = "waiting" /\ attempts'[c] = attempts[c] + 1
      /\ net'[c] = net[c] \cup {attempts[c] + 1}
  BY DEF Send, IInv, TypeOK
<1>6. /\ retries'[c] = retries[c] /\ error'[c] = error[c] /\ spent'[c] = spent[c]
      /\ slept'[c] = slept[c] /\ reply'[c] = reply[c]
      /\ executed'[c] = executed[c] /\ endpoint'[c] = endpoint[c]
  BY DEF Send
<1>7. LoopInv(c)'
  BY <1>3, <1>4, <1>5, <1>6 DEF LoopInv, Failed, Ended
<1>8. GatewayInv(c)'
  <2>1. net'[c] \subseteq 1 .. attempts'[c]
    BY <1>4, <1>5 DEF GatewayInv
  <2>2. ~IsRead(c) => attempts[c] = 0 /\ executed[c] = 0
    BY <1>4 DEF LoopInv, GatewayInv, Ended
  <2>3. reply[c] = NoReply
    BY <1>4 DEF GatewayInv
  <2>4. QED
    BY <1>3, <1>4, <1>5, <1>6, <2>1, <2>2, <2>3, NoReplyClaimsNothing DEF GatewayInv
<1>9. CallInv(c)'
  BY <1>5, <1>7, <1>8 DEF CallInv, EndInv
<1>10. QED
  BY <1>1, <1>2, <1>9, OneCallMoves

LEMMA WakeIInv ==
    ASSUME IInv, NEW c \in Calls, Wake(c)
    PROVE  IInv'
<1> DEFINE P == PolicyOf(c)
           delay == Backoff(P, retries[c])
<1>1. /\ P \in RetryPolicies /\ P.max_backoff \in Nat /\ retries[c] \in Nat
      /\ TimeoutOf(c)' = TimeoutOf(c) /\ PolicyOf(c)' = P /\ IsRead(c)' = IsRead(c)
  BY OptionsAreTyped DEF IInv, TypeOK, Wake, TimeoutOf, PolicyOf, IsRead
<1>2. delay \in Nat /\ delay <= P.max_backoff
  BY <1>1, BackoffBounded
<1>3. /\ LoopInv(c) /\ GatewayInv(c) /\ pc[c] = "backoff" /\ slept[c] \in Nat
      /\ pc'[c] = "ready" /\ slept'[c] = slept[c] + delay
  BY DEF IInv, TypeOK, Wake
<1>4. /\ retries'[c] = retries[c] /\ error'[c] = error[c] /\ spent'[c] = spent[c]
      /\ attempts'[c] = attempts[c] /\ net'[c] = net[c] /\ reply'[c] = reply[c]
      /\ executed'[c] = executed[c] /\ endpoint'[c] = endpoint[c]
  BY DEF Wake
<1>5. TypeOK'
  <2>1. slept' \in [Calls -> Nat]
    BY <1>2 DEF Wake, IInv, TypeOK
  <2>2. QED
    BY <2>1 DEF Wake, IInv, TypeOK
<1>6. \A d \in Calls \ {c} : Same(d)
  BY DEF Wake, IInv, TypeOK, Same
<1>7. slept'[c] <= (retries[c] - 0) * P.max_backoff
  <2>1. slept[c] <= (retries[c] - 1) * P.max_backoff
    BY <1>3 DEF LoopInv
  <2>2. (retries[c] - 1) * P.max_backoff + P.max_backoff = (retries[c] - 0) * P.max_backoff
    BY <1>1
  <2>3. (retries[c] - 1) * P.max_backoff \in Int /\ (retries[c] - 0) * P.max_backoff \in Int
    BY <1>1
  <2>4. QED
    BY <1>1, <1>2, <1>3, <2>1, <2>2, <2>3
<1>8. LoopInv(c)'
  BY <1>1, <1>3, <1>4, <1>7 DEF LoopInv, Failed, Ended
<1>9. CallInv(c)'
  BY <1>1, <1>3, <1>4, <1>8 DEF CallInv, GatewayInv, EndInv
<1>10. QED
  BY <1>5, <1>6, <1>9, OneCallMoves

\* Dropping the future, and returning success, end the call: the time it spent
\* fits the bound of one more attempt.
LEMMA EndIInv ==
    ASSUME IInv, NEW c \in Calls, NEW end \in {"ok", "dropped"}, NEW ticks \in 0 .. TimeoutOf(c),
           pc[c] \in {"ready", "waiting", "backoff"},
           end = "ok" => pc[c] = "waiting" /\ executed[c] > 0,
           ticks > 0 => pc[c] = "waiting",
           pc' = [pc EXCEPT ![c] = end],
           reply' = [reply EXCEPT ![c] = NoReply],
           spent' = [spent EXCEPT ![c] = @ + ticks],
           UNCHANGED <<endpoint, options, retries, attempts, error, slept, net, executed>>
    PROVE  IInv'
<1> DEFINE T == TimeoutOf(c)
           P == PolicyOf(c)
<1>1. /\ T \in Nat /\ P.max_backoff \in Nat
      /\ TimeoutOf(c)' = T /\ PolicyOf(c)' = P /\ IsRead(c)' = IsRead(c)
  BY OptionsAreTyped DEF IInv, TimeoutOf, PolicyOf, IsRead
<1>2. /\ LoopInv(c) /\ GatewayInv(c) /\ ticks \in Nat
      /\ retries[c] \in Nat /\ attempts[c] \in Nat /\ spent[c] \in Nat /\ slept[c] \in Nat
  BY <1>1 DEF IInv, TypeOK
<1>3. TypeOK'
  <2>1. spent' \in [Calls -> Nat]
    BY <1>2 DEF IInv, TypeOK
  <2>2. QED
    BY <2>1 DEF IInv, TypeOK
<1>4. \A d \in Calls \ {c} : Same(d)
  BY DEF IInv, TypeOK, Same
<1>5. pc'[c] = end /\ reply'[c] = NoReply /\ spent'[c] = spent[c] + ticks
  BY DEF IInv, TypeOK
<1>6. spent'[c] <= (retries[c] + 1) * T
  <2>1. spent[c] <= retries[c] * T
    BY <1>2 DEF LoopInv, Failed, Ended
  <2>2. (retries[c] + 1) * T = retries[c] * T + T /\ retries[c] * T \in Nat
    BY <1>1, <1>2
  <2>3. QED
    BY <1>1, <1>2, <1>5, <2>1, <2>2
<1>7. slept[c] <= (retries[c] - 0) * P.max_backoff
  <2>1. CASE pc[c] = "backoff"
    <3>1. slept[c] <= (retries[c] - 1) * P.max_backoff
      BY <1>2, <2>1 DEF LoopInv
    <3>2. (retries[c] - 1) * P.max_backoff <= (retries[c] - 0) * P.max_backoff
      BY <1>1, <1>2
    <3>3. (retries[c] - 1) * P.max_backoff \in Int /\ (retries[c] - 0) * P.max_backoff \in Int
      BY <1>1, <1>2
    <3>4. QED
      BY <1>2, <3>1, <3>2, <3>3
  <2>2. CASE pc[c] # "backoff"
    BY <1>2, <2>2 DEF LoopInv
  <2>3. QED
    BY <2>1, <2>2
<1>8. LoopInv(c)'
  BY <1>1, <1>2, <1>5, <1>6, <1>7 DEF LoopInv, Failed, Ended
<1>9. CallInv(c)'
  BY <1>1, <1>2, <1>5, <1>8, NoReplyClaimsNothing DEF CallInv, GatewayInv, EndInv
<1>10. QED
  BY <1>3, <1>4, <1>9, OneCallMoves

LEMMA DropIInv ==
    ASSUME IInv, NEW c \in Calls, Drop(c)
    PROVE  IInv'
<1>1. 0 \in 0 .. TimeoutOf(c)
  BY OptionsAreTyped DEF IInv
<1>2. spent' = [spent EXCEPT ![c] = @ + 0]
  BY DEF IInv, TypeOK, Drop
<1>3. /\ pc[c] \in {"ready", "waiting", "backoff"}
      /\ "dropped" = "ok" => pc[c] = "waiting" /\ executed[c] > 0
      /\ 0 > 0 => pc[c] = "waiting"
      /\ pc' = [pc EXCEPT ![c] = "dropped"] /\ reply' = [reply EXCEPT ![c] = NoReply]
      /\ UNCHANGED <<endpoint, options, retries, attempts, error, slept, net, executed>>
  BY DEF Drop
<1>4. QED
  BY <1>1, <1>2, <1>3, EndIInv

LEMMA ConnectFailsIInv ==
    ASSUME IInv, NEW c \in Calls, ConnectFails(c)
    PROVE  IInv'
<1>1. PICK ticks \in 0 .. TimeoutOf(c), kind \in {"Connect", "Timeout", "Request"} :
        /\ spent' = [spent EXCEPT ![c] = @ + ticks]
        /\ FailAttempt(c, TransportError(kind))
  BY DEF ConnectFails, SpendTicks
<1>2. TransportError(kind) \in Error
  BY ErrorsAreTyped DEF TransportErrorKinds
<1>3. ~IsRead(c) => executed[c] = 0 /\ net[c] = {}
  <2>1. LoopInv(c) /\ GatewayInv(c) /\ attempts[c] \in Nat
    BY DEF IInv, TypeOK
  <2>2. ~IsRead(c) => attempts[c] = 0
    BY <2>1 DEF LoopInv, ConnectFails, Ended
  <2>3. QED
    BY <2>1, <2>2 DEF GatewayInv
<1>4. QED
  BY <1>1, <1>2, <1>3, FailAttemptIInv DEF ConnectFails

LEMMA TimesOutIInv ==
    ASSUME IInv, NEW c \in Calls, TimesOut(c)
    PROVE  IInv'
<1>1. TransportError("Timeout") \in Error /\ ~Definite(TransportError("Timeout"))
  BY ErrorsAreTyped DEF TransportErrorKinds
<1>2. TimeoutOf(c) \in 0 .. TimeoutOf(c)
  BY OptionsAreTyped DEF IInv
<1>3. QED
  BY <1>1, <1>2, FailAttemptIInv DEF TimesOut, SpendTicks

LEMMA ConnectionBreaksIInv ==
    ASSUME IInv, NEW c \in Calls, ConnectionBreaks(c)
    PROVE  IInv'
<1>1. PICK ticks \in 0 .. TimeoutOf(c), kind \in {"Request", "Redirect", "Other"} :
        /\ spent' = [spent EXCEPT ![c] = @ + ticks]
        /\ FailAttempt(c, TransportError(kind))
  BY DEF ConnectionBreaks, SpendTicks
<1>2. TransportError(kind) \in Error /\ ~Definite(TransportError(kind))
  BY ErrorsAreTyped DEF TransportErrorKinds
<1>3. QED
  BY <1>1, <1>2, FailAttemptIInv DEF ConnectionBreaks

LEMMA ReceiveIInv ==
    ASSUME IInv, NEW c \in Calls, Receive(c)
    PROVE  IInv'
<1> DEFINE verdict == Verdict(endpoint[c], reply[c])
<1>1. PICK ticks \in 0 .. TimeoutOf(c) : spent' = [spent EXCEPT ![c] = @ + ticks]
  BY DEF Receive, SpendTicks
<1>2. endpoint[c] \in Endpoints /\ reply[c] \in Replies /\ GatewayInv(c)
  BY ExercisedAssumption DEF IInv, TypeOK, Receive
<1>3. CASE verdict # NoError /\ FailAttempt(c, verdict)
  <2>1. verdict \in Error
    BY <1>2, <1>3, VerdictFacts
  <2>2. ~IsRead(c) /\ Definite(verdict) => executed[c] = 0 /\ net[c] = {}
    BY <1>2, <2>1, VerdictFacts DEF GatewayInv
  <2>3. QED
    BY <1>1, <1>3, <2>1, <2>2, FailAttemptIInv DEF Receive
<1>4. CASE /\ verdict = NoError
           /\ pc' = [pc EXCEPT ![c] = "ok"]
           /\ reply' = [reply EXCEPT ![c] = NoReply]
           /\ UNCHANGED <<retries, error>>
  <2>1. executed[c] > 0
    BY <1>2, <1>4, VerdictFacts DEF GatewayInv
  <2>2. QED
    BY <1>1, <1>4, <2>1, EndIInv DEF Receive
<1>5. QED
  BY <1>3, <1>4 DEF Receive

\* A step of the gateway leaves the client's part of the call alone.
LEMMA GatewayStepIInv ==
    ASSUME IInv, NEW c \in Calls, UNCHANGED callVars, TypeOK',
           \A d \in Calls \ {c} : Same(d), GatewayInv(c)', EndInv(c)'
    PROVE  IInv'
<1>1. LoopInv(c)'
  BY DEF IInv, callVars, LoopInv, Failed, Ended, IsRead, TimeoutOf, PolicyOf
<1>2. QED
  BY <1>1, OneCallMoves DEF CallInv

\* An answer either reaches the call that waits for it or changes nothing.
LEMMA AnswerCases ==
    ASSUME IInv, NEW c \in Calls, NEW n, NEW possible \in SUBSET Replies, Answer(c, n, possible)
    PROVE  /\ reply' \in [Calls -> Replies \cup {NoReply}]
           /\ \A d \in Calls \ {c} : reply'[d] = reply[d]
           /\ \/ reply'[c] = reply[c]
              \/ reply'[c] \in possible /\ pc[c] = "waiting"
BY DEF IInv, TypeOK, Answer, Listening

LEMMA ExecuteIInv ==
    ASSUME IInv, NEW c \in Calls, NEW n \in net[c], Execute(c, n)
    PROVE  IInv'
<1> DEFINE possible == {r \in Replies : ~ClaimsFailure(endpoint[c], r)}
<1>1. /\ reply' \in [Calls -> Replies \cup {NoReply}]
      /\ \A d \in Calls \ {c} : reply'[d] = reply[d]
      /\ \/ reply'[c] = reply[c]
         \/ reply'[c] \in possible /\ pc[c] = "waiting"
  BY AnswerCases DEF Execute
<1>2. /\ net' = [net EXCEPT ![c] = @ \ {n}]
      /\ executed' = [executed EXCEPT ![c] = @ + 1]
      /\ UNCHANGED callVars
  BY DEF Execute
<1>3. TypeOK'
  BY <1>1, <1>2 DEF callVars, IInv, TypeOK
<1>4. \A d \in Calls \ {c} : Same(d)
  BY <1>1, <1>2 DEF callVars, IInv, TypeOK, Same
<1>5. /\ LoopInv(c) /\ GatewayInv(c) /\ EndInv(c)
      /\ net[c] \subseteq Nat /\ executed[c] \in Nat /\ retries[c] \in Nat /\ attempts[c] \in Nat
      /\ executed'[c] = executed[c] + 1 /\ net'[c] = net[c] \ {n}
      /\ pc'[c] = pc[c] /\ endpoint'[c] = endpoint[c] /\ attempts'[c] = attempts[c]
      /\ error'[c] = error[c] /\ IsRead(c)' = IsRead(c)
  BY <1>2 DEF callVars, IInv, TypeOK, IsRead
<1>6. ~IsRead(c) => executed[c] = 0 /\ net'[c] = {}
  <2>1. ~IsRead(c) => attempts[c] <= 1 /\ executed[c] # 1 /\ executed[c] <= 1
    BY <1>5 DEF LoopInv, GatewayInv
  <2>2. ~IsRead(c) => net[c] \subseteq {1}
    BY <1>5, <2>1 DEF GatewayInv
  <2>3. QED
    BY <1>5, <2>1, <2>2
<1>7. attempts[c] # 0 /\ net'[c] \subseteq 1 .. attempts'[c]
  BY <1>5 DEF GatewayInv
<1>8. ~(ClaimsFailure(endpoint[c], reply'[c]) /\ ~IsRead(c))
  BY <1>1, <1>5 DEF GatewayInv
<1>9. reply'[c] # NoReply => pc'[c] = "waiting"
  BY <1>1, <1>5 DEF GatewayInv
<1>10. GatewayInv(c)'
  BY <1>5, <1>6, <1>7, <1>8, <1>9 DEF GatewayInv
<1>11. EndInv(c)'
  BY <1>5 DEF EndInv
<1>12. QED
  BY <1>2, <1>3, <1>4, <1>10, <1>11, GatewayStepIInv

LEMMA RefuseIInv ==
    ASSUME IInv, NEW c \in Calls, NEW n \in net[c], Refuse(c, n)
    PROVE  IInv'
<1> DEFINE possible == {r \in Replies : ~ClaimsSuccess(endpoint[c], r)}
<1>1. /\ reply' \in [Calls -> Replies \cup {NoReply}]
      /\ \A d \in Calls \ {c} : reply'[d] = reply[d]
      /\ \/ reply'[c] = reply[c]
         \/ reply'[c] \in possible /\ pc[c] = "waiting"
  BY AnswerCases DEF Refuse
<1>2. net' = [net EXCEPT ![c] = @ \ {n}] /\ UNCHANGED <<callVars, executed>>
  BY DEF Refuse
<1>3. TypeOK'
  BY <1>1, <1>2 DEF callVars, IInv, TypeOK
<1>4. \A d \in Calls \ {c} : Same(d)
  BY <1>1, <1>2 DEF callVars, IInv, TypeOK, Same
<1>5. /\ LoopInv(c) /\ GatewayInv(c) /\ EndInv(c)
      /\ net[c] \subseteq Nat /\ executed[c] \in Nat /\ retries[c] \in Nat /\ attempts[c] \in Nat
      /\ executed'[c] = executed[c] /\ net'[c] = net[c] \ {n}
      /\ pc'[c] = pc[c] /\ endpoint'[c] = endpoint[c] /\ attempts'[c] = attempts[c]
      /\ error'[c] = error[c] /\ IsRead(c)' = IsRead(c)
  BY <1>2 DEF callVars, IInv, TypeOK, IsRead
<1>6. ~IsRead(c) => executed[c] = 0 /\ net'[c] = {}
  <2>1. ~IsRead(c) => attempts[c] <= 1 /\ executed[c] # 1 /\ executed[c] <= 1
    BY <1>5 DEF LoopInv, GatewayInv
  <2>2. ~IsRead(c) => net[c] \subseteq {1}
    BY <1>5, <2>1 DEF GatewayInv
  <2>3. QED
    BY <1>5, <2>1, <2>2
<1>7. GatewayInv(c)'
  BY <1>1, <1>5, <1>6 DEF GatewayInv
<1>8. EndInv(c)'
  BY <1>5, <1>6 DEF EndInv
<1>9. QED
  BY <1>2, <1>3, <1>4, <1>7, <1>8, GatewayStepIInv

LEMMA FrontEndAnswersIInv ==
    ASSUME IInv, NEW c \in Calls, NEW n \in net[c], FrontEndAnswers(c, n)
    PROVE  IInv'
<1>1. PICK r \in Replies : ~HasEnvelope(r) /\ reply' = [reply EXCEPT ![c] = r]
  BY DEF FrontEndAnswers
<1>2. UNCHANGED <<callVars, net, executed>> /\ pc[c] = "waiting"
  BY DEF FrontEndAnswers, Listening
<1>3. TypeOK'
  BY <1>1, <1>2 DEF callVars, IInv, TypeOK
<1>4. \A d \in Calls \ {c} : Same(d)
  BY <1>1, <1>2 DEF callVars, IInv, TypeOK, Same
<1>5. reply'[c] = r /\ \A e : ~ClaimsSuccess(e, r) /\ ~ClaimsFailure(e, r)
  BY <1>1 DEF IInv, TypeOK, ClaimsSuccess, ClaimsFailure
<1>6. GatewayInv(c)' /\ EndInv(c)'
  BY <1>2, <1>5 DEF callVars, IInv, GatewayInv, EndInv, IsRead
<1>7. QED
  BY <1>2, <1>3, <1>4, <1>6, GatewayStepIInv

LEMMA NextIInv == IInv /\ [Next]_vars => IInv'
<1> SUFFICES ASSUME IInv, [Next]_vars PROVE IInv'
  OBVIOUS
<1>1. ASSUME NEW c \in Calls, ClientStep(c) PROVE IInv'
  BY <1>1, StartIInv, SendIInv, ConnectFailsIInv, TimesOutIInv, ConnectionBreaksIInv,
     ReceiveIInv, WakeIInv DEF ClientStep, OwnStep
<1>2. ASSUME NEW c \in Calls, Drop(c) PROVE IInv'
  BY <1>2, DropIInv
<1>3. ASSUME NEW c \in Calls, GatewayStep(c) PROVE IInv'
  BY <1>3, ExecuteIInv, RefuseIInv, FrontEndAnswersIInv DEF GatewayStep
<1>4. CASE UNCHANGED vars
  BY <1>4 DEF vars, IInv, TypeOK, LoopInv, GatewayInv, EndInv, Failed, Ended, IsRead,
     TimeoutOf, PolicyOf
<1>5. QED
  BY <1>1, <1>2, <1>3, <1>4 DEF Next

-----------------------------------------------------------------------------
(* Theorems *)

\* The invariant of the retry loop, the gateway and the ends of the calls holds
\* in every state, whatever the calls, options, answers and interleavings
\* (get_json, post_json and finish, client.rs 403-495).
THEOREM InvariantHolds == Spec => []IInv
BY InitIInv, NextIInv, PTL DEF Spec

\* Type correctness of the state (client.rs 24-53, 403-475).
THEOREM TypeCorrect == Spec => []TypeOK
BY InvariantHolds, PTL DEF IInv

\* Payments and refunds are never resent and never executed twice
\* (post_json, client.rs 447-475).
THEOREM WritesAtMostOnce == Spec => []WritesExecutedAtMostOnce
<1>1. IInv => WritesExecutedAtMostOnce
  BY DEF IInv, TypeOK, LoopInv, GatewayInv, WritesExecutedAtMostOnce
<1>2. QED
  BY <1>1, InvariantHolds, PTL

\* After a definite error of a payment or refund nothing was done and nothing
\* is left to be done (error.rs 74-130, client.rs 447-495).
THEOREM DefiniteErrors == Spec => []DefiniteErrorMeansNoEffect
<1>1. IInv => DefiniteErrorMeansNoEffect
  BY DEF IInv, EndInv, DefiniteErrorMeansNoEffect
<1>2. QED
  BY <1>1, InvariantHolds, PTL

\* Success is only reported for an operation the gateway executed
\* (finish and parse_json, client.rs 477-520).
THEOREM Successes == Spec => []SuccessMeansExecuted
<1>1. IInv => SuccessMeansExecuted
  BY DEF IInv, EndInv, SuccessMeansExecuted
<1>2. QED
  BY <1>1, InvariantHolds, PTL

\* The retry budget is the call's own, and it is used up before a read gives
\* up on a retryable error (client.rs 417-443, config.rs 266-268).
THEOREM RetryBudget == Spec => []RetriesUsedUp
<1>1. IInv => RetriesUsedUp
  BY DEF IInv, LoopInv, RetriesUsedUp
<1>2. QED
  BY <1>1, InvariantHolds, PTL

\* The documented worst case of a call's duration (config.rs 277-281).
THEOREM LatencyBounded == Spec => []WorstCaseLatency
<1>1. ASSUME IInv, NEW c \in Calls
      PROVE  /\ spent[c] <= (retries[c] + 1) * TimeoutOf(c)
             /\ slept[c] <= retries[c] * PolicyOf(c).max_backoff
  <2>1. /\ TimeoutOf(c) \in Nat /\ PolicyOf(c).max_backoff \in Nat
        /\ LoopInv(c) /\ retries[c] \in Nat /\ spent[c] \in Nat /\ slept[c] \in Nat
    BY <1>1, OptionsAreTyped DEF IInv, TypeOK
  <2> DEFINE T == TimeoutOf(c)
             M == PolicyOf(c).max_backoff
  <2>2. /\ (retries[c] + 1) * T = retries[c] * T + T
        /\ (retries[c] + 0) * T = retries[c] * T
        /\ (retries[c] - 1) * M = retries[c] * M - M
        /\ (retries[c] - 0) * M = retries[c] * M
        /\ retries[c] * T \in Nat /\ retries[c] * M \in Nat
    BY <2>1
  <2>3. spent[c] <= retries[c] * T \/ spent[c] <= retries[c] * T + T
    BY <2>1, <2>2 DEF LoopInv, Failed
  <2>4. slept[c] <= retries[c] * M - M \/ slept[c] <= retries[c] * M
    BY <2>1, <2>2 DEF LoopInv
  <2>5. QED
    BY <2>1, <2>2, <2>3, <2>4
<1>2. IInv => WorstCaseLatency
  BY <1>1 DEF WorstCaseLatency
<1>3. QED
  BY <1>2, InvariantHolds, PTL

\* A call that has returned or was dropped rests (client.rs 418-443).
THEOREM EndedCallsStay == Spec => EndedCallsRest
<1>1. ASSUME TypeOK, [Next]_vars, NEW c \in Calls, Ended(c)
      PROVE  /\ pc'[c] = pc[c] /\ error'[c] = error[c]
             /\ attempts'[c] = attempts[c] /\ slept'[c] = slept[c]
  <2>1. ASSUME NEW d \in Calls, ClientStep(d) PROVE d # c
    BY <1>1, <2>1 DEF ClientStep, OwnStep, Ended, Prepare, Reject, Send, ConnectFails, TimesOut,
       ConnectionBreaks, Receive, Wake
  <2>2. ASSUME NEW d \in Calls, ClientStep(d)
        PROVE  /\ pc'[c] = pc[c] /\ error'[c] = error[c]
               /\ attempts'[c] = attempts[c] /\ slept'[c] = slept[c]
    BY <1>1, <2>1, <2>2 DEF ClientStep, OwnStep, TypeOK, Prepare, Reject, Send, ConnectFails, TimesOut,
       ConnectionBreaks, Receive, Wake, FailAttempt
  <2>3. ASSUME NEW d \in Calls, Drop(d)
        PROVE  /\ pc'[c] = pc[c] /\ error'[c] = error[c]
               /\ attempts'[c] = attempts[c] /\ slept'[c] = slept[c]
    BY <1>1, <2>3 DEF Drop, Ended, TypeOK
  <2>4. ASSUME NEW d \in Calls, GatewayStep(d)
        PROVE  /\ pc'[c] = pc[c] /\ error'[c] = error[c]
               /\ attempts'[c] = attempts[c] /\ slept'[c] = slept[c]
    BY <2>4 DEF GatewayStep, Execute, Refuse, FrontEndAnswers, callVars
  <2>5. QED
    BY <1>1, <2>2, <2>3, <2>4 DEF Next, vars
<1>2. TypeOK /\ [Next]_vars =>
        [\A c \in Calls : Ended(c) =>
            /\ pc'[c] = pc[c] /\ error'[c] = error[c]
            /\ attempts'[c] = attempts[c] /\ slept'[c] = slept[c]]_vars
  BY <1>1
<1>3. QED
  BY <1>2, TypeCorrect, PTL DEF Spec, EndedCallsRest

-----------------------------------------------------------------------------
(* GatewayCall implements CallPromise *)

\* What the caller sees of call c moves from one stage to another.
Moves(c, from, to) ==
    /\ StageOf(c) = from
    /\ StageOf(c)' = to
    /\ \A d \in Calls \ {c} : StageOf(d)' = StageOf(d)

\* The caller's view is that of a step of CallPromise.
LEMMA MovesIsMove ==
    ASSUME NEW c \in Calls, NEW from, NEW to, Moves(c, from, to)
    PROVE  Promise!Move(c, from, to)
<1>1. Stages[c] = from
  BY DEF Moves, Stages
<1>2. Stages' = [d \in Calls |-> StageOf(d)']
  BY DEF Stages, StageOf
<1>3. [Stages EXCEPT ![c] = to] = [d \in Calls |-> IF d = c THEN to ELSE StageOf(d)]
  BY DEF Stages
<1>4. Stages' = [Stages EXCEPT ![c] = to]
  <2>1. \A d \in Calls : StageOf(d)' = IF d = c THEN to ELSE StageOf(d)
    BY DEF Moves
  <2>2. QED
    BY <1>2, <1>3, <2>1
<1>5. QED
  BY <1>1, <1>4 DEF Promise!Move

\* The steps of one call as steps of CallPromise, action by action.
LEMMA StartPromise ==
    ASSUME IInv, NEW c \in Calls, Prepare(c) \/ Reject(c)
    PROVE  Promise!Open(c) \/ Promise!Invalid(c)
<1>1. UNCHANGED <<endpoint, executed>>
  BY DEF Prepare, Reject
<1>2. UNCHANGED <<Reads, executed>>
  BY <1>1 DEF Reads, IsRead
<1>3. CASE Prepare(c)
  <2>1. Moves(c, "new", "open")
    BY <1>3 DEF Prepare, IInv, TypeOK, Moves, StageOf
  <2>2. QED
    BY <1>2, <2>1, MovesIsMove DEF Promise!Open
<1>4. CASE Reject(c)
  <2>1. Moves(c, "new", "refused")
    BY <1>4 DEF Reject, IInv, TypeOK, Moves, StageOf, Definite, PlainError
  <2>2. QED
    BY <1>2, <2>1, MovesIsMove DEF Promise!Invalid
<1>5. QED
  BY <1>3, <1>4

LEMMA DropPromise ==
    ASSUME IInv, NEW c \in Calls, Drop(c)
    PROVE  Promise!Abandon(c)
<1>1. Moves(c, "open", "abandoned")
  BY DEF Drop, IInv, TypeOK, Moves, StageOf
<1>2. UNCHANGED <<Reads, executed>>
  BY DEF Drop, Reads, IsRead
<1>3. QED
  BY <1>1, <1>2, MovesIsMove DEF Promise!Abandon

\* A failed attempt that is retried is invisible to the caller.
LEMMA FailAttemptPromise ==
    ASSUME IInv, NEW c \in Calls, NEW e \in Error,
           pc[c] \in {"ready", "waiting"},
           FailAttempt(c, e),
           UNCHANGED <<endpoint, executed>>,
           ~IsRead(c) /\ Definite(e) => executed[c] = 0
    PROVE  \/ Promise!Refuse(c) \/ Promise!Fail(c)
           \/ UNCHANGED Promise!promiseVars
<1>1. UNCHANGED <<Reads, executed>> /\ Reads[c] = IsRead(c)
  BY DEF Reads, IsRead
<1>2. CASE pc' = [pc EXCEPT ![c] = "backoff"]
  <2>1. UNCHANGED Stages
    BY <1>2 DEF FailAttempt, IInv, TypeOK, Stages, StageOf
  <2>2. QED
    BY <1>1, <2>1 DEF Promise!promiseVars
<1>3. CASE pc' = [pc EXCEPT ![c] = "err"]
  <2>1. Moves(c, "open", IF Definite(e) THEN "refused" ELSE "unknown")
    BY <1>3 DEF FailAttempt, IInv, TypeOK, Moves, StageOf
  <2>2. CASE Definite(e)
    <3>1. Moves(c, "open", "refused")
      BY <2>1, <2>2
    <3>2. ~Reads[c] => executed[c] = 0
      BY <1>1, <2>2
    <3>3. QED
      BY <1>1, <3>1, <3>2, MovesIsMove DEF Promise!Refuse
  <2>3. CASE ~Definite(e)
    <3>1. Moves(c, "open", "unknown")
      BY <2>1, <2>3
    <3>2. QED
      BY <1>1, <3>1, MovesIsMove DEF Promise!Fail
  <2>4. QED
    BY <2>2, <2>3
<1>4. QED
  BY <1>2, <1>3 DEF FailAttempt

LEMMA AttemptPromise ==
    ASSUME IInv, NEW c \in Calls,
           ConnectFails(c) \/ TimesOut(c) \/ ConnectionBreaks(c)
    PROVE  \/ Promise!Refuse(c) \/ Promise!Fail(c)
           \/ UNCHANGED Promise!promiseVars
<1>1. CASE ConnectFails(c)
  <2>1. PICK kind \in {"Connect", "Timeout", "Request"} : FailAttempt(c, TransportError(kind))
    BY <1>1 DEF ConnectFails
  <2>2. TransportError(kind) \in Error
    BY ErrorsAreTyped DEF TransportErrorKinds
  <2>3. ~IsRead(c) => executed[c] = 0
    BY <1>1 DEF ConnectFails, IInv, TypeOK, LoopInv, GatewayInv, Ended
  <2>4. QED
    BY <1>1, <2>1, <2>2, <2>3, FailAttemptPromise DEF ConnectFails
<1>2. CASE TimesOut(c)
  <2>1. TransportError("Timeout") \in Error /\ ~Definite(TransportError("Timeout"))
    BY ErrorsAreTyped DEF TransportErrorKinds
  <2>2. QED
    BY <1>2, <2>1, FailAttemptPromise DEF TimesOut
<1>3. CASE ConnectionBreaks(c)
  <2>1. PICK kind \in {"Request", "Redirect", "Other"} : FailAttempt(c, TransportError(kind))
    BY <1>3 DEF ConnectionBreaks
  <2>2. TransportError(kind) \in Error /\ ~Definite(TransportError(kind))
    BY ErrorsAreTyped DEF TransportErrorKinds
  <2>3. QED
    BY <1>3, <2>1, <2>2, FailAttemptPromise DEF ConnectionBreaks
<1>4. QED
  BY <1>1, <1>2, <1>3

LEMMA ReceivePromise ==
    ASSUME IInv, NEW c \in Calls, Receive(c)
    PROVE  \/ Promise!Refuse(c) \/ Promise!Fail(c) \/ Promise!Succeed(c)
           \/ UNCHANGED Promise!promiseVars
<1> DEFINE verdict == Verdict(endpoint[c], reply[c])
<1>1. endpoint[c] \in Endpoints /\ reply[c] \in Replies /\ GatewayInv(c)
  BY ExercisedAssumption DEF IInv, TypeOK, Receive
<1>2. CASE verdict # NoError /\ FailAttempt(c, verdict)
  <2>1. verdict \in Error
    BY <1>1, <1>2, VerdictFacts
  <2>2. ~IsRead(c) /\ Definite(verdict) => executed[c] = 0
    BY <1>1, <2>1, VerdictFacts DEF GatewayInv
  <2>3. QED
    BY <1>2, <2>1, <2>2, FailAttemptPromise DEF Receive
<1>3. CASE verdict = NoError /\ pc' = [pc EXCEPT ![c] = "ok"] /\ UNCHANGED error
  <2>1. executed[c] > 0
    BY <1>1, <1>3, VerdictFacts DEF GatewayInv
  <2>2. Moves(c, "open", "ok")
    BY <1>3 DEF Receive, IInv, TypeOK, Moves, StageOf
  <2>3. UNCHANGED <<Reads, executed>>
    BY DEF Receive, Reads, IsRead
  <2>4. QED
    BY <2>1, <2>2, <2>3, MovesIsMove DEF Promise!Succeed
<1>4. QED
  BY <1>2, <1>3 DEF Receive

LEMMA InvisibleSteps ==
    ASSUME IInv, NEW c \in Calls, NEW n,
           Send(c) \/ Wake(c) \/ Refuse(c, n) \/ FrontEndAnswers(c, n)
    PROVE  UNCHANGED Promise!promiseVars
<1>1. UNCHANGED <<Reads, executed>>
  BY DEF Send, Wake, Refuse, FrontEndAnswers, callVars, Reads, IsRead
<1>2. UNCHANGED Stages
  BY DEF Send, Wake, Refuse, FrontEndAnswers, callVars, IInv, TypeOK, Stages, StageOf
<1>3. QED
  BY <1>1, <1>2 DEF Promise!promiseVars

LEMMA ExecutePromise ==
    ASSUME IInv, NEW c \in Calls, NEW n \in net[c], Execute(c, n)
    PROVE  Promise!Execute(c)
<1>1. UNCHANGED <<Reads, Stages>>
  BY DEF Execute, callVars, Reads, IsRead, Stages, StageOf
<1>2. LoopInv(c) /\ GatewayInv(c) /\ EndInv(c) /\ retries[c] \in Nat
      /\ attempts[c] \in Nat /\ executed[c] \in Nat
  BY DEF IInv, TypeOK
<1>3. StageOf(c) # "new"
  <2>1. pc[c] # "idle"
    BY <1>2 DEF LoopInv, GatewayInv
  <2>2. QED
    BY <2>1 DEF IInv, TypeOK, StageOf
<1>4. ~IsRead(c) => executed[c] = 0
  BY <1>2 DEF GatewayInv
<1>5. ~IsRead(c) => StageOf(c) # "refused"
  BY <1>2 DEF IInv, TypeOK, EndInv, StageOf
<1>6. executed' = [executed EXCEPT ![c] = @ + 1]
  BY DEF Execute
<1>7. Reads[c] = IsRead(c) /\ Stages[c] = StageOf(c)
  BY DEF Reads, Stages
<1>8. QED
  BY <1>1, <1>3, <1>4, <1>5, <1>6, <1>7 DEF Promise!Execute

LEMMA NextPromise == IInv /\ [Next]_vars => [Promise!Next]_(Promise!promiseVars)
<1> SUFFICES ASSUME IInv, [Next]_vars
             PROVE  (\E c \in Calls :
                       \/ Promise!Open(c) \/ Promise!Invalid(c)
                       \/ Promise!Succeed(c) \/ Promise!Refuse(c) \/ Promise!Fail(c)
                       \/ Promise!Abandon(c) \/ Promise!Execute(c))
                    \/ UNCHANGED Promise!promiseVars
  BY DEF Promise!Next
<1>1. ASSUME NEW c \in Calls, ClientStep(c)
      PROVE  \/ Promise!Open(c) \/ Promise!Invalid(c)
             \/ Promise!Succeed(c) \/ Promise!Refuse(c) \/ Promise!Fail(c)
             \/ UNCHANGED Promise!promiseVars
  BY <1>1, StartPromise, AttemptPromise, ReceivePromise, InvisibleSteps DEF ClientStep, OwnStep
<1>2. ASSUME NEW c \in Calls, Drop(c) PROVE Promise!Abandon(c)
  BY <1>2, DropPromise
<1>3. ASSUME NEW c \in Calls, GatewayStep(c)
      PROVE  Promise!Execute(c) \/ UNCHANGED Promise!promiseVars
  BY <1>3, ExecutePromise, InvisibleSteps DEF GatewayStep
<1>4. CASE UNCHANGED vars
  <2>1. UNCHANGED <<Reads, Stages, executed>>
    BY <1>4 DEF vars, Reads, IsRead, Stages, StageOf
  <2>2. QED
    BY <2>1 DEF Promise!promiseVars
<1>5. QED
  BY <1>1, <1>2, <1>3, <1>4 DEF Next

\* Every behaviour of the client and the gateway, projected to what a caller
\* sees, is one that CallPromise allows (client.rs 57-60, 169, 305).
THEOREM PromiseKept == Spec => KeepsPromise
<1>1. Init => Promise!Init
  BY DEF Init, Promise!Init, Reads, IsRead, Stages, StageOf
<1>2. QED
  BY <1>1, NextPromise, InvariantHolds, PTL DEF Spec, KeepsPromise, Promise!Spec

=============================================================================
