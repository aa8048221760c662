----------------------------- MODULE GatewayCall -----------------------------
(***************************************************************************)
(* One gateway call of the client, from the local validation of the        *)
(* request to the value the caller gets: the retry loop of get_json, the   *)
(* single attempt of post_json, the classification of the answer by the    *)
(* reqwest transport (read_response) and by finish / parse_json, and the   *)
(* caller dropping the future at an await point.                           *)
(*                                                                         *)
(* A client is immutable and shared by any number of concurrent calls; a   *)
(* call's own state is the local state of its future. The gateway and the  *)
(* network are external: a request that left the client stays outstanding  *)
(* until the gateway executes or refuses it, whether or not the client is  *)
(* still waiting, and a front end may answer 5xx while the request is      *)
(* still being worked on.                                                  *)
(***************************************************************************)

EXTENDS Endpoint, RetryPolicy

CONSTANTS
    Calls,        \* the calls in progress on clones of one client
    Exercised,    \* the endpoints they are made to
    Timeouts,     \* per-attempt timeouts, in ticks
    Policies,     \* retry policies
    HttpTimeout,  \* HttpConfig::timeout of the client
    HttpRetry,    \* HttpConfig::retry of the client
    Unset,        \* None in a CallOptions field
    Statuses,     \* HTTP statuses an answer may carry
    Codes         \* `code` members an envelope may carry

ASSUME ExercisedAssumption == Exercised \subseteq Endpoints
\* HttpConfig refuses a timeout of zero, CallOptions does not.
ASSUME TimeoutsAssumption == Timeouts \subseteq Nat /\ HttpTimeout \in Timeouts \ {0}
ASSUME PoliciesAssumption == Policies \subseteq RetryPolicies /\ HttpRetry \in Policies
ASSUME UnsetAssumption == Unset \notin Timeouts /\ Unset \notin Policies
ASSUME StatusesAssumption == Statuses \subseteq Nat
ASSUME CodesAssumption == Codes \subseteq Int

VARIABLES
    pc,        \* where the call's future is
    endpoint,  \* the endpoint of the call
    options,   \* its CallOptions
    retries,   \* the loop's `retries`
    attempts,  \* requests handed to the transport that reached the network
    error,     \* the error of the latest failed attempt
    spent,     \* ticks spent inside attempts
    slept,     \* ticks spent in back-off
    net,       \* attempts whose request the gateway has not dealt with yet
    reply,     \* the answer to the current attempt, once there is one
    executed   \* how often the gateway executed the call's operation

callVars == <<pc, endpoint, options, retries, attempts, error, spent, slept>>
vars == <<pc, endpoint, options, retries, attempts, error, spent, slept, net, reply, executed>>

-----------------------------------------------------------------------------
(* Answers of the gateway *)

CallOptions == [timeout : Timeouts \cup {Unset}, retry : Policies \cup {Unset}]

\* An HTTP answer: whether its body arrives whole, is beyond the configured
\* limit or breaks off, and what is in it: a JSON envelope with an i32 code,
\* whose payload fits the success schema and the request or not, or anything
\* else ("garbled"). The content of an answer without a 2xx status or a whole
\* body is never looked at.
HasEnvelope(r) == r.status \in 200..299 /\ r.body = "whole" /\ r.shape # "garbled"

Replies ==
    {r \in [status : Statuses,
            body   : {"whole", "oversized", "broken"},
            code   : Codes \cup {0},
            shape  : {"garbled", "misfit", "mismatch", "valid"}] :
        HasEnvelope(r) \/ (r.code = 0 /\ r.shape = "garbled")}

NoReply == [status |-> 0, body |-> "-", code |-> 0, shape |-> "-"]

\* What the codes mean to the gateway itself.
SuccessCodes(e) == IF e = "Refund" THEN {0, 1} ELSE {1}

ClaimsSuccess(e, r) == HasEnvelope(r) /\ r.code \in SuccessCodes(e)
ClaimsFailure(e, r) == HasEnvelope(r) /\ r.code \notin SuccessCodes(e)

\* NoError or the error an attempt ends with: read_response of the transport
\* (the module Transport), then finish, parse_json and validate_success.
Verdict(e, r) ==
    IF ReadOutcome(r.status, r.body) # NoError THEN ReadOutcome(r.status, r.body)
    ELSE IF HasEnvelope(r) /\ ~IsSuccessCode(e, r.code) THEN PlainError("Api")
    ELSE IF /\ HasEnvelope(r)
            /\ r.shape = "valid" \/ (r.shape = "mismatch" /\ ~ChecksPayload(e)) THEN NoError
    ELSE PlainError("InvalidResponse")

-----------------------------------------------------------------------------
(* What a call is *)

IsRead(c) == Method(endpoint[c]) = "Get"

Ended(c) == pc[c] \in {"ok", "err", "dropped"}

TimeoutOf(c) == IF options[c].timeout = Unset THEN HttpTimeout ELSE options[c].timeout

PolicyOf(c) == IF options[c].retry = Unset THEN HttpRetry ELSE options[c].retry

\* Errors after which the gateway is known not to have executed a call that
\* was attempted once: refused locally, never connected, refused by the gateway.
Definite(e) == e.variant \in {"Param", "Api"} \/ e = TransportError("Connect")

Init ==
    /\ pc = [c \in Calls |-> "idle"]
    /\ endpoint \in [Calls -> Exercised]
    /\ options \in [Calls -> CallOptions]
    /\ retries = [c \in Calls |-> 0]
    /\ attempts = [c \in Calls |-> 0]
    /\ error = [c \in Calls |-> NoError]
    /\ spent = [c \in Calls |-> 0]
    /\ slept = [c \in Calls |-> 0]
    /\ net = [c \in Calls |-> {}]
    /\ reply = [c \in Calls |-> NoReply]
    /\ executed = [c \in Calls |-> 0]

-----------------------------------------------------------------------------
(* The client *)

\* WHO: the call. The request is prepared, validated and encoded; it is within
\* the size bound.
Prepare(c) ==
    /\ pc[c] = "idle"
    /\ pc' = [pc EXCEPT ![c] = "ready"]
    /\ UNCHANGED <<endpoint, options, retries, attempts, error, spent, slept, net, reply, executed>>

\* WHO: the call. A field, an identifier, a callback URL or the encoded size of
\* the request is refused before the transport is involved.
Reject(c) ==
    /\ pc[c] = "idle"
    /\ pc' = [pc EXCEPT ![c] = "err"]
    /\ error' = [error EXCEPT ![c] = PlainError("Param")]
    /\ UNCHANGED <<endpoint, options, retries, attempts, spent, slept, net, reply, executed>>

\* WHO: the transport. The attempt's request is on its way.
Send(c) ==
    /\ pc[c] = "ready"
    /\ pc' = [pc EXCEPT ![c] = "waiting"]
    /\ attempts' = [attempts EXCEPT ![c] = @ + 1]
    /\ net' = [net EXCEPT ![c] = @ \cup {attempts[c] + 1}]
    /\ UNCHANGED <<endpoint, options, retries, error, spent, slept, reply, executed>>

\* Fault: one retry loop for both methods.
FailAttemptAnyMethod(c, e) ==
    /\ error' = [error EXCEPT ![c] = e]
    /\ reply' = [reply EXCEPT ![c] = NoReply]
    /\ IF ShouldRetry(PolicyOf(c), retries[c], e)
       THEN /\ pc' = [pc EXCEPT ![c] = "backoff"]
            /\ retries' = [retries EXCEPT ![c] = @ + 1]
       ELSE /\ pc' = [pc EXCEPT ![c] = "err"]
            /\ UNCHANGED retries

\* The attempt of c ends with error e. get_json consults the policy, counts
\* the retry and goes to sleep, or returns e; post_json returns e.
FailAttempt(c, e) ==
    /\ error' = [error EXCEPT ![c] = e]
    /\ reply' = [reply EXCEPT ![c] = NoReply]
    /\ IF IsRead(c) /\ ShouldRetry(PolicyOf(c), retries[c], e)
       THEN /\ pc' = [pc EXCEPT ![c] = "backoff"]
            /\ retries' = [retries EXCEPT ![c] = @ + 1]
       ELSE /\ pc' = [pc EXCEPT ![c] = "err"]
            /\ UNCHANGED retries

\* Fault: the timeout of the call's options does not reach the transport.
SpendTicksDefault(c, ticks) ==
    /\ ticks \in 0 .. HttpTimeout
    /\ spent' = [spent EXCEPT ![c] = @ + HttpTimeout]

\* The attempt took at most the per-attempt timeout.
SpendTicks(c, ticks) ==
    /\ ticks \in 0 .. TimeoutOf(c)
    /\ spent' = [spent EXCEPT ![c] = @ + ticks]

\* WHO: the transport. No connection could be made, so nothing was sent; the
\* wait for it may itself run into the timeout or into the connect timeout of
\* the transport, which is reported as a timeout too.
ConnectFails(c) ==
    /\ pc[c] = "ready"
    /\ \E ticks \in 0 .. TimeoutOf(c) : SpendTicks(c, ticks)
    /\ \E kind \in {"Connect", "Timeout", "Request"} : FailAttempt(c, TransportError(kind))
    /\ UNCHANGED <<endpoint, options, attempts, slept, net, executed>>

\* Fault: without a timeout of its own the call waits forever.
TimesOutIfSet(c) ==
    /\ pc[c] = "waiting"
    /\ options[c].timeout # Unset
    /\ SpendTicks(c, TimeoutOf(c))
    /\ FailAttempt(c, TransportError("Timeout"))
    /\ UNCHANGED <<endpoint, options, attempts, slept, net, executed>>

\* WHO: the transport. The request was sent but no answer came in time.
TimesOut(c) ==
    /\ pc[c] = "waiting"
    /\ SpendTicks(c, TimeoutOf(c))
    /\ FailAttempt(c, TransportError("Timeout"))
    /\ UNCHANGED <<endpoint, options, attempts, slept, net, executed>>

\* Fault: every failure before the status line counts as a failed connection.
ConnectionBreaksAsConnect(c) ==
    /\ pc[c] = "waiting"
    /\ reply[c] = NoReply
    /\ \E ticks \in 0 .. TimeoutOf(c) : SpendTicks(c, ticks)
    /\ FailAttempt(c, TransportError("Connect"))
    /\ UNCHANGED <<endpoint, options, attempts, slept, net, executed>>

\* WHO: the transport. The connection broke while the request was being sent
\* or before the status line of an answer arrived.
ConnectionBreaks(c) ==
    /\ pc[c] = "waiting"
    /\ reply[c] = NoReply
    /\ \E ticks \in 0 .. TimeoutOf(c) : SpendTicks(c, ticks)
    /\ \E kind \in {"Request", "Redirect", "Other"} : FailAttempt(c, TransportError(kind))
    /\ UNCHANGED <<endpoint, options, attempts, slept, net, executed>>

\* WHO: the call. The answer to the current attempt is read and judged.
Receive(c) ==
    /\ pc[c] = "waiting"
    /\ reply[c] # NoReply
    /\ \E ticks \in 0 .. TimeoutOf(c) : SpendTicks(c, ticks)
    /\ LET verdict == Verdict(endpoint[c], reply[c])
       IN  \/ /\ verdict # NoError
              /\ FailAttempt(c, verdict)
           \/ /\ verdict = NoError
              /\ pc' = [pc EXCEPT ![c] = "ok"]
              /\ reply' = [reply EXCEPT ![c] = NoReply]
              /\ UNCHANGED <<retries, error>>
    /\ UNCHANGED <<endpoint, options, attempts, slept, net, executed>>

\* Fault: the timer of the back-off outlives the future.
WakeDetached(c) ==
    /\ pc[c] \in {"backoff", "dropped"}
    /\ pc' = [pc EXCEPT ![c] = "ready"]
    /\ slept' = [slept EXCEPT ![c] = @ + Backoff(PolicyOf(c), retries[c])]
    /\ UNCHANGED <<endpoint, options, retries, attempts, error, spent, net, reply, executed>>

\* WHO: the call. The back-off of the retry just counted is over.
Wake(c) ==
    /\ pc[c] = "backoff"
    /\ pc' = [pc EXCEPT ![c] = "ready"]
    /\ slept' = [slept EXCEPT ![c] = @ + Backoff(PolicyOf(c), retries[c])]
    /\ UNCHANGED <<endpoint, options, retries, attempts, error, spent, net, reply, executed>>

\* WHO: the application. The future is dropped at an await point; a request
\* that is out stays out.
Drop(c) ==
    /\ pc[c] \in {"ready", "waiting", "backoff"}
    /\ pc' = [pc EXCEPT ![c] = "dropped"]
    /\ reply' = [reply EXCEPT ![c] = NoReply]
    /\ UNCHANGED <<endpoint, options, retries, attempts, error, spent, slept, net, executed>>

-----------------------------------------------------------------------------
(* The gateway and the network *)

\* The client still listens for the answer to its attempt n.
Listening(c, n) == pc[c] = "waiting" /\ attempts[c] = n /\ reply[c] = NoReply

\* An answer out of the set possible, or no answer, reaches the client.
Answer(c, n, possible) ==
    \/ /\ Listening(c, n)
       /\ \E r \in possible : reply' = [reply EXCEPT ![c] = r]
    \/ UNCHANGED reply

\* WHO: the gateway. The operation is executed; an envelope does not deny it.
Execute(c, n) ==
    /\ n \in net[c]
    /\ net' = [net EXCEPT ![c] = @ \ {n}]
    /\ executed' = [executed EXCEPT ![c] = @ + 1]
    /\ Answer(c, n, {r \in Replies : ~ClaimsFailure(endpoint[c], r)})
    /\ UNCHANGED callVars

\* WHO: the gateway or the network. The request is refused or lost; an
\* envelope does not claim success.
Refuse(c, n) ==
    /\ n \in net[c]
    /\ net' = [net EXCEPT ![c] = @ \ {n}]
    /\ Answer(c, n, {r \in Replies : ~ClaimsSuccess(endpoint[c], r)})
    /\ UNCHANGED <<callVars, executed>>

\* WHO: a front end of the gateway. It answers with a status of its own while
\* the request is still being worked on behind it.
FrontEndAnswers(c, n) ==
    /\ n \in net[c]
    /\ Listening(c, n)
    /\ \E r \in {r \in Replies : ~HasEnvelope(r)} : reply' = [reply EXCEPT ![c] = r]
    /\ UNCHANGED <<callVars, net, executed>>

-----------------------------------------------------------------------------

\* What the runtime does for a call whatever its environment does.
OwnStep(c) ==
    \/ Prepare(c) \/ Reject(c)
    \/ Send(c) \/ ConnectFails(c)
    \/ TimesOut(c) \/ Receive(c)
    \/ Wake(c)

ClientStep(c) == OwnStep(c) \/ ConnectionBreaks(c)

GatewayStep(c) ==
    \E n \in net[c] : Execute(c, n) \/ Refuse(c, n) \/ FrontEndAnswers(c, n)

Next == \E c \in Calls : ClientStep(c) \/ Drop(c) \/ GatewayStep(c)

\* The executor polls the future of a call that was started, the timers of the
\* runtime fire and the transport enforces the timeout: the client's own steps
\* happen. Nothing is assumed of the gateway, nor that a connection breaks.
Fairness == \A c \in Calls : WF_vars(OwnStep(c))

Spec == Init /\ [][Next]_vars

FairSpec == Spec /\ Fairness

-----------------------------------------------------------------------------
(* Properties *)

TypeOK ==
    /\ pc \in [Calls -> {"idle", "ready", "waiting", "backoff", "ok", "err", "dropped"}]
    /\ endpoint \in [Calls -> Exercised]
    /\ options \in [Calls -> CallOptions]
    /\ retries \in [Calls -> Nat]
    /\ attempts \in [Calls -> Nat]
    /\ error \in [Calls -> Error \cup {NoError}]
    /\ spent \in [Calls -> Nat]
    /\ slept \in [Calls -> Nat]
    /\ net \in [Calls -> SUBSET (Nat \ {0})]
    /\ reply \in [Calls -> Replies \cup {NoReply}]
    /\ executed \in [Calls -> Nat]

\* Payments and refunds are never resent: whatever answers, timeouts and late
\* executions occur, the gateway executes such a call at most once
\* (post_json, client.rs 447-475).
WritesExecutedAtMostOnce ==
    \A c \in Calls : ~IsRead(c) => attempts[c] <= 1 /\ executed[c] <= 1

\* A definite error of a payment or a refund is final: the gateway has not
\* executed the call and no request is left that it could still execute, so
\* the application may submit the operation again (error.rs 74-130).
DefiniteErrorMeansNoEffect ==
    \A c \in Calls :
        pc[c] = "err" /\ ~IsRead(c) /\ Definite(error[c]) => executed[c] = 0 /\ net[c] = {}

\* A call reports success only if the gateway executed its operation
\* (finish, parse_json and response_code, client.rs 477-538).
SuccessMeansExecuted ==
    \A c \in Calls : pc[c] = "ok" => executed[c] > 0

\* A read is given up on a retryable error only when its own policy, or the
\* client's where the call sets none, is used up; a call never retries beyond
\* it (get_json, client.rs 419-443).
RetriesUsedUp ==
    \A c \in Calls :
        /\ retries[c] <= PolicyOf(c).max_retries
        /\ pc[c] = "err" /\ IsRead(c) /\ IsRetryable(error[c])
              => retries[c] = PolicyOf(c).max_retries

\* The worst case HttpConfig documents: (retries + 1) * timeout plus the
\* back-off, each delay within the policy's maximum (config.rs 277-281).
WorstCaseLatency ==
    \A c \in Calls :
        /\ spent[c] <= (retries[c] + 1) * TimeoutOf(c)
        /\ slept[c] <= retries[c] * PolicyOf(c).max_backoff

\* A call that has returned or was dropped rests: it never sends, sleeps or
\* changes its answer again, whatever answers or timers are still under way
\* (client.rs 418-443; the future owns its timers).
EndedCallsRest ==
    [][\A c \in Calls : Ended(c) =>
          /\ pc'[c] = pc[c] /\ error'[c] = error[c]
          /\ attempts'[c] = attempts[c] /\ slept'[c] = slept[c]]_vars

\* Every call that was started comes to an end, even if the gateway never
\* answers (config.rs 277-281).
EveryCallEnds == \A c \in Calls : pc[c] = "ready" ~> Ended(c)

-----------------------------------------------------------------------------
(* The inductive invariant behind the properties above *)

\* Attempts that have failed so far: each was followed by a counted retry,
\* except the last of a call that has ended.
Failed(c) == retries[c] + (IF Ended(c) THEN 1 ELSE 0)

\* The loop's counter, the attempts and the time they took go together.
LoopInv(c) ==
    /\ pc[c] = "idle" => attempts[c] = 0
    /\ attempts[c] <= retries[c] + (IF pc[c] = "waiting" \/ Ended(c) THEN 1 ELSE 0)
    /\ retries[c] <= PolicyOf(c).max_retries
    /\ ~IsRead(c) => retries[c] = 0
    /\ pc[c] = "backoff" => retries[c] > 0
    /\ pc[c] = "err" /\ IsRead(c) /\ IsRetryable(error[c]) => retries[c] = PolicyOf(c).max_retries
    /\ spent[c] <= Failed(c) * TimeoutOf(c)
    /\ slept[c] <= (retries[c] - (IF pc[c] = "backoff" THEN 1 ELSE 0)) * PolicyOf(c).max_backoff

\* A request is at the gateway, executed or refused, and an answer tells the
\* truth about it.
GatewayInv(c) ==
    /\ net[c] \subseteq 1 .. attempts[c]
    /\ attempts[c] = 0 => executed[c] = 0
    /\ ~IsRead(c) => executed[c] <= 1
    /\ ~IsRead(c) /\ executed[c] = 1 => net[c] = {}
    /\ reply[c] # NoReply => pc[c] = "waiting"
    /\ ClaimsSuccess(endpoint[c], reply[c]) => executed[c] > 0
    /\ ClaimsFailure(endpoint[c], reply[c]) /\ ~IsRead(c) => executed[c] = 0 /\ net[c] = {}

\* The end of a call agrees with what the gateway did.
EndInv(c) ==
    /\ pc[c] = "ok" => executed[c] > 0
    /\ pc[c] = "err" /\ ~IsRead(c) /\ Definite(error[c]) => executed[c] = 0 /\ net[c] = {}

IInv == TypeOK /\ \A c \in Calls : LoopInv(c) /\ GatewayInv(c) /\ EndInv(c)

-----------------------------------------------------------------------------
(* Refinement *)

\* The call as its caller sees it.
StageOf(c) ==
    CASE pc[c] = "idle" -> "new"
      [] pc[c] \in {"ready", "waiting", "backoff"} -> "open"
      [] pc[c] = "ok" -> "ok"
      [] pc[c] = "err" -> IF Definite(error[c]) THEN "refused" ELSE "unknown"
      [] pc[c] = "dropped" -> "abandoned"

Reads == [c \in Calls |-> IsRead(c)]

Stages == [c \in Calls |-> StageOf(c)]

Promise == INSTANCE CallPromise WITH isRead <- Reads, stage <- Stages

\* The call keeps the promise stated in CallPromise (client.rs 57-60, 169, 305).
KeepsPromise == Promise!Spec

\* "Every gateway call ... then validates the success payload against the
\* request and the configured PID" (client.rs 57-59): a call succeeds only on
\* an answer whose payload is valid for it.
SuccessIsValidated ==
    [][\A c \in Calls : pc[c] = "waiting" /\ pc'[c] = "ok" => reply[c].shape = "valid"]_vars

=============================================================================
