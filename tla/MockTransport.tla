--------------------------- MODULE MockTransport ----------------------------
(***************************************************************************)
(* The transport of the test kit, under concurrent calls of one client:    *)
(* every attempt records its request under one lock, takes the next        *)
(* scripted response under a second, and a back-off is recorded under a    *)
(* third instead of waited for. The test may queue responses at any time.  *)
(* Calls follow get_json and post_json with the back-off of RetryPolicy.   *)
(***************************************************************************)

EXTENDS RetryPolicy, SequencesExt

CONSTANTS
    Calls,      \* calls of the test
    Writes,     \* those that are posted
    Policies,   \* retry policies of the reads
    Results,    \* what a test queues: errors, or bodies of some size
    Limit,      \* max_response_bytes
    MaxQueued   \* bound: responses queued

ASSUME WritesAssumption == Writes \subseteq Calls
\* The fields of a policy are private: with_backoff keeps them in order.
ASSUME PoliciesAssumption ==
    Policies \subseteq {p \in RetryPolicies : p.initial_backoff <= p.max_backoff}
ASSUME ResultsAssumption == Results \subseteq [error : Error \cup {NoError}, size : Nat]
ASSUME BoundsAssumption == Limit \in Nat /\ MaxQueued \in Nat

VARIABLES
    policy,     \* of each read
    pc,         \* "new", "attempt", "recorded", "failed" (about to sleep) or "ended"
    retries,    \* of each call
    result,     \* what the call ended with
    responses,  \* MockInner::responses: queue of [no, result]
    queued,     \* responses queued so far; also the number of the last one
    requests,   \* MockInner::requests: the calls that made them
    served,     \* history: calls and numbers of the responses they took, 0 for none
    sleeps,     \* MockInner::sleeps: calls and durations
    overlapped  \* history: an attempt began between the two locks of another

vars == <<policy, pc, retries, result, responses, queued, requests, served, sleeps, overlapped>>

Body(size) == [error |-> NoError, size |-> size]
Failure(error) == [error |-> error, size |-> 0]

NoResult == Body(0)

\* The script has run dry.
Unscripted == Failure(TransportError("Other"))

Init ==
    /\ policy \in [Calls \ Writes -> Policies]
    /\ pc = [c \in Calls |-> "new"]
    /\ retries = [c \in Calls |-> 0]
    /\ result = [c \in Calls |-> NoResult]
    /\ responses = <<>> /\ queued = 0
    /\ requests = <<>> /\ served = <<>> /\ sleeps = <<>>
    /\ overlapped = FALSE

Move(c, from, to) == pc[c] = from /\ pc' = [pc EXCEPT ![c] = to]

\* push_json, push_bytes, push_err.
Push(r) ==
    /\ queued < MaxQueued
    /\ queued' = queued + 1
    /\ responses' = Append(responses, [no |-> queued + 1, result |-> r])
    /\ UNCHANGED <<policy, pc, retries, result, requests, served, sleeps, overlapped>>

Begin(c) ==
    /\ Move(c, "new", "attempt")
    /\ UNCHANGED <<policy, retries, result, responses, queued, requests, served, sleeps, overlapped>>

\* Fault: only the first attempt of a call is recorded.
RecordFirst(c) ==
    /\ Move(c, "attempt", "recorded")
    /\ requests' = IF retries[c] = 0 THEN Append(requests, c) ELSE requests
    /\ overlapped' = (overlapped \/ \E d \in Calls : pc[d] = "recorded")
    /\ UNCHANGED <<policy, retries, result, responses, queued, served, sleeps>>

\* The first lock of next.
Record(c) ==
    /\ Move(c, "attempt", "recorded")
    /\ requests' = Append(requests, c)
    /\ overlapped' = (overlapped \/ \E d \in Calls : pc[d] = "recorded")
    /\ UNCHANGED <<policy, retries, result, responses, queued, served, sleeps>>

\* What next returns for a response it took.
Outcome(r) ==
    IF r.error = NoError /\ r.size > Limit THEN Failure(PlainError("ResponseTooLarge")) ELSE r

\* The call after an attempt: it ends, or retries a read.
After(c, r) ==
    IF r.error # NoError /\ c \notin Writes /\ ShouldRetry(policy[c], retries[c], r.error)
    THEN /\ Move(c, "recorded", "failed")
         /\ retries' = [retries EXCEPT ![c] = @ + 1]
         /\ UNCHANGED result
    ELSE /\ Move(c, "recorded", "ended")
         /\ result' = [result EXCEPT ![c] = r]
         /\ UNCHANGED retries

\* Fault: a call waits for a response to be queued.
TakeWaits(c) ==
    /\ responses # <<>>
    /\ After(c, Outcome(Head(responses).result))
    /\ responses' = Tail(responses)
    /\ served' = Append(served, [call |-> c, no |-> Head(responses).no])
    /\ UNCHANGED <<policy, queued, requests, sleeps, overlapped>>

\* The second lock of next.
Take(c) ==
    /\ IF responses = <<>>
       THEN /\ After(c, Unscripted)
            /\ served' = Append(served, [call |-> c, no |-> 0])
            /\ UNCHANGED responses
       ELSE /\ After(c, Outcome(Head(responses).result))
            /\ served' = Append(served, [call |-> c, no |-> Head(responses).no])
            /\ responses' = Tail(responses)
    /\ UNCHANGED <<policy, queued, requests, sleeps, overlapped>>

\* Back-off: it is recorded, and the next attempt follows at once.
Sleep(c) ==
    /\ Move(c, "failed", "attempt")
    /\ sleeps' = Append(sleeps, [call |-> c, delay |-> Backoff(policy[c], retries[c])])
    /\ UNCHANGED <<policy, retries, result, responses, queued, requests, served, overlapped>>

Step(c) == Record(c) \/ Take(c) \/ Sleep(c)

Next ==
    \/ \E r \in Results : Push(r)
    \/ \E c \in Calls : Begin(c) \/ Step(c)

\* The runtime of the test polls the calls it has started.
Spec == Init /\ [][Next]_vars /\ \A c \in Calls : WF_vars(Step(c))

-----------------------------------------------------------------------------
(* Properties *)

TypeOK ==
    /\ policy \in [Calls \ Writes -> Policies]
    /\ pc \in [Calls -> {"new", "attempt", "recorded", "failed", "ended"}]
    /\ \A c \in Calls : retries[c] \in 0 .. IF c \in Writes THEN 0 ELSE policy[c].max_retries
    /\ \A c \in Calls : result[c].error # NoError \/ result[c].size <= Limit
    /\ queued \in 0 .. MaxQueued
    /\ \A i \in DOMAIN responses : responses[i].result \in Results
    /\ \A i \in DOMAIN sleeps : sleeps[i].delay \in Durations

\* Responses are served once each and in the order they were queued, also to
\* concurrent calls and while more are queued; none is lost ("responses are
\* served in FIFO order", transport.rs 218-220, 336-346).
ServedInOrder ==
    LET taken == queued - Len(responses)
    IN  /\ {served[i].no : i \in DOMAIN served} \ {0} = 1 .. taken
        /\ \A i, j \in DOMAIN served : i < j /\ served[j].no # 0 => served[i].no < served[j].no
        /\ \A i \in DOMAIN responses : responses[i].no = taken + i

\* The requests recorded are in the order of the responses served to them, with
\* those still waiting for one at the end. A test may rely on that for calls
\* made one after the other, retries included, and only for them: between the
\* two locks of one call another may record and be served first
\* (transport.rs 315-354).
PairedUnlessOverlapped ==
    ~overlapped =>
        \A i \in DOMAIN requests :
            IF i <= Len(served) THEN requests[i] = served[i].call
            ELSE pc[requests[i]] = "recorded"

Smaller(a, b) == IF a <= b THEN a ELSE b

\* The sleeps before the ith one of the call that made it.
EarlierSleeps(i) == {k \in 1 .. i - 1 : sleeps[k].call = sleeps[i].call}

\* The back-offs of each read are its initial delay and then twice the delay
\* before, up to the maximum and also for products too long for a Duration, as
\* often as the shift is wide; from then on the delay stays what it is, at the
\* maximum or below it, and never wraps to a shorter one. A write has none
\* (config.rs 257-263, client.rs 422-441).
DoublesThenStays ==
    \A i \in DOMAIN sleeps :
        LET slept == sleeps[i]
            earlier == EarlierSleeps(i)
        IN  /\ slept.call \notin Writes
            /\ earlier = {} => slept.delay = policy[slept.call].initial_backoff
            /\ \A k \in earlier : earlier \subseteq 1 .. k =>
                  slept.delay =
                     IF Cardinality(earlier) < ShiftWidth
                     THEN Smaller(2 * sleeps[k].delay, policy[slept.call].max_backoff)
                     ELSE sleeps[k].delay

\* Every call of a test ends, also when the script runs dry: no call waits for
\* the test to queue a response (transport.rs 342-347).
CallsEnd == \A c \in Calls : pc[c] # "new" ~> pc[c] = "ended"

=============================================================================
