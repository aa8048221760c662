----------------------- MODULE MockTransport_proofs ------------------------
(***************************************************************************)
(* Proofs about MockTransport, for any number of calls, any policies and   *)
(* any script.                                                             *)
(***************************************************************************)

EXTENDS MockTransport, SequenceTheorems, FiniteSetTheorems, TLAPS

Response == [no : Nat, result : Results]
Serving == [call : Calls, no : Nat]
Delay == [call : Calls, delay : Durations]
Result == [error : Error \cup {NoError}, size : Nat]

Typed ==
    /\ policy \in [Calls \ Writes -> Policies]
    /\ pc \in [Calls -> {"new", "attempt", "recorded", "failed", "ended"}]
    /\ retries \in [Calls -> Nat]
    /\ result \in [Calls -> Result]
    /\ responses \in Seq(Response)
    /\ queued \in 0 .. MaxQueued
    /\ requests \in Seq(Calls)
    /\ served \in Seq(Serving)
    /\ sleeps \in Seq(Delay)
    /\ overlapped \in BOOLEAN

\* Only reads retry, within their policy, and no result is too large.
CallsInv ==
    \A c \in Calls :
        /\ pc[c] = "failed" => c \notin Writes
        /\ retries[c] <= IF c \in Writes THEN 0 ELSE policy[c].max_retries
        /\ result[c].error # NoError \/ result[c].size <= Limit

\* Without an overlap at most one call is between its two locks, and it made
\* the last request.
PairInv ==
    ~overlapped =>
        /\ \A i \in 1 .. Len(served) : i <= Len(requests) /\ requests[i] = served[i].call
        /\ \/ Len(requests) = Len(served) /\ \A c \in Calls : pc[c] # "recorded"
           \/ /\ Len(requests) = Len(served) + 1
              /\ \A c \in Calls : pc[c] = "recorded" <=> c = requests[Len(requests)]

\* What is left in the queue was queued last.
QueueInv == Len(responses) <= queued /\ ServedInOrder

IInv == Typed /\ CallsInv /\ PairInv /\ QueueInv

LEMMA InitIInv == Init => IInv
<1> SUFFICES ASSUME Init PROVE IInv
  OBVIOUS
<1>1. NoResult \in Result /\ NoResult.size = 0
  BY DEF NoResult, Body, Result
<1>2. Typed
  <2>1. \A S : <<>> \in Seq(S)
    BY EmptySeq
  <2>2. /\ pc \in [Calls -> {"new", "attempt", "recorded", "failed", "ended"}]
        /\ retries \in [Calls -> Nat] /\ result \in [Calls -> Result]
    BY <1>1 DEF Init
  <2>3. queued \in 0 .. MaxQueued
    BY BoundsAssumption DEF Init
  <2>4. QED
    BY <2>1, <2>2, <2>3 DEF Init, Typed
<1>3. CallsInv
  <2>1. \A c \in Calls \ Writes : policy[c].max_retries \in Nat
    BY PoliciesAssumption DEF Init, RetryPolicies
  <2>2. \A c \in Calls : retries[c] <= IF c \in Writes THEN 0 ELSE policy[c].max_retries
    BY <2>1 DEF Init
  <2>3. \A c \in Calls : pc[c] = "new" /\ result[c].size <= Limit
    BY <1>1, BoundsAssumption DEF Init
  <2>4. QED
    BY <2>2, <2>3 DEF CallsInv
<1>4. PairInv
  BY DEF Init, PairInv
<1>5. QueueInv
  BY DEF Init, QueueInv, ServedInOrder
<1>6. QED
  BY <1>2, <1>3, <1>4, <1>5 DEF IInv

(***************************************************************************)
(* Queueing a response.                                                    *)
(***************************************************************************)

LEMMA PushStep ==
    ASSUME IInv, NEW r \in Results, Push(r)
    PROVE  IInv'
<1> DEFINE added == [no |-> queued + 1, result |-> r]
<1>1. /\ queued < MaxQueued /\ queued' = queued + 1
      /\ responses' = Append(responses, added)
      /\ UNCHANGED <<policy, pc, retries, result, requests, served, sleeps, overlapped>>
  BY DEF Push
<1>2. added \in Response /\ responses \in Seq(Response) /\ queued \in Nat
  BY BoundsAssumption DEF IInv, Typed, Response
<1>3. /\ responses' \in Seq(Response) /\ Len(responses') = Len(responses) + 1
      /\ \A i \in 1 .. Len(responses) : responses'[i] = responses[i]
      /\ responses'[Len(responses) + 1] = added
  BY <1>1, <1>2, AppendProperties
<1>4. Typed'
  BY <1>1, <1>3, BoundsAssumption DEF IInv, Typed
<1>5. CallsInv' /\ PairInv'
  BY <1>1 DEF IInv, CallsInv, PairInv
<1>6. QueueInv'
  <2> DEFINE taken == queued - Len(responses)
  <2>1. Len(responses) \in Nat /\ taken' = taken /\ added.no = taken + (Len(responses) + 1)
    BY <1>1, <1>2, <1>3
  <2>2. \A i \in DOMAIN responses' : responses'[i].no = taken' + i
    <3> SUFFICES ASSUME NEW i \in DOMAIN responses' PROVE responses'[i].no = taken' + i
      OBVIOUS
    <3>1. CASE i = Len(responses) + 1
      BY <1>3, <2>1, <3>1
    <3>2. CASE i # Len(responses) + 1
      <4>1. i \in 1 .. Len(responses) /\ i \in DOMAIN responses
        BY <1>2, <1>3, <2>1, <3>2
      <4>2. responses[i].no = taken + i
        BY <4>1 DEF IInv, QueueInv, ServedInOrder
      <4>3. QED
        BY <1>3, <2>1, <4>1, <4>2
    <3>3. QED
      BY <3>1, <3>2
  <2>3. Len(responses') <= queued'
    BY <1>1, <1>2, <1>3, <2>1 DEF IInv, QueueInv
  <2>4. QED
    BY <1>1, <2>1, <2>2, <2>3 DEF IInv, QueueInv, ServedInOrder
<1>7. QED
  BY <1>4, <1>5, <1>6 DEF IInv

(***************************************************************************)
(* The steps of a call.                                                    *)
(***************************************************************************)

LEMMA BeginStep ==
    ASSUME IInv, NEW c \in Calls, Begin(c)
    PROVE  IInv'
BY DEF IInv, Begin, Move, Typed, CallsInv, PairInv, QueueInv, ServedInOrder

LEMMA RecordStep ==
    ASSUME IInv, NEW c \in Calls, Record(c)
    PROVE  IInv'
<1>1. /\ pc[c] = "attempt" /\ pc' = [pc EXCEPT ![c] = "recorded"]
      /\ requests' = Append(requests, c)
      /\ overlapped' = (overlapped \/ \E d \in Calls : pc[d] = "recorded")
      /\ UNCHANGED <<policy, retries, result, responses, queued, served, sleeps>>
  BY DEF Record, Move
<1>2. requests \in Seq(Calls) /\ served \in Seq(Serving)
  BY DEF IInv, Typed
<1>3. /\ requests' \in Seq(Calls) /\ Len(requests') = Len(requests) + 1
      /\ \A i \in 1 .. Len(requests) : requests'[i] = requests[i]
      /\ requests'[Len(requests) + 1] = c
  BY <1>1, <1>2, AppendProperties
<1>4. Typed' /\ CallsInv' /\ QueueInv'
  BY <1>1, <1>3 DEF IInv, Typed, CallsInv, QueueInv, ServedInOrder
<1>5. PairInv'
  <2> SUFFICES ASSUME ~overlapped' PROVE PairInv'
    BY DEF PairInv
  <2>1. ~overlapped /\ \A d \in Calls : pc[d] # "recorded"
    BY <1>1
  <2>2. Len(requests) \in Nat /\ Len(served) \in Nat
    BY <1>2
  <2>3. Len(requests) = Len(served)
    <3>1. CASE Len(requests) = Len(served) + 1
      <4>1. requests[Len(requests)] \in Calls
        BY <1>2, <2>2, <3>1, ElementOfSeq
      <4>2. QED
        BY <2>1, <3>1, <4>1, <2>2 DEF IInv, PairInv
    <3>2. QED
      BY <2>1, <3>1 DEF IInv, PairInv
  <2>4. \A i \in 1 .. Len(served) : i <= Len(requests) /\ requests[i] = served[i].call
    BY <2>1 DEF IInv, PairInv
  <2>5. \A d \in Calls : pc'[d] = "recorded" <=> d = c
    BY <1>1, <2>1 DEF IInv, Typed
  <2>6. QED
    BY <1>1, <1>3, <2>2, <2>3, <2>4, <2>5 DEF PairInv
<1>6. QED
  BY <1>4, <1>5 DEF IInv

LEMMA SleptTyped ==
    ASSUME IInv, NEW c \in Calls, pc[c] = "failed"
    PROVE  [call |-> c, delay |-> Backoff(policy[c], retries[c])] \in Delay
<1>1. c \notin Writes /\ policy[c] \in RetryPolicies
  BY PoliciesAssumption DEF IInv, CallsInv, Typed
<1>2. Backoff(policy[c], retries[c]) \in Durations
  BY <1>1 DEF Backoff, RetryPolicies
<1>3. QED
  BY <1>2 DEF Delay

LEMMA SleepStep ==
    ASSUME IInv, NEW c \in Calls, Sleep(c)
    PROVE  IInv'
<1> DEFINE slept == [call |-> c, delay |-> Backoff(policy[c], retries[c])]
<1>1. /\ pc[c] = "failed" /\ pc' = [pc EXCEPT ![c] = "attempt"]
      /\ sleeps' = Append(sleeps, slept)
      /\ UNCHANGED <<policy, retries, result, responses, queued, requests, served, overlapped>>
  BY DEF Sleep, Move
<1>2. slept \in Delay
  BY <1>1, SleptTyped
<1>3. sleeps' \in Seq(Delay)
  BY <1>1, <1>2, AppendProperties DEF IInv, Typed
<1>4. Typed'
  BY <1>1, <1>3 DEF IInv, Typed
<1>5. \A d \in Calls : pc'[d] = pc[d] \/ (pc[d] = "failed" /\ pc'[d] = "attempt")
  BY <1>1 DEF IInv, Typed
<1>6. CallsInv' /\ QueueInv'
  BY <1>1, <1>5 DEF IInv, CallsInv, QueueInv, ServedInOrder
<1>7. \A d \in Calls : pc'[d] = "recorded" <=> pc[d] = "recorded"
  BY <1>5
<1>8. PairInv'
  BY <1>1, <1>7 DEF IInv, PairInv
<1>9. QED
  BY <1>4, <1>6, <1>8 DEF IInv

\* What a call makes of the outcome of its attempt.
LEMMA AfterStep ==
    ASSUME IInv, NEW c \in Calls, NEW r \in Results \cup {Unscripted}, After(c, Outcome(r)),
           UNCHANGED policy
    PROVE  /\ pc[c] = "recorded"
           /\ \E to \in {"failed", "ended"} : pc' = [pc EXCEPT ![c] = to]
           /\ retries' \in [Calls -> Nat] /\ result' \in [Calls -> Result]
           /\ CallsInv'
<1>1. r \in Result
  <2>1. Unscripted \in Result
    BY DEF Unscripted, Failure, TransportError, Error, TransportErrorKinds, Variants, Result
  <2>2. QED
    BY <2>1, ResultsAssumption DEF Result
<1>2. Outcome(r) \in Result /\ (Outcome(r).error # NoError \/ Outcome(r).size <= Limit)
  <2>1. CASE r.error = NoError /\ r.size > Limit
    BY <2>1 DEF Outcome, Failure, PlainError, NoError, Error, TransportErrorKinds, Variants, Result
  <2>2. CASE ~(r.error = NoError /\ r.size > Limit)
    <3>1. Outcome(r) = r /\ r.size \in Nat
      BY <1>1, <2>2 DEF Outcome, Result
    <3>2. QED
      BY <1>1, <2>2, <3>1, BoundsAssumption
  <2>3. QED
    BY <2>1, <2>2
<1> DEFINE o == Outcome(r)
           retrying == o.error # NoError /\ c \notin Writes
                         /\ ShouldRetry(policy[c], retries[c], o.error)
<1>3. pc \in [Calls -> {"new", "attempt", "recorded", "failed", "ended"}]
      /\ retries \in [Calls -> Nat] /\ result \in [Calls -> Result] /\ CallsInv
  BY DEF IInv, Typed
<1>4. CASE retrying
  <2>1. /\ pc[c] = "recorded" /\ pc' = [pc EXCEPT ![c] = "failed"]
        /\ retries' = [retries EXCEPT ![c] = @ + 1] /\ UNCHANGED result
    BY <1>4 DEF After, Move
  <2>2. c \notin Writes /\ retries[c] < policy[c].max_retries
    BY <1>4 DEF ShouldRetry
  <2>3. policy[c].max_retries \in Nat
    BY <2>2, PoliciesAssumption DEF IInv, Typed, RetryPolicies
  <2>4. retries' \in [Calls -> Nat]
    BY <1>3, <2>1
  <2>5. ASSUME NEW d \in Calls
        PROVE  /\ pc'[d] = "failed" => d \notin Writes
               /\ retries'[d] <= IF d \in Writes THEN 0 ELSE policy'[d].max_retries
               /\ result'[d].error # NoError \/ result'[d].size <= Limit
    <3>1. CASE d = c
      BY <1>3, <2>1, <2>2, <2>3, <3>1 DEF CallsInv
    <3>2. CASE d # c
      BY <1>3, <2>1, <3>2 DEF CallsInv
    <3>3. QED
      BY <3>1, <3>2
  <2>6. QED
    BY <1>3, <2>1, <2>4, <2>5 DEF CallsInv
<1>5. CASE ~retrying
  <2>1. /\ pc[c] = "recorded" /\ pc' = [pc EXCEPT ![c] = "ended"]
        /\ result' = [result EXCEPT ![c] = o] /\ UNCHANGED retries
    BY <1>5 DEF After, Move
  <2>2. result' \in [Calls -> Result]
    BY <1>2, <1>3, <2>1
  <2>3. CallsInv'
    BY <1>2, <1>3, <2>1 DEF CallsInv
  <2>4. QED
    BY <1>3, <2>1, <2>2, <2>3
<1>6. QED
  BY <1>4, <1>5

\* The call whose request was last has been served.
LEMMA PairStep ==
    ASSUME IInv, NEW c \in Calls, pc[c] = "recorded", NEW no \in Nat,
           served' = Append(served, [call |-> c, no |-> no]),
           \E to \in {"failed", "ended"} : pc' = [pc EXCEPT ![c] = to],
           UNCHANGED <<requests, overlapped>>
    PROVE  PairInv' /\ served' \in Seq(Serving)
<1> DEFINE serving == [call |-> c, no |-> no]
<1>1. served \in Seq(Serving) /\ serving \in Serving /\ requests \in Seq(Calls)
  BY DEF IInv, Typed, Serving
<1>2. /\ served' \in Seq(Serving) /\ Len(served') = Len(served) + 1
      /\ \A i \in 1 .. Len(served) : served'[i] = served[i]
      /\ served'[Len(served) + 1] = serving
  BY <1>1, AppendProperties
<1>3. ASSUME ~overlapped' PROVE PairInv'
  <2>1. /\ Len(requests) = Len(served) + 1
        /\ \A d \in Calls : pc[d] = "recorded" <=> d = requests[Len(requests)]
        /\ \A i \in 1 .. Len(served) : requests[i] = served[i].call
    BY <1>3 DEF IInv, PairInv
  <2>2. c = requests[Len(requests)]
    BY <2>1
  <2>3. \A d \in Calls : pc'[d] # "recorded"
    BY <2>1, <2>2 DEF IInv, Typed
  <2>4. Len(served) \in Nat /\ Len(requests) \in Nat
    BY <1>1
  <2>5. \A i \in 1 .. Len(served') : i <= Len(requests') /\ requests'[i] = served'[i].call
    BY <1>2, <2>1, <2>2, <2>4
  <2>6. QED
    BY <1>2, <2>1, <2>3, <2>4, <2>5 DEF PairInv
<1>4. QED
  BY <1>2, <1>3 DEF PairInv

LEMMA TakeStep ==
    ASSUME IInv, NEW c \in Calls, Take(c)
    PROVE  IInv'
<1>1. /\ responses \in Seq(Response) /\ served \in Seq(Serving) /\ queued \in Nat
      /\ Len(responses) \in Nat /\ Len(served) \in Nat
      /\ Len(responses) <= queued /\ ServedInOrder
  BY BoundsAssumption DEF IInv, Typed, QueueInv
<1> DEFINE taken == queued - Len(responses)
<1>2. UNCHANGED <<policy, queued, requests, sleeps, overlapped>>
  BY DEF Take
<1>3. CASE responses = <<>>
  <2>1. /\ After(c, Outcome(Unscripted)) /\ UNCHANGED responses
        /\ served' = Append(served, [call |-> c, no |-> 0])
    <3>1. Outcome(Unscripted) = Unscripted
      BY DEF Outcome, Unscripted, Failure, TransportError, NoError
    <3>2. QED
      BY <1>3, <3>1 DEF Take
  <2>2. /\ pc[c] = "recorded"
        /\ \E to \in {"failed", "ended"} : pc' = [pc EXCEPT ![c] = to]
        /\ retries' \in [Calls -> Nat] /\ result' \in [Calls -> Result]
        /\ CallsInv'
    BY <1>2, <2>1, AfterStep
  <2>3. PairInv' /\ served' \in Seq(Serving)
    BY <1>2, <2>1, <2>2, PairStep
  <2>4. Typed'
    BY <1>2, <2>1, <2>2, <2>3 DEF IInv, Typed
  <2>5. QueueInv'
    <3> DEFINE serving == [call |-> c, no |-> 0]
    <3>1. /\ Len(served') = Len(served) + 1
          /\ \A i \in 1 .. Len(served) : served'[i] = served[i]
          /\ served'[Len(served) + 1] = serving
      BY <1>1, <2>1, AppendProperties DEF Serving
    <3>2. {served'[i].no : i \in DOMAIN served'} \ {0} = {served[i].no : i \in DOMAIN served} \ {0}
      <4>1. DOMAIN served' = DOMAIN served \cup {Len(served) + 1} /\ DOMAIN served = 1 .. Len(served)
        BY <1>1, <2>3, <3>1
      <4>2. {served'[i].no : i \in DOMAIN served'} = {served[i].no : i \in DOMAIN served} \cup {0}
        <5>1. \A i \in DOMAIN served : served'[i].no = served[i].no
          BY <3>1, <4>1
        <5>2. served'[Len(served) + 1].no = 0
          BY <3>1
        <5>3. QED
          BY <4>1, <5>1, <5>2
      <4>3. QED
        BY <4>2
    <3>3. \A i, j \in DOMAIN served' : i < j /\ served'[j].no # 0 => served'[i].no < served'[j].no
      <4> SUFFICES ASSUME NEW i \in DOMAIN served', NEW j \in DOMAIN served',
                          i < j, served'[j].no # 0
                   PROVE  served'[i].no < served'[j].no
        OBVIOUS
      <4>1. DOMAIN served' = 1 .. Len(served) + 1 /\ DOMAIN served = 1 .. Len(served)
        BY <1>1, <2>3, <3>1
      <4>2. served'[Len(served) + 1].no = 0
        BY <3>1
      <4>3. i \in 1 .. Len(served) /\ j \in 1 .. Len(served)
        BY <1>1, <4>1, <4>2
      <4>4. served'[i] = served[i] /\ served'[j] = served[j]
        BY <3>1, <4>3
      <4>5. \A k, l \in DOMAIN served : k < l /\ served[l].no # 0 => served[k].no < served[l].no
        BY <1>1 DEF ServedInOrder
      <4>6. QED
        BY <4>1, <4>3, <4>4, <4>5
    <3>4. QED
      BY <1>1, <1>2, <2>1, <3>2, <3>3 DEF QueueInv, ServedInOrder
  <2>6. QED
    BY <2>2, <2>3, <2>4, <2>5 DEF IInv
<1>4. CASE responses # <<>>
  <2> DEFINE next == Head(responses)
  <2>1. /\ After(c, Outcome(next.result)) /\ responses' = Tail(responses)
        /\ served' = Append(served, [call |-> c, no |-> next.no])
    BY <1>4 DEF Take
  <2>2. /\ next \in Response /\ next = responses[1] /\ Len(responses) >= 1
        /\ responses' \in Seq(Response) /\ Len(responses') = Len(responses) - 1
        /\ \A i \in 1 .. Len(responses') : responses'[i] = responses[i + 1]
    BY <1>1, <1>4, <2>1, HeadTailProperties
  <2>3. next.no = taken + 1
    BY <1>1, <2>2 DEF ServedInOrder
  <2>4. /\ pc[c] = "recorded"
        /\ \E to \in {"failed", "ended"} : pc' = [pc EXCEPT ![c] = to]
        /\ retries' \in [Calls -> Nat] /\ result' \in [Calls -> Result]
        /\ CallsInv'
    BY <1>2, <2>1, <2>2, AfterStep DEF Response
  <2>5. next.no \in Nat
    BY <2>2 DEF Response
  <2>6. PairInv' /\ served' \in Seq(Serving)
    BY <1>2, <2>1, <2>4, <2>5, PairStep
  <2>7. Typed'
    BY <1>2, <2>2, <2>4, <2>6 DEF IInv, Typed
  <2>8. QueueInv'
    <3>1. /\ Len(served') = Len(served) + 1
          /\ \A i \in 1 .. Len(served) : served'[i] = served[i]
          /\ served'[Len(served) + 1].no = taken + 1
      <4>1. [call |-> c, no |-> next.no] \in Serving
        BY <2>5 DEF Serving
      <4>2. QED
        BY <1>1, <2>1, <2>3, <4>1, AppendProperties
    <3>2. taken' = taken + 1 /\ taken \in Nat /\ Len(responses') <= queued'
      BY <1>1, <1>2, <2>2
    <3>3. DOMAIN served' = DOMAIN served \cup {Len(served) + 1}
      BY <1>1, <2>6, <3>1
    <3>4. {served'[i].no : i \in DOMAIN served'} \ {0} = 1 .. taken'
      <4>1. {served'[i].no : i \in DOMAIN served'} = {served[i].no : i \in DOMAIN served} \cup {taken + 1}
        <5>1. \A i \in DOMAIN served : served'[i].no = served[i].no
          BY <1>1, <3>1
        <5>2. QED
          BY <3>1, <3>3, <5>1
      <4>2. {served[i].no : i \in DOMAIN served} \ {0} = 1 .. taken
        BY <1>1 DEF ServedInOrder
      <4>3. QED
        <5>1. 1 .. taken' = (1 .. taken) \cup {taken + 1} /\ taken + 1 # 0
          BY <3>2
        <5>2. ({served[i].no : i \in DOMAIN served} \cup {taken + 1}) \ {0}
                 = ({served[i].no : i \in DOMAIN served} \ {0}) \cup {taken + 1}
          BY <5>1
        <5>3. QED
          BY <4>1, <4>2, <5>1, <5>2
    <3>5. \A i \in DOMAIN served : served[i].no <= taken
      <4>1. \A i \in DOMAIN served : served[i].no \in 1 .. taken \/ served[i].no = 0
        BY <1>1 DEF ServedInOrder
      <4>2. QED
        BY <3>2, <4>1
    <3>6. \A i, j \in DOMAIN served' : i < j /\ served'[j].no # 0 => served'[i].no < served'[j].no
      <4> SUFFICES ASSUME NEW i \in DOMAIN served', NEW j \in DOMAIN served',
                          i < j, served'[j].no # 0
                   PROVE  served'[i].no < served'[j].no
        OBVIOUS
      <4>1. i \in DOMAIN served
        BY <1>1, <2>6, <3>1
      <4>2. CASE j = Len(served) + 1
        <5>1. served[i].no \in Nat
          <6>1. i \in 1 .. Len(served)
            BY <1>1, <4>1
          <6>2. served[i] \in Serving
            BY <1>1, <6>1, ElementOfSeq
          <6>3. QED
            BY <6>2 DEF Serving
        <5>2. QED
          BY <1>1, <3>1, <3>2, <3>5, <4>1, <4>2, <5>1
      <4>3. CASE j \in DOMAIN served
        BY <1>1, <3>1, <4>1, <4>3 DEF ServedInOrder
      <4>4. QED
        BY <3>3, <4>2, <4>3
    <3>7. \A i \in DOMAIN responses' : responses'[i].no = taken' + i
      <4> SUFFICES ASSUME NEW i \in DOMAIN responses' PROVE responses'[i].no = taken' + i
        OBVIOUS
      <4>1. i \in 1 .. Len(responses') /\ i + 1 \in DOMAIN responses /\ i \in Nat
        BY <1>1, <2>2
      <4>2. responses[i + 1].no = taken + (i + 1)
        BY <1>1, <4>1 DEF ServedInOrder
      <4>3. QED
        BY <2>2, <3>2, <4>1, <4>2
    <3>8. QED
      BY <3>2, <3>4, <3>6, <3>7 DEF QueueInv, ServedInOrder
  <2>9. QED
    BY <2>4, <2>6, <2>7, <2>8 DEF IInv
<1>5. QED
  BY <1>3, <1>4

LEMMA NextIInv == IInv /\ [Next]_vars => IInv'
<1> SUFFICES ASSUME IInv, [Next]_vars PROVE IInv'
  OBVIOUS
<1>1. CASE \E r \in Results : Push(r)
  BY <1>1, PushStep
<1>2. CASE \E c \in Calls : Begin(c) \/ Step(c)
  BY <1>2, BeginStep, RecordStep, TakeStep, SleepStep DEF Step
<1>3. CASE UNCHANGED vars
  BY <1>3 DEF vars, IInv, Typed, CallsInv, PairInv, QueueInv, ServedInOrder
<1>4. QED
  BY <1>1, <1>2, <1>3 DEF Next

LEMMA InvariantHolds == Spec => []IInv
BY InitIInv, NextIInv, PTL DEF Spec

(***************************************************************************)
(* Back-off. Powers of two count the subsets of an interval, which gives   *)
(* their doubling without induction.                                       *)
(***************************************************************************)

LEMMA PowersDouble ==
    /\ 2 ^ 0 = 1
    /\ \A n \in Nat : 2 ^ n \in Nat /\ 2 ^ (n + 1) = 2 * 2 ^ n
<1>1. \A n \in Nat : /\ IsFiniteSet(SUBSET (1 .. n)) /\ 2 ^ n = Cardinality(SUBSET (1 .. n))
                     /\ 2 ^ n \in Nat
  <2> TAKE n \in Nat
  <2>1. IsFiniteSet(1 .. n) /\ Cardinality(1 .. n) = n
    BY FS_Interval
  <2>2. QED
    BY <2>1, FS_SUBSET, FS_CardinalityType
<1>2. 2 ^ 0 = 1
  <2>1. SUBSET (1 .. 0) = {{}}
    OBVIOUS
  <2>2. QED
    BY <1>1, <2>1, FS_Singleton
<1>3. ASSUME NEW n \in Nat PROVE 2 ^ (n + 1) = 2 * 2 ^ n
  <2> DEFINE without == SUBSET (1 .. n)
             with == {T \cup {n + 1} : T \in without}
             adding == [T \in without |-> T \cup {n + 1}]
  <2>1. adding \in Bijection(without, with)
    <3>1. \A T, U \in without : T \cup {n + 1} = U \cup {n + 1} => T = U
      <4>1. n + 1 \notin 1 .. n
        OBVIOUS
      <4>2. QED
        BY <4>1
    <3>2. adding \in [without -> with] /\ \A T \in without : adding[T] = T \cup {n + 1}
      OBVIOUS
    <3>3. \A U \in with : \E T \in without : adding[T] = U
      BY <3>2
    <3> HIDE DEF adding, with, without
    <3>4. adding \in Injection(without, with)
      BY <3>1, <3>2 DEF Injection, IsInjective
    <3>5. adding \in Surjection(without, with)
      BY <3>2, <3>3 DEF Surjection
    <3>6. QED
      BY <3>4, <3>5 DEF Bijection
  <2>2. IsFiniteSet(with) /\ Cardinality(with) = Cardinality(without)
    <3>1. ExistsBijection(without, with)
      BY <2>1 DEF ExistsBijection
    <3>2. QED
      BY <1>1, <3>1, FS_Bijection
  <2>3. SUBSET (1 .. n + 1) = without \cup with
    <3>1. 1 .. n + 1 = (1 .. n) \cup {n + 1}
      OBVIOUS
    <3>2. ASSUME NEW U \in SUBSET (1 .. n + 1), n + 1 \in U PROVE U \in with
      <4>1. U \ {n + 1} \in without /\ U = (U \ {n + 1}) \cup {n + 1}
        BY <3>1, <3>2
      <4>2. QED
        BY <4>1
    <3>3. \A U \in SUBSET (1 .. n + 1) : n + 1 \notin U => U \in without
      BY <3>1
    <3>4. \A U \in without \cup with : U \in SUBSET (1 .. n + 1)
      BY <3>1
    <3>5. QED
      BY <3>2, <3>3, <3>4
  <2>4. without \cap with = {}
    <3>1. n + 1 \notin 1 .. n
      OBVIOUS
    <3>2. QED
      BY <3>1
  <2>5. IsFiniteSet(without) /\ Cardinality(without) = 2 ^ n /\ 2 ^ n \in Nat
    BY <1>1
  <2> HIDE DEF with, without
  <2>6. Cardinality(without \cup with) = Cardinality(without) + Cardinality(with)
    <3>1. Cardinality(without \cup with)
            = Cardinality(without) + Cardinality(with) - Cardinality({})
      BY <2>2, <2>4, <2>5, FS_Union
    <3>2. QED
      BY <2>2, <2>5, <3>1, FS_EmptySet
  <2>7. 2 ^ (n + 1) = Cardinality(SUBSET (1 .. n + 1))
    <3> DEFINE next == n + 1
    <3>1. next \in Nat
      OBVIOUS
    <3> HIDE DEF next
    <3>2. 2 ^ next = Cardinality(SUBSET (1 .. next))
      BY <1>1, <3>1
    <3>3. QED
      BY <3>2, Zenon DEF next
  <2>8. QED
    <3> DEFINE power == 2 ^ n
               next == 2 ^ (n + 1)
    <3>1. next = Cardinality(without \cup with) /\ power \in Nat /\ Cardinality(without) = power
      BY <2>3, <2>5, <2>7, Zenon
    <3> HIDE DEF next, power
    <3>2. next = 2 * power
      BY <2>2, <2>6, <3>1
    <3>3. QED
      BY <3>2, Zenon DEF next, power
<1>4. QED
  BY <1>1, <1>2, <1>3

\* The delays of a policy: the initial one, then twice the one before, up to the
\* maximum, also past the width of the shift.
LEMMA BackoffDoubles ==
    ASSUME NEW p \in RetryPolicies, p.initial_backoff <= p.max_backoff
    PROVE  /\ Backoff(p, 1) = p.initial_backoff
           /\ \A n \in Nat \ {0} :
                 /\ Backoff(p, n) \in Nat
                 /\ Backoff(p, n + 1) =
                       IF n < ShiftWidth THEN Smaller(2 * Backoff(p, n), p.max_backoff)
                       ELSE Backoff(p, n)
<1> DEFINE initial == p.initial_backoff
           most == p.max_backoff
           Cut(product) == IF product \in Durations /\ product <= most THEN product ELSE most
<1>1. /\ initial \in Nat /\ most \in Nat /\ initial <= most
      /\ \A x \in Nat : x <= most => x \in Durations
  BY MaxDurationAssumption DEF RetryPolicies, Durations
<1>2. \A n \in Nat \ {0} :
         /\ n <= ShiftWidth => ShiftedOne(Exponent(n)) = 2 ^ (n - 1)
         /\ n > ShiftWidth => ShiftedOne(Exponent(n)) = 2 ^ (ShiftWidth - 1)
  <2> TAKE n \in Nat \ {0}
  <2> DEFINE e == IF n <= ShiftWidth THEN n - 1 ELSE ShiftWidth - 1
  <2>1. Exponent(n) = e
    BY ShiftWidthAssumption DEF Exponent
  <2>2. e % ShiftWidth = e
    <3>1. e \in 0 .. ShiftWidth - 1
      BY ShiftWidthAssumption
    <3> HIDE DEF e
    <3>2. QED
      BY <3>1, ShiftWidthAssumption
  <2>3. ShiftedOne(Exponent(n)) = 2 ^ e
    BY <2>1, <2>2, Zenon DEF ShiftedOne
  <2>4. QED
    BY <2>3, ShiftWidthAssumption
<1>3. \A n \in Nat \ {0} : Backoff(p, n) = Cut(initial * ShiftedOne(Exponent(n)))
  BY DEF Backoff
<1>4. Backoff(p, 1) = initial
  <2>1. ShiftedOne(Exponent(1)) = 1
    <3>1. ShiftedOne(Exponent(1)) = 2 ^ (1 - 1)
      <4>1. 1 \in Nat \ {0} /\ 1 <= ShiftWidth
        BY ShiftWidthAssumption
      <4>2. QED
        BY <1>2, <4>1, Zenon
    <3>2. 1 - 1 = 0
      OBVIOUS
    <3>3. QED
      BY <3>1, <3>2, PowersDouble, Zenon
  <2>2. QED
    BY <1>1, <1>3, <2>1
<1>5. ASSUME NEW n \in Nat \ {0}
      PROVE  /\ Backoff(p, n) \in Nat
             /\ Backoff(p, n + 1) =
                   IF n < ShiftWidth THEN Smaller(2 * Backoff(p, n), most) ELSE Backoff(p, n)
  <2> DEFINE this == ShiftedOne(Exponent(n))
             next == ShiftedOne(Exponent(n + 1))
  <2>1. Backoff(p, n) = Cut(initial * this) /\ Backoff(p, n + 1) = Cut(initial * next)
    BY <1>3
  <2>2. this \in Nat
    <3>1. \E e \in Nat : this = 2 ^ e
      <4>1. n - 1 \in Nat /\ ShiftWidth - 1 \in Nat /\ (n <= ShiftWidth \/ n > ShiftWidth)
        BY ShiftWidthAssumption
      <4>2. QED
        BY <1>2, <4>1, Zenon
    <3>2. QED
      BY <3>1, PowersDouble, Zenon
  <2>3. CASE n < ShiftWidth
    <3>1. next = 2 * this
      <4>1. /\ this = 2 ^ (n - 1) /\ next = 2 ^ (n + 1 - 1) /\ n - 1 \in Nat
            /\ n + 1 - 1 = (n - 1) + 1
        BY <1>2, <2>3, ShiftWidthAssumption
      <4>2. QED
        BY <4>1, PowersDouble, Zenon
    <3> HIDE DEF this, next
    <3>2. initial * next = 2 * (initial * this) /\ initial * this \in Nat
      BY <1>1, <2>2, <3>1
    <3>3. \A x \in Nat : Cut(x) = Smaller(x, most)
      BY <1>1 DEF Smaller
    <3> DEFINE product == initial * this
    <3>4. Cut(2 * product) = Smaller(2 * Cut(product), most)
      <4>1. product \in Nat
        BY <3>2
      <4> HIDE DEF product, Cut
      <4>2. Smaller(2 * product, most) = Smaller(2 * Smaller(product, most), most)
        BY <1>1, <4>1 DEF Smaller
      <4>3. Cut(product) = Smaller(product, most) /\ Cut(2 * product) = Smaller(2 * product, most)
        BY <3>3, <4>1
      <4>4. QED
        BY <4>2, <4>3
    <3>5. Backoff(p, n + 1) = Smaller(2 * Backoff(p, n), most)
      BY <2>1, <3>2, <3>4, Zenon
    <3>6. n < ShiftWidth => Backoff(p, n + 1) = Smaller(2 * Backoff(p, n), most)
      BY <3>5
    <3>7. Backoff(p, n) \in Nat
      <4>1. Cut(product) \in Nat
        BY <1>1, <3>2, <3>3 DEF Smaller
      <4>2. QED
        BY <2>1, <4>1
    <3>8. QED
      BY <2>3, <3>6, <3>7, Zenon
  <2>4. CASE n >= ShiftWidth
    <3>1. next = this
      BY <1>2, <2>4, ShiftWidthAssumption
    <3> HIDE DEF this, next
    <3>2. initial * this \in Nat
      BY <1>1, <2>2
    <3>3. QED
      BY <1>1, <2>1, <2>4, <3>1, <3>2, ShiftWidthAssumption
  <2>5. QED
    BY <2>3, <2>4, ShiftWidthAssumption
<1>6. QED
  BY <1>4, <1>5

\* How often a call has slept: once before every retry.
Slept == [c \in Calls |-> IF pc[c] = "failed" THEN retries[c] - 1 ELSE retries[c]]

SleepsOf == [c \in Calls |-> {k \in 1 .. Len(sleeps) : sleeps[k].call = c}]

\* The delay of a sleep is that of its number among the sleeps of its call.
SleepInv ==
    /\ \A c \in Calls : pc[c] = "failed" => retries[c] >= 1
    /\ \A c \in Calls : Cardinality(SleepsOf[c]) = Slept[c]
    /\ \A i \in 1 .. Len(sleeps) :
          /\ sleeps[i].call \in Calls \ Writes
          /\ sleeps[i].delay = Backoff(policy[sleeps[i].call], Cardinality(EarlierSleeps(i)) + 1)

LEMMA InitSleep == Init => SleepInv
<1> SUFFICES ASSUME Init PROVE SleepInv
  OBVIOUS
<1>1. Len(sleeps) = 0 /\ 1 .. Len(sleeps) = {}
  BY DEF Init
<1>2. \A c \in Calls : SleepsOf[c] = {} /\ Slept[c] = 0 /\ pc[c] = "new"
  BY <1>1 DEF Init, SleepsOf, Slept
<1>3. QED
  BY <1>1, <1>2, FS_EmptySet DEF SleepInv

\* A step that records no sleep, and changes none of the counts.
LEMMA NoSleep ==
    ASSUME SleepInv, UNCHANGED <<policy, sleeps>>, Slept' = Slept,
           \A c \in Calls : pc'[c] = "failed" => retries'[c] >= 1
    PROVE  SleepInv'
<1>1. SleepsOf' = SleepsOf /\ \A i : EarlierSleeps(i)' = EarlierSleeps(i)
  BY DEF SleepsOf, EarlierSleeps
<1>2. QED
  BY <1>1 DEF SleepInv

\* A retry is counted when it is decided on, and slept before it is made.
LEMMA AfterSleeps ==
    ASSUME IInv, SleepInv, NEW c \in Calls, NEW r, After(c, r)
    PROVE  /\ Slept' = Slept
           /\ \A d \in Calls : pc'[d] = "failed" => retries'[d] >= 1
<1>1. /\ pc \in [Calls -> {"new", "attempt", "recorded", "failed", "ended"}]
      /\ retries \in [Calls -> Nat] /\ pc[c] = "recorded"
      /\ \A d \in Calls : pc[d] = "failed" => retries[d] >= 1
  BY DEF IInv, Typed, After, Move, SleepInv
<1>2. \/ pc' = [pc EXCEPT ![c] = "failed"] /\ retries' = [retries EXCEPT ![c] = @ + 1]
      \/ pc' = [pc EXCEPT ![c] = "ended"] /\ UNCHANGED retries
  BY DEF After, Move
<1>3. \A d \in Calls :
         /\ (IF pc'[d] = "failed" THEN retries'[d] - 1 ELSE retries'[d])
               = IF pc[d] = "failed" THEN retries[d] - 1 ELSE retries[d]
         /\ pc'[d] = "failed" => retries'[d] >= 1
  <2> TAKE d \in Calls
  <2>1. CASE d = c
    BY <1>1, <1>2, <2>1
  <2>2. CASE d # c
    BY <1>1, <1>2, <2>2
  <2>3. QED
    BY <2>1, <2>2
<1>4. QED
  BY <1>3 DEF Slept

\* One more sleep of its call, with the next delay.
LEMMA SleepSleeps ==
    ASSUME IInv, SleepInv, NEW c \in Calls, Sleep(c)
    PROVE  SleepInv'
<1> DEFINE last == Len(sleeps) + 1
           slept == [call |-> c, delay |-> Backoff(policy[c], retries[c])]
<1>1. /\ pc[c] = "failed" /\ pc' = [pc EXCEPT ![c] = "attempt"]
      /\ sleeps' = Append(sleeps, slept)
      /\ UNCHANGED <<policy, retries>>
  BY DEF Sleep, Move
<1>2. /\ sleeps \in Seq(Delay) /\ Len(sleeps) \in Nat /\ c \notin Writes
      /\ pc \in [Calls -> {"new", "attempt", "recorded", "failed", "ended"}]
      /\ retries \in [Calls -> Nat] /\ retries[c] >= 1
  BY <1>1 DEF IInv, Typed, CallsInv, SleepInv
<1>3. /\ Len(sleeps') = last /\ sleeps'[last] = slept
      /\ \A i \in 1 .. Len(sleeps) : sleeps'[i] = sleeps[i]
  <2>1. slept \in Delay
    BY <1>1, SleptTyped
  <2>2. QED
    BY <1>1, <1>2, <2>1, AppendProperties
<1> DEFINE earlier == [i \in 1 .. last |-> {k \in 1 .. i - 1 : sleeps'[k].call = sleeps'[i].call}]
<1>4. \A i \in 1 .. Len(sleeps) : earlier[i] = EarlierSleeps(i)
  <2> TAKE i \in 1 .. Len(sleeps)
  <2>1. i \in 1 .. last /\ \A k \in 1 .. i - 1 : k \in 1 .. Len(sleeps)
    BY <1>2
  <2>2. earlier[i] = {k \in 1 .. i - 1 : sleeps'[k].call = sleeps'[i].call}
    BY <2>1
  <2>3. QED
    BY <1>3, <2>1, <2>2 DEF EarlierSleeps
<1>5. earlier[last] = SleepsOf[c]
  <2>1. last - 1 = Len(sleeps) /\ last \in 1 .. last
    BY <1>2
  <2>2. earlier[last] = {k \in 1 .. Len(sleeps) : sleeps'[k].call = c}
    BY <1>3, <2>1
  <2>3. QED
    BY <1>3, <2>2 DEF SleepsOf
<1>6. \A d \in Calls : SleepsOf'[d] = IF d = c THEN SleepsOf[c] \cup {last} ELSE SleepsOf[d]
  <2> TAKE d \in Calls
  <2>1. SleepsOf'[d] = {k \in 1 .. last : sleeps'[k].call = d}
    BY <1>3 DEF SleepsOf
  <2>2. SleepsOf[d] = {k \in 1 .. Len(sleeps) : sleeps[k].call = d}
    BY DEF SleepsOf
  <2>3. 1 .. last = (1 .. Len(sleeps)) \cup {last} /\ slept.call = c
    BY <1>2
  <2> HIDE DEF last, slept
  <2>4. QED
    BY <1>3, <2>1, <2>2, <2>3
<1>7. /\ IsFiniteSet(SleepsOf[c]) /\ Cardinality(SleepsOf[c]) = retries[c] - 1
      /\ last \notin SleepsOf[c]
  <2>1. SleepsOf[c] \subseteq 1 .. Len(sleeps)
    BY DEF SleepsOf
  <2>2. IsFiniteSet(1 .. Len(sleeps))
    BY <1>2, FS_Interval
  <2>3. Cardinality(SleepsOf[c]) = retries[c] - 1
    BY <1>1 DEF SleepInv, Slept
  <2>4. QED
    BY <1>2, <2>1, <2>2, <2>3, FS_Subset
<1>8. \A d \in Calls : Cardinality(SleepsOf'[d]) = Slept'[d]
  <2> TAKE d \in Calls
  <2>1. CASE d = c
    <3>1. Cardinality(SleepsOf[c] \cup {last}) = Cardinality(SleepsOf[c]) + 1
      BY <1>7, FS_AddElement
    <3>2. Slept'[c] = retries[c]
      BY <1>1, <1>2 DEF Slept
    <3>3. QED
      BY <1>2, <1>6, <1>7, <2>1, <3>1, <3>2
  <2>2. CASE d # c
    <3>1. Slept'[d] = Slept[d]
      BY <1>1, <1>2, <2>2 DEF Slept
    <3>2. QED
      BY <1>6, <2>2, <3>1 DEF SleepInv
  <2>3. QED
    BY <2>1, <2>2
<1>9. \A i \in 1 .. last :
         /\ sleeps'[i].call \in Calls \ Writes
         /\ sleeps'[i].delay = Backoff(policy[sleeps'[i].call], Cardinality(earlier[i]) + 1)
  <2> TAKE i \in 1 .. last
  <2>1. CASE i = last
    <3>1. retries[c] - 1 + 1 = retries[c]
      BY <1>2
    <3>2. sleeps'[i].call = c /\ sleeps'[i].delay = Backoff(policy[c], retries[c])
      BY <1>3, <2>1
    <3>3. Cardinality(earlier[i]) + 1 = retries[c]
      BY <1>5, <1>7, <2>1, <3>1
    <3>4. QED
      BY <1>2, <3>2, <3>3
  <2>2. CASE i # last
    <3>1. i \in 1 .. Len(sleeps)
      BY <1>2, <2>2
    <3>2. QED
      BY <1>3, <1>4, <3>1 DEF SleepInv
  <2>3. QED
    BY <2>1, <2>2
<1>10. \A d \in Calls : pc'[d] = "failed" => retries'[d] >= 1
  BY <1>1, <1>2 DEF SleepInv
<1>11. \A i \in 1 .. last : EarlierSleeps(i)' = earlier[i]
  BY DEF EarlierSleeps
<1> HIDE DEF earlier
<1>12. QED
  BY <1>1, <1>3, <1>8, <1>9, <1>10, <1>11 DEF SleepInv

LEMMA NextSleep == IInv /\ SleepInv /\ [Next]_vars => SleepInv'
<1> SUFFICES ASSUME IInv, SleepInv, [Next]_vars PROVE SleepInv'
  OBVIOUS
<1>1. /\ pc \in [Calls -> {"new", "attempt", "recorded", "failed", "ended"}]
      /\ \A c \in Calls : pc[c] = "failed" => retries[c] >= 1
  BY DEF IInv, Typed, SleepInv
<1>2. CASE UNCHANGED <<policy, pc, retries, sleeps>>
  BY <1>1, <1>2, NoSleep DEF Slept
<1>3. ASSUME NEW c \in Calls, Begin(c) \/ Record(c) PROVE SleepInv'
  <2>1. /\ pc[c] \in {"new", "attempt"} /\ UNCHANGED <<policy, retries, sleeps>>
        /\ \E to \in {"attempt", "recorded"} : pc' = [pc EXCEPT ![c] = to]
    BY <1>3 DEF Begin, Record, Move
  <2>2. \A d \in Calls : pc'[d] = "failed" <=> pc[d] = "failed"
    BY <1>1, <2>1
  <2>3. Slept' = Slept
    BY <2>1, <2>2 DEF Slept
  <2>4. QED
    BY <1>1, <2>1, <2>2, <2>3, NoSleep
<1>4. ASSUME NEW c \in Calls, Take(c) PROVE SleepInv'
  <2>1. /\ UNCHANGED <<policy, sleeps>> /\ \E r : After(c, r)
    BY <1>4 DEF Take
  <2>2. QED
    BY <2>1, AfterSleeps, NoSleep
<1>5. QED
  <2>1. CASE \E r \in Results : Push(r)
    BY <1>2, <2>1 DEF Push
  <2>2. CASE \E c \in Calls : Begin(c) \/ Step(c)
    BY <1>3, <1>4, <2>2, SleepSleeps DEF Step
  <2>3. QED
    BY <1>2, <2>1, <2>2 DEF Next, vars

LEMMA SleepHolds == Spec => [](IInv /\ SleepInv)
BY InitIInv, NextIInv, InitSleep, NextSleep, PTL DEF Spec

(***************************************************************************)
(* Theorems.                                                               *)
(***************************************************************************)

\* The variables of MockTransport keep their types: no read exceeds its policy,
\* no back-off is longer than a Duration and no body larger than the limit is
\* served (transport.rs 336-354).
THEOREM TypeCorrect == Spec => []TypeOK
<1>1. IInv => TypeOK
  <2> SUFFICES ASSUME IInv PROVE TypeOK
    OBVIOUS
  <2>1. \A i \in DOMAIN responses : responses[i].result \in Results
    <3>1. responses \in Seq(Response) /\ DOMAIN responses = 1 .. Len(responses)
      BY DEF IInv, Typed
    <3>2. QED
      <4>1. \A i \in 1 .. Len(responses) : responses[i] \in Response
        BY <3>1, ElementOfSeq
      <4>2. QED
        BY <3>1, <4>1 DEF Response
  <2>2. \A i \in DOMAIN sleeps : sleeps[i].delay \in Durations
    <3>1. sleeps \in Seq(Delay) /\ DOMAIN sleeps = 1 .. Len(sleeps)
      BY DEF IInv, Typed
    <3>2. QED
      <4>1. \A i \in 1 .. Len(sleeps) : sleeps[i] \in Delay
        BY <3>1, ElementOfSeq
      <4>2. QED
        BY <3>1, <4>1 DEF Delay
  <2>3. \A c \in Calls : retries[c] \in 0 .. IF c \in Writes THEN 0 ELSE policy[c].max_retries
    <3>1. \A c \in Calls \ Writes : policy[c].max_retries \in Nat
      BY PoliciesAssumption DEF IInv, Typed, RetryPolicies
    <3>2. QED
      BY <3>1 DEF IInv, Typed, CallsInv
  <2>4. QED
    BY <2>1, <2>2, <2>3 DEF IInv, Typed, CallsInv, TypeOK
<1>2. QED
  BY InvariantHolds, <1>1, PTL

\* Responses are served in the order they were queued, once each, to any number
\* of concurrent calls (transport.rs 336-346).
THEOREM OrderIsKept == Spec => []ServedInOrder
<1>1. IInv => ServedInOrder
  BY DEF IInv, QueueInv
<1>2. QED
  BY InvariantHolds, <1>1, PTL

\* While no attempt begins between the two locks of another, requests and
\* responses pair up (transport.rs 315-354).
THEOREM Paired == Spec => []PairedUnlessOverlapped
<1>1. IInv => PairedUnlessOverlapped
  <2> SUFFICES ASSUME IInv, ~overlapped, NEW i \in DOMAIN requests
               PROVE  IF i <= Len(served) THEN requests[i] = served[i].call
                      ELSE pc[requests[i]] = "recorded"
    BY DEF PairedUnlessOverlapped
  <2>1. /\ i \in 1 .. Len(requests) /\ Len(served) \in Nat /\ Len(requests) \in Nat
        /\ requests[i] \in Calls
    BY ElementOfSeq DEF IInv, Typed
  <2>2. QED
    BY <2>1 DEF IInv, PairInv
<1>2. QED
  BY InvariantHolds, <1>1, PTL

\* The delay of each back-off of a read follows from the one before it, for any
\* policy, width of the shift and longest Duration: twice that, up to the
\* maximum, until there were as many as the shift is wide; after that the same,
\* which is below the maximum if the doublings did not reach it (config.rs
\* 257-263, client.rs 422-441).
THEOREM BackoffsDouble == Spec => []DoublesThenStays
<1>1. IInv /\ SleepInv => DoublesThenStays
  <2> SUFFICES ASSUME IInv, SleepInv, NEW i \in DOMAIN sleeps
               PROVE  /\ sleeps[i].call \notin Writes
                      /\ EarlierSleeps(i) = {} =>
                            sleeps[i].delay = policy[sleeps[i].call].initial_backoff
                      /\ \A k \in EarlierSleeps(i) : EarlierSleeps(i) \subseteq 1 .. k =>
                            sleeps[i].delay =
                               IF Cardinality(EarlierSleeps(i)) < ShiftWidth
                               THEN Smaller(2 * sleeps[k].delay,
                                            policy[sleeps[i].call].max_backoff)
                               ELSE sleeps[k].delay
    BY DEF DoublesThenStays
  <2> DEFINE c == sleeps[i].call
             Delayed(k) == Cardinality(EarlierSleeps(k)) + 1
  <2>1. /\ DOMAIN sleeps = 1 .. Len(sleeps) /\ Len(sleeps) \in Nat /\ c \in Calls \ Writes
        /\ \A k \in 1 .. Len(sleeps) :
              sleeps[k].call = c => sleeps[k].delay = Backoff(policy[c], Delayed(k))
    BY DEF IInv, Typed, SleepInv
  <2>2. policy[c] \in RetryPolicies /\ policy[c].initial_backoff <= policy[c].max_backoff
    BY <2>1, PoliciesAssumption DEF IInv, Typed
  <2>3. \A k \in 1 .. Len(sleeps) :
           IsFiniteSet(EarlierSleeps(k)) /\ Cardinality(EarlierSleeps(k)) \in Nat
    <3> TAKE k \in 1 .. Len(sleeps)
    <3>1. IsFiniteSet(1 .. k - 1) /\ EarlierSleeps(k) \subseteq 1 .. k - 1
      BY FS_Interval DEF EarlierSleeps
    <3>2. QED
      BY <3>1, FS_Subset, FS_CardinalityType
  <2>4. ASSUME EarlierSleeps(i) = {} PROVE sleeps[i].delay = policy[c].initial_backoff
    <3>1. Delayed(i) = 1
      BY <2>4, FS_EmptySet
    <3>2. QED
      BY <2>1, <2>2, <3>1, BackoffDoubles
  <2>5. ASSUME NEW k \in EarlierSleeps(i), EarlierSleeps(i) \subseteq 1 .. k
        PROVE  sleeps[i].delay = IF Cardinality(EarlierSleeps(i)) < ShiftWidth
                                 THEN Smaller(2 * sleeps[k].delay, policy[c].max_backoff)
                                 ELSE sleeps[k].delay
    <3>1. k \in 1 .. Len(sleeps) /\ k < i /\ sleeps[k].call = c
      BY <2>1 DEF EarlierSleeps
    <3>2. EarlierSleeps(i) = EarlierSleeps(k) \cup {k} /\ k \notin EarlierSleeps(k)
      BY <2>1, <2>5, <3>1 DEF EarlierSleeps
    <3>3. Cardinality(EarlierSleeps(i)) = Delayed(k)
      BY <2>3, <3>1, <3>2, FS_AddElement
    <3>4. Delayed(i) = Delayed(k) + 1 /\ Delayed(k) \in Nat \ {0}
      BY <2>3, <3>1, <3>3
    <3>5. QED
      BY <2>1, <2>2, <3>1, <3>3, <3>4, BackoffDoubles
  <2>6. QED
    BY <2>1, <2>4, <2>5
<1>2. QED
  BY SleepHolds, <1>1, PTL

============================================================================
