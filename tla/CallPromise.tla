----------------------------- MODULE CallPromise -----------------------------
(***************************************************************************)
(* What a gateway call promises its caller, without attempts, timeouts or  *)
(* answers: the call opens and closes once, with one of five ends.         *)
(*                                                                         *)
(*   ok         the operation was executed                                 *)
(*   refused    a write was not executed and never will be                 *)
(*   unknown    a write may have been executed, or may still be            *)
(*   abandoned  the caller stopped waiting; like unknown                   *)
(*                                                                         *)
(* A write (a payment or a refund) is executed at most once; a read may be *)
(* executed any number of times.                                           *)
(***************************************************************************)

EXTENDS Integers

CONSTANT Calls

VARIABLES
    isRead,    \* whether the call only reads
    stage,     \* "new", "open" or the call's end
    executed   \* how often the operation was executed

promiseVars == <<isRead, stage, executed>>

Init ==
    /\ isRead \in [Calls -> BOOLEAN]
    /\ stage = [c \in Calls |-> "new"]
    /\ executed = [c \in Calls |-> 0]

Move(c, from, to) == stage[c] = from /\ stage' = [stage EXCEPT ![c] = to]

Open(c) == Move(c, "new", "open") /\ UNCHANGED <<isRead, executed>>

Invalid(c) == Move(c, "new", "refused") /\ UNCHANGED <<isRead, executed>>

Succeed(c) ==
    /\ executed[c] > 0
    /\ Move(c, "open", "ok")
    /\ UNCHANGED <<isRead, executed>>

Refuse(c) ==
    /\ ~isRead[c] => executed[c] = 0
    /\ Move(c, "open", "refused")
    /\ UNCHANGED <<isRead, executed>>

Fail(c) == Move(c, "open", "unknown") /\ UNCHANGED <<isRead, executed>>

Abandon(c) == Move(c, "open", "abandoned") /\ UNCHANGED <<isRead, executed>>

\* Also after the call has ended without a definite answer.
Execute(c) ==
    /\ stage[c] # "new"
    /\ ~isRead[c] => executed[c] = 0 /\ stage[c] # "refused"
    /\ executed' = [executed EXCEPT ![c] = @ + 1]
    /\ UNCHANGED <<stage, isRead>>

Next == \E c \in Calls :
    \/ Open(c) \/ Invalid(c)
    \/ Succeed(c) \/ Refuse(c) \/ Fail(c) \/ Abandon(c)
    \/ Execute(c)

Spec == Init /\ [][Next]_promiseVars

=============================================================================
