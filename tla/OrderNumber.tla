---------------------------- MODULE OrderNumber -----------------------------
(***************************************************************************)
(* generate_out_trade_no under concurrent callers: a thread reads the      *)
(* clock, then takes the next value of the sequence, which is shared and   *)
(* wraps with its integer. The clock is external: it may stand still, jump *)
(* ahead, step back and even show a time before the epoch.                 *)
(*                                                                         *)
(* The number is the time followed by the sequence in four digits, with    *)
(* Modulus = 10000 the number time * Modulus + sequence, after a prefix    *)
(* that the application passes.                                            *)
(***************************************************************************)

EXTENDS Integers, Sequences

CONSTANTS
    Threads,
    Width,     \* values of the counter's integer type (2^32)
    Modulus,   \* 10000
    MaxClock,  \* bound: times looked at
    Prefixes,  \* prefixes, and whether a number that begins with one is valid
    NoNumber

ASSUME WidthAssumption == Width \in Nat /\ Modulus \in Nat \ {0} /\ Modulus <= Width
ASSUME ClockAssumption == MaxClock \in Nat
ASSUME NoNumberAssumption == NoNumber \notin Nat

VARIABLES
    clock,     \* nanoseconds since the epoch, negative before it
    counter,   \* SEQUENCE
    nanos,     \* of each thread: the time it has read, or NoNumber
    recent,    \* history: the last SafeDraws numbers, in the order of their draws
    returned   \* of each thread: "none", "ok" or "err"

numberVars == <<clock, counter, nanos, recent, returned>>

\* So many successive draws of the sequence differ: where the counter wraps, it
\* begins anew before the sequence is through.
SafeDraws == IF Width % Modulus = 0 THEN Modulus ELSE Width % Modulus

NumberInit ==
    /\ clock \in -1 .. MaxClock
    /\ counter = 0
    /\ nanos = [t \in Threads |-> NoNumber]
    /\ recent = <<>>
    /\ returned = [t \in Threads |-> "none"]

\* The clock is set or goes on.
SetClock(time) ==
    /\ clock' = time
    /\ UNCHANGED <<counter, nanos, recent, returned>>

\* A thread reads the clock; before the epoch it gives up.
ReadClock(t) ==
    /\ nanos[t] = NoNumber
    /\ IF clock < 0
       THEN returned' = [returned EXCEPT ![t] = "err"] /\ UNCHANGED nanos
       ELSE nanos' = [nanos EXCEPT ![t] = clock] /\ UNCHANGED returned
    /\ UNCHANGED <<clock, counter, recent>>

\* Fault: the counter stays at its largest value.
SuccessorSaturates == IF counter + 1 < Width THEN counter + 1 ELSE counter

\* fetch_add wraps.
Successor == IF counter + 1 < Width THEN counter + 1 ELSE 0

Number(time, sequence) == time * Modulus + sequence

Latest(numbers) == IF Len(numbers) > SafeDraws THEN Tail(numbers) ELSE numbers

Sequence(value) == value % Modulus

\* fetch_add and what is made of it; the number is checked after the draw.
Draw(t, prefix) ==
    /\ nanos[t] # NoNumber
    /\ counter' = Successor
    /\ recent' = Latest(Append(recent, Number(nanos[t], Sequence(counter))))
    /\ nanos' = [nanos EXCEPT ![t] = NoNumber]
    /\ returned' = [returned EXCEPT ![t] = IF Prefixes[prefix] THEN "ok" ELSE "err"]
    /\ UNCHANGED clock

NumberNext ==
    \/ \E time \in -1 .. MaxClock : SetClock(time)
    \/ \E t \in Threads : ReadClock(t) \/ \E prefix \in DOMAIN Prefixes : Draw(t, prefix)

NumberSpec == NumberInit /\ [][NumberNext]_numberVars

-----------------------------------------------------------------------------
(* Properties *)

NumberTypeOK ==
    /\ clock \in -1 .. MaxClock
    /\ counter \in 0 .. Width - 1
    /\ nanos \in [Threads -> 0 .. MaxClock \cup {NoNumber}]
    /\ recent \in Seq(Nat) /\ Len(recent) <= SafeDraws
    /\ returned \in [Threads -> {"none", "ok", "err"}]

\* Any SafeDraws successive numbers (7296 for 2^32 and 10000) differ, whichever threads drew them and whatever the clock did
\* meanwhile, also across a wrap of the counter (order.rs 238-253).
RecentDiffer ==
    \A i, j \in DOMAIN recent : i # j => recent[i] # recent[j]

=============================================================================
