------------------------------- MODULE Money --------------------------------
(***************************************************************************)
(* Amounts of money. A decimal is a number of thousandths of a yuan (the   *)
(* model's finest amount), a Money a positive number of fen (hundredths);  *)
(* what a constructor refuses is one of the values below 1.                *)
(***************************************************************************)

EXTENDS Integers

CONSTANT MaxFen   \* the largest amount try_to_fen can return (i64::MAX)

ASSUME MaxFenAssumption == MaxFen \in Nat

Moneys == Nat \ {0}

Invalid == 0      \* INVALID_MONEY
Imprecise == -1   \* INVALID_MONEY_PRECISION
OutOfRange == -2  \* MONEY_OUT_OF_RANGE

\* The nearest fen; from the middle, away from zero.
Rounded(decimal) ==
    IF decimal >= 0 THEN (decimal + 5) \div 10 ELSE -((5 - decimal) \div 10)

\* Fault: an inexact amount is rounded instead of refused.
NewLenient(decimal) == IF decimal <= 0 THEN Invalid ELSE Rounded(decimal)

\* Money::new, from_yuan_str, try_from_f64: exact or refused.
New(decimal) ==
    IF decimal <= 0 THEN Invalid
    ELSE IF 10 * Rounded(decimal) # decimal THEN Imprecise
    ELSE Rounded(decimal)

\* new_rounded, from_yuan_str_rounded, try_from_f64_rounded.
NewRounded(decimal) == IF Rounded(decimal) <= 0 THEN Invalid ELSE Rounded(decimal)

FromFen(fen) == IF fen <= 0 THEN Invalid ELSE New(10 * fen)

\* Money as a member of a JSON document: a text or a whole number of yuan; a
\* float is refused, because it has been rounded already.
FromJson(form, decimal) == IF form \in {"string", "integer"} THEN New(decimal) ELSE Invalid

TryToFen(money) == IF money <= MaxFen THEN money ELSE OutOfRange

=============================================================================
