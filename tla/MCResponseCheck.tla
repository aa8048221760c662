--------------------------- MODULE MCResponseCheck --------------------------
(* Orders of two merchants, two of them with the same order number.         *)

EXTENDS ResponseCheck, TLC

MCBooks ==
    ("T1" :> [pid |-> 7, out_trade_no |-> "A", money |-> "9.90"]) @@
    ("T2" :> [pid |-> 7, out_trade_no |-> "B", money |-> "0.01"]) @@
    ("T3" :> [pid |-> 8, out_trade_no |-> "A", money |-> "9.90"])

MCDecimals == ("9.90" :> 9900) @@ ("0.01" :> 10) @@ ("0.00" :> 0) @@ ("-1.00" :> -1000)

=============================================================================
