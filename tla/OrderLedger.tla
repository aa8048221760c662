---------------------------- MODULE OrderLedger -----------------------------
(***************************************************************************)
(* What a merchant may rely on in the server of the example, without       *)
(* handlers, calls, trades or notifications: an order is entered before it *)
(* can be paid here, it is recorded as paid only after it was paid in      *)
(* full, in one step with the acknowledgement, and stays so; a restart     *)
(* forgets every order that was entered, and none is entered twice.        *)
(***************************************************************************)

EXTENDS Naturals

CONSTANT Orders

VARIABLES
    full,         \* whether the order was paid in full
    record,       \* "none", "open", "paid", or "lost" in a restart
    acknowledged  \* "no", "given" by the server, "heard" by the gateway

ledgerVars == <<full, record, acknowledged>>

Init ==
    /\ full = [o \in Orders |-> FALSE]
    /\ record = [o \in Orders |-> "none"]
    /\ acknowledged = [o \in Orders |-> "no"]

PayInFull(o) ==
    /\ full' = [full EXCEPT ![o] = TRUE]
    /\ UNCHANGED <<record, acknowledged>>

Enter(o) ==
    /\ record[o] = "none"
    /\ record' = [record EXCEPT ![o] = "open"]
    /\ UNCHANGED <<full, acknowledged>>

Record(o) ==
    /\ full[o]
    /\ record[o] = "open"
    /\ record' = [record EXCEPT ![o] = "paid"]
    /\ acknowledged' = [acknowledged EXCEPT ![o] = IF @ = "no" THEN "given" ELSE @]
    /\ UNCHANGED full

Hear(o) ==
    /\ acknowledged[o] = "given"
    /\ acknowledged' = [acknowledged EXCEPT ![o] = "heard"]
    /\ UNCHANGED <<full, record>>

Restart ==
    /\ record' = [o \in Orders |-> IF record[o] = "none" THEN "none" ELSE "lost"]
    /\ UNCHANGED <<full, acknowledged>>

Next == Restart \/ \E o \in Orders : PayInFull(o) \/ Enter(o) \/ Record(o) \/ Hear(o)

Spec == Init /\ [][Next]_ledgerVars

=============================================================================
