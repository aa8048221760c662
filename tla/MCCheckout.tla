----------------------------- MODULE MCCheckout -----------------------------
(***************************************************************************)
(* A small instance of Checkout for TLC. Amounts are only compared for     *)
(* equality, so some order may be taken to cost the first of them; the     *)
(* others cost the same or another amount.                                 *)
(***************************************************************************)

EXTENDS Checkout

MCPriceLists == {list \in [Orders -> Amounts] : list[CHOOSE o \in Orders : TRUE] = 1}

=============================================================================
