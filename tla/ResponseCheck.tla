--------------------------- MODULE ResponseCheck ----------------------------
(***************************************************************************)
(* The payload of an answer that reports success: it is decoded with the   *)
(* tolerance PHP gateways need, then checked against the request and the   *)
(* configured pid before a call returns it. Transport and envelope are in  *)
(* GatewayCall.                                                            *)
(*                                                                         *)
(* The gateway is external. It keeps the orders of several merchants; an   *)
(* order number is unique only within its merchant. An answer may be about *)
(* another order than the one asked for (a cache, a fork that ignores a    *)
(* parameter), it is as old as the moment it was composed, and its columns *)
(* may be written in several ways or be damaged.                           *)
(***************************************************************************)

EXTENDS Money, Sequences

CONSTANTS
    Pid,        \* the configured pid
    TradeNos, OrderNos, \* well-formed numbers, of orders and of none
    Books,      \* gateway: its orders, by trade number: pid, order number, amount
    Decimals,   \* amount texts and the decimals they denote
    Balances,   \* texts of balances and settled amounts
    Links,      \* texts of payment destinations
    IntForms, TextForms, \* how columns may be written
    MaxI32,     \* the largest i32
    Garbled     \* a column that cannot be decoded

ASSUME PidAssumption == Pid \in Nat \ {0}
\* Numbers are not empty, and a merchant's order numbers differ.
ASSUME BooksAssumption ==
    /\ "" \notin TradeNos \cup OrderNos /\ DOMAIN Books \subseteq TradeNos
    /\ \A t \in DOMAIN Books : Books[t].pid \in Nat \ {0} /\ Books[t].out_trade_no \in OrderNos
    /\ \A t, u \in DOMAIN Books :
          t # u => <<Books[t].pid, Books[t].out_trade_no>> # <<Books[u].pid, Books[u].out_trade_no>>
\* The gateway keeps amounts of whole fen.
ASSUME AmountsAssumption ==
    \A t \in DOMAIN Books : /\ Books[t].money \in DOMAIN Decimals /\ Decimals[Books[t].money] \in Int
                           /\ New(Decimals[Books[t].money]) \in Moneys
\* An i32 holds every status an order has at the gateway.
ASSUME IntegersAssumption == Garbled \notin Int /\ MaxI32 \in Nat /\ MaxI32 >= 3
ASSUME GarbledAssumption ==
    /\ Garbled \notin {"", "note"} \cup DOMAIN Books
    /\ \A t \in DOMAIN Books : Garbled \notin {Books[t].out_trade_no, Books[t].money}

VARIABLES
    status,   \* of each order at the gateway: 0 unpaid, 1 paid, 2 reversed, 3 closed unpaid
    asked,    \* the request under way
    answer,   \* its payload as it was composed
    verdict   \* "none" before the call ended, "ok", "Param" or "InvalidResponse"

vars == <<status, asked, answer, verdict>>

Nothing == [endpoint |-> "none", trade_no |-> "", out_trade_no |-> ""]

NoAnswer == [rows |-> <<>>, count |-> [form |-> "missing", value |-> 0]]

Init ==
    /\ status = [t \in DOMAIN Books |-> 0]
    /\ asked = Nothing
    /\ answer = NoAnswer
    /\ verdict = "none"

-----------------------------------------------------------------------------
(* Columns *)

\* Fault: numbers and numeric strings only, besides null.
FlexIntStrict(column) ==
    CASE column.form \in {"number", "string"} -> column.value
      [] column.form \in {"null", "missing"} -> 0
      [] OTHER -> Garbled

\* An integer may come as a number, a numeric string or a float without a
\* fraction; null, "" and a missing column are 0.
FlexInt(column) ==
    CASE column.form \in {"number", "string", "float"} -> column.value
      [] column.form \in {"null", "missing", "empty"} -> 0
      [] OTHER -> Garbled

FlexI32(column) == IF FlexInt(column) \in -MaxI32 - 1 .. MaxI32 THEN FlexInt(column) ELSE Garbled

FlexU64(column) == IF FlexInt(column) # Garbled /\ FlexInt(column) < 0 THEN Garbled ELSE FlexInt(column)

\* A text comes as a string; null and a missing column are empty.
DefaultOnNull(column) ==
    CASE column.form = "text" -> column.value
      [] column.form \in {"null", "missing"} -> ""
      [] OTHER -> Garbled

DecimalOf(text) == IF text \in DOMAIN Decimals THEN Decimals[text] ELSE Garbled

Order(row) ==
    [trade_no |-> DefaultOnNull(row.trade_no), out_trade_no |-> DefaultOnNull(row.out_trade_no),
     pid |-> FlexU64(row.pid), money |-> DefaultOnNull(row.money), status |-> FlexI32(row.status),
     param |-> DefaultOnNull(row.param)]

Merchant(row) == [pid |-> FlexU64(row.pid), money |-> DefaultOnNull(row.money)]

Settlement(row) == [uid |-> FlexU64(row.pid), money |-> DefaultOnNull(row.money)]

Payment(row) ==
    [trade_no |-> DefaultOnNull(row.trade_no), pay_url |-> DefaultOnNull(row.pay_url),
     qr_code |-> DefaultOnNull(row.qr_code), url_scheme |-> DefaultOnNull(row.url_scheme)]

Refund(row) == [msg |-> DefaultOnNull(row.msg)]

Fits(payload) == \A k \in DOMAIN payload : payload[k] # Garbled

-----------------------------------------------------------------------------
(* Accessors and validation *)

TradeNoSound(no) == no \in TradeNos
OrderNoSound(no) == no \in OrderNos

\* OrderDetail::amount, MerchantInfo::balance.
Amount(order) == IF DecimalOf(order.money) = Garbled THEN Invalid ELSE New(DecimalOf(order.money))
Balance(row) == DecimalOf(row.money)

\* Fault: whatever is not unpaid is paid.
IsPaidUnlessUnpaid(order) == order.status # 0

\* OrderStatus::is_paid.
IsPaid(order) == order.status = 1

\* PaymentResponse::destinations.
Destinations(payment) ==
    SelectSeq(<<payment.pay_url, payment.qr_code, payment.url_scheme>>, LAMBDA link : link \notin {"", " "})

\* Fault: the order number is taken for unique.
ValidRowAnyPid(order) ==
    /\ TradeNoSound(order.trade_no)
    /\ OrderNoSound(order.out_trade_no)
    /\ Amount(order) \in Moneys

\* OrderDetail::validate_row.
ValidRow(order) ==
    /\ TradeNoSound(order.trade_no)
    /\ OrderNoSound(order.out_trade_no)
    /\ order.pid = Pid
    /\ Amount(order) \in Moneys

ValidOrder(order) ==
    /\ IF asked.trade_no # "" THEN order.trade_no = asked.trade_no
       ELSE order.out_trade_no = asked.out_trade_no
    /\ ValidRow(order)

\* A balance or a settled amount.
NotNegative(row) == Balance(row) # Garbled /\ Balance(row) >= 0

ValidMerchant(merchant) == merchant.pid = Pid /\ NotNegative(merchant)

\* Fault: the uid is left to the gateway.
ValidSettlementAnyUid(settlement) == NotNegative(settlement)

\* Some forks leave out the uid of a settlement.
ValidSettlement(settlement) == settlement.uid \in {0, Pid} /\ NotNegative(settlement)

ValidPayment(payment) == TradeNoSound(payment.trade_no) /\ Destinations(payment) # <<>>

\* The rows of an answer as the endpoint's structs.
Decoded ==
    [i \in DOMAIN answer.rows |->
        CASE asked.endpoint \in {"QueryOrder", "QueryOrders"} -> Order(answer.rows[i])
          [] asked.endpoint = "QueryMerchant" -> Merchant(answer.rows[i])
          [] asked.endpoint = "QuerySettlements" -> Settlement(answer.rows[i])
          [] asked.endpoint = "CreatePayment" -> Payment(answer.rows[i])
          [] asked.endpoint = "Refund" -> Refund(answer.rows[i])]

Valid(payload) ==
    CASE asked.endpoint = "QueryOrder" -> ValidOrder(payload)
      [] asked.endpoint = "QueryOrders" -> ValidRow(payload)
      [] asked.endpoint = "QueryMerchant" -> ValidMerchant(payload)
      [] asked.endpoint = "QuerySettlements" -> ValidSettlement(payload)
      [] asked.endpoint = "CreatePayment" -> ValidPayment(payload)
      [] asked.endpoint = "Refund" -> TRUE

-----------------------------------------------------------------------------
(* Steps *)

Lists == {"QueryOrders", "QuerySettlements"}

\* exactly_one_identifier; an empty number is none.
Identified(trade_no, out_trade_no) ==
    \/ TradeNoSound(trade_no) /\ out_trade_no = ""
    \/ OrderNoSound(out_trade_no) /\ trade_no = ""

\* OrderQueryRequest and RefundRequest: an order is named by one number.
AskOrder(endpoint, trade_no, out_trade_no) ==
    /\ asked = Nothing
    /\ asked' = [endpoint |-> endpoint, trade_no |-> trade_no, out_trade_no |-> out_trade_no]
    /\ verdict' = IF Identified(trade_no, out_trade_no) THEN "none" ELSE "Param"
    /\ UNCHANGED <<status, answer>>

AskOther(endpoint) ==
    /\ asked = Nothing
    /\ asked' = [Nothing EXCEPT !.endpoint = endpoint]
    /\ UNCHANGED <<status, answer, verdict>>

\* The answer is composed.
Reply(rows, count) ==
    /\ verdict = "none"
    /\ answer = NoAnswer
    /\ answer' = [rows |-> rows, count |-> count]
    /\ UNCHANGED <<status, asked, verdict>>

\* The call decodes and checks the answer; another one may follow.
Check ==
    /\ answer # NoAnswer
    /\ verdict = "none"
    /\ verdict' =
          IF /\ asked.endpoint \in Lists => FlexI32(answer.count) # Garbled /\ FlexI32(answer.count) >= 0
             /\ \A i \in DOMAIN Decoded : Fits(Decoded[i]) /\ Valid(Decoded[i])
          THEN "ok" ELSE "InvalidResponse"
    /\ UNCHANGED <<status, asked, answer>>

\* The gateway: an order is paid, and a payment reversed.
Pay(t) ==
    /\ status[t] = 0
    /\ status' = [status EXCEPT ![t] = 1]
    /\ UNCHANGED <<asked, answer, verdict>>

\* Some forks close or freeze orders, with a status of their own.
Close(t) ==
    /\ status[t] = 0
    /\ status' = [status EXCEPT ![t] = 3]
    /\ UNCHANGED <<asked, answer, verdict>>

Reverse(t) ==
    /\ status[t] = 1
    /\ status' = [status EXCEPT ![t] = 2]
    /\ UNCHANGED <<asked, answer, verdict>>

-----------------------------------------------------------------------------
(* Answers a gateway composes *)

Column(value, form) == [form |-> form, value |-> value]
Plain(value) == Column(value, "text")

\* The row of an order, its integers in one form and `param` in another.
RowOf(t, intForm, textForm) ==
    [trade_no |-> Plain(t), out_trade_no |-> Plain(Books[t].out_trade_no),
     pid |-> Column(Books[t].pid, intForm), money |-> Plain(Books[t].money),
     status |-> Column(status[t], intForm), param |-> Column("note", textForm)]

\* A row with one column damaged.
Damaged(row) ==
    {[row EXCEPT !.trade_no.form = "null"], [row EXCEPT !.out_trade_no.form = "null"],
     [row EXCEPT !.money.value = "-1.00"], [row EXCEPT !.pid.value = -1],
     [row EXCEPT !.status.value = MaxI32 + 1]}

OrderRows ==
    {RowOf(t, intForm, textForm) : t \in DOMAIN Books, intForm \in IntForms, textForm \in TextForms}

Account(pid, money, intForm, textForm) ==
    [pid |-> Column(pid, intForm), money |-> Column(money, textForm)]

Accounts ==
    {Account(pid, money, intForm, textForm) :
        pid \in {Books[t].pid : t \in DOMAIN Books}, money \in Balances,
        intForm \in IntForms, textForm \in TextForms}

Offer(no, links, textForm) ==
    [trade_no |-> Column(no, textForm), pay_url |-> Column(links[1], textForm),
     qr_code |-> Column(links[2], textForm), url_scheme |-> Plain(links[3])]

Offers ==
    {Offer(no, links, textForm) :
        no \in TradeNos \cup {"", "?"}, links \in [1 .. 3 -> Links], textForm \in TextForms}

Counts == {Column(1, form) : form \in IntForms} \cup {Column(-1, "number")}

\* Lists: of up to two rows in the usual form, or of one in any form.
Respond ==
    CASE asked.endpoint = "QueryOrder" ->
            \E row \in OrderRows \cup UNION {Damaged(RowOf(t, "number", "text")) : t \in DOMAIN Books} :
                Reply(<<row>>, NoAnswer.count)
      [] asked.endpoint = "QueryOrders" ->
            \/ \E row \in OrderRows, count \in Counts : Reply(<<row>>, count)
            \/ \E t, u \in DOMAIN Books :
                  Reply(<<RowOf(t, "number", "text"), RowOf(u, "number", "null")>>, Column(2, "number"))
      [] asked.endpoint = "QueryMerchant" -> \E row \in Accounts : Reply(<<row>>, NoAnswer.count)
      [] asked.endpoint = "QuerySettlements" -> \E row \in Accounts, count \in Counts : Reply(<<row>>, count)
      [] asked.endpoint = "CreatePayment" -> \E row \in Offers : Reply(<<row>>, NoAnswer.count)
      [] asked.endpoint = "Refund" ->
            \E textForm \in TextForms : Reply(<<[msg |-> Column("done", textForm)]>>, NoAnswer.count)

Next ==
    \/ \E endpoint \in {"QueryOrder", "Refund"}, trade_no \in TradeNos \cup {"", "?"},
          out_trade_no \in OrderNos \cup {"", "?"} : AskOrder(endpoint, trade_no, out_trade_no)
    \/ \E endpoint \in {"QueryOrders", "QueryMerchant", "QuerySettlements", "CreatePayment"} : AskOther(endpoint)
    \/ asked # Nothing /\ Respond
    \/ Check
    \/ \E t \in DOMAIN Books : Pay(t) \/ Reverse(t) \/ Close(t)

Spec == Init /\ [][Next]_vars

-----------------------------------------------------------------------------
(* Properties *)

Returned == {Decoded[i] : i \in IF verdict = "ok" THEN DOMAIN Decoded ELSE {}}

TypeOK ==
    /\ status \in [DOMAIN Books -> 0 .. 3]
    /\ asked.endpoint \in {"none", "QueryOrder", "Refund", "CreatePayment", "QueryMerchant"} \cup Lists
    /\ verdict \in {"none", "ok", "Param", "InvalidResponse"}
    /\ answer.count.value \in -1 .. 2
    /\ verdict = "Param" => answer = NoAnswer
    /\ asked.endpoint \in {"QueryOrder", "QueryOrders"} =>
          \A order \in Returned : order.status \in -MaxI32 - 1 .. MaxI32

\* The order a query is about.
Meant(t) ==
    /\ Books[t].pid = Pid
    /\ asked.trade_no \in {"", t}
    /\ asked.out_trade_no \in {"", Books[t].out_trade_no}

\* A query returns the very order it asked for and no other, whichever of its
\* orders the gateway answers about, with columns that are true or damaged: not
\* one of another merchant with the same order number, and none at all for a
\* well-formed number that no order has (order.rs 156-192).
ReturnedIsMeant ==
    asked.endpoint = "QueryOrder" =>
        \A order \in Returned :
            /\ Meant(order.trade_no)
            /\ \A t \in DOMAIN Books : Meant(t) => order.trade_no = t

\* Nothing that is returned names another merchant (order.rs 223-235,
\* merchant.rs 86-100, 172-198).
NothingOfOthers ==
    \A row \in Returned :
        CASE asked.endpoint \in {"QueryOrder", "QueryOrders"} -> Books[row.trade_no].pid = Pid
          [] asked.endpoint = "QueryMerchant" -> row.pid = Pid
          [] asked.endpoint = "QuerySettlements" -> \A t \in DOMAIN Books : Books[t].pid # Pid => row.uid # Books[t].pid
          [] OTHER -> TRUE

\* An order that counts as paid was paid at the gateway, however old the answer
\* is and however its status is written; a status the SDK does not know does
\* not count (order.rs 137-144, types.rs 164-177).
PaidWasPaid ==
    asked.endpoint \in {"QueryOrder", "QueryOrders"} =>
        \A order \in Returned : IsPaid(order) => status[order.trade_no] \in {1, 2}

\* The gateway's own answer to the request, in the usual or in a PHP way.
Honest ==
    /\ asked.endpoint = "QueryOrder"
    /\ \E t \in DOMAIN Books :
          /\ Meant(t)
          /\ answer.rows[1].trade_no = Plain(t)
          /\ answer.rows[1].out_trade_no = Plain(Books[t].out_trade_no)
          /\ answer.rows[1].money = Plain(Books[t].money)
          /\ answer.rows[1].pid \in {Column(Pid, form) : form \in {"number", "string", "float"}}
          /\ answer.rows[1].status \in {Column(s, form) : s \in 0 .. 3, form \in {"number", "string", "float", "null"}}
          /\ answer.rows[1].param.form \in {"text", "null", "missing"}

\* A gateway that answers about the order asked for is believed in whichever of
\* the PHP ways it writes integers and nulls: "one fork's quirk never becomes a
\* hard failure" (serde_util.rs 1-6, 17-142).
HonestIsReturned == verdict # "none" /\ answer # NoAnswer /\ Honest => verdict = "ok"

=============================================================================
