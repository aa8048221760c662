------------------------------ MODULE Checkout ------------------------------
(***************************************************************************)
(* The merchant's server of the axum example: it sells orders over the API *)
(* (qrcode_pay) or with a form (form_pay, url_pay), keeps them in memory   *)
(* and takes the gateway's payment notifications (notify).                 *)
(*                                                                         *)
(* The create_payment call is the one CallPromise specifies, which         *)
(* GatewayCall implements. The gateway, the payer and the network are      *)
(* external: a notification may arrive at any time after the payment, any  *)
(* number of times, before, after or while the answer of create_payment    *)
(* does; it is repeated until the server's "success" has been heard, and   *)
(* that answer may get lost. The server may restart with an empty memory.  *)
(***************************************************************************)

EXTENDS Errors, FiniteSets

CONSTANTS
    Orders,      \* order numbers, each used for one sale
    Amounts,     \* amounts of money
    PriceLists,  \* what the orders may cost
    Channels,    \* how orders are sold: "api", "form" or "elsewhere"
    Absent,      \* no record
    NoTrade,     \* no payment, no trade number
    MaxTrades,   \* bound: trades the gateway opens for one order
    MaxRestarts  \* bound: restarts of the server

ASSUME ChannelsAssumption == Channels \subseteq {"api", "form", "elsewhere"}
ASSUME AmountsAssumption == Amounts \subseteq Nat \ {0}
ASSUME PriceListsAssumption == PriceLists \subseteq [Orders -> Amounts]
ASSUME CheckoutBoundsAssumption == MaxTrades \in Nat /\ MaxRestarts \in Nat

VARIABLES
    channel,   \* of each order; "elsewhere": by another service of the merchant
    price,     \* what each order costs
    handler,   \* the request handler that sells the order
    store,     \* AppState::orders
    call,      \* stage of the order's create_payment call
    executed,  \* how often the gateway executed that call
    trades,    \* trade numbers the gateway opened for the order
    paid,      \* the trade that was paid and the amount, or NoTrade
    sent,      \* notifications sent so far
    acks,      \* orders for which an answer "success" is under way
    settled,   \* orders whose "success" the gateway has heard
    restarts

serverVars == <<handler, store>>
callVars == <<call, executed>>
gatewayVars == <<trades, paid, sent, settled>>
vars == <<channel, price, handler, store, call, executed, trades, paid, sent, acks, settled, restarts>>

\* create_payment is a write.
NoReads == [o \in DOMAIN call |-> FALSE]

Promise == INSTANCE CallPromise WITH Calls <- Orders, isRead <- NoReads, stage <- call

Order == [money : Amounts, trade_no : 1 .. MaxTrades \cup {NoTrade}, paid : BOOLEAN]

Payments == [no : 1 .. MaxTrades, money : Amounts]

ASSUME AbsentAssumption == Absent \notin Order /\ NoTrade \notin Payments

\* A notification that a trade of an order was paid or has another status; it
\* verifies, or it lacks a valid signature, is for another pid or is malformed.
Notifications ==
    [order : Orders, no : 1 .. MaxTrades, money : Amounts,
     status : {"TRADE_SUCCESS", "OTHER"},
     defect : {"none", "sign", "pid", "malformed"}]

Init ==
    /\ channel \in [Orders -> Channels]
    /\ price \in PriceLists
    /\ handler = [o \in Orders |-> "new"]
    /\ store = [o \in Orders |-> Absent]
    /\ call = [o \in Orders |-> "new"]
    /\ executed = [o \in Orders |-> 0]
    /\ trades = [o \in Orders |-> {}]
    /\ paid = [o \in Orders |-> NoTrade]
    /\ sent = {}
    /\ acks = {}
    /\ settled = {}
    /\ restarts = 0

Handler(o, from, to) == handler[o] = from /\ handler' = [handler EXCEPT ![o] = to]

-----------------------------------------------------------------------------
(* The server sells *)

\* Fault: the order is left out of the store until the payment is known.
RememberNothing(o) ==
    /\ channel[o] \in {"api", "form"}
    /\ Handler(o, "new", "remembered")
    /\ UNCHANGED <<channel, price, store, callVars, gatewayVars, acks, restarts>>

\* The order is kept before anything is asked of the gateway.
Remember(o) ==
    /\ channel[o] \in {"api", "form"}
    /\ Handler(o, "new", "remembered")
    /\ store' = [store EXCEPT ![o] = [money |-> price[o], trade_no |-> NoTrade, paid |-> FALSE]]
    /\ UNCHANGED <<channel, price, callVars, gatewayVars, acks, restarts>>

\* form_pay, url_pay: the page or the redirect is built, or refused locally.
BuildForm(o) ==
    /\ channel[o] = "form"
    /\ Handler(o, "remembered", "page") \/ Handler(o, "remembered", "done")
    /\ UNCHANGED <<channel, price, store, callVars, gatewayVars, acks, restarts>>

\* qrcode_pay: create_payment is called, or refuses the request locally.
CallPayment(o) ==
    /\ channel[o] = "api"
    /\ \/ Handler(o, "remembered", "calling") /\ Promise!Open(o)
       \/ Handler(o, "remembered", "done") /\ Promise!Invalid(o)
    /\ UNCHANGED <<channel, price, store, gatewayVars, acks, restarts>>

\* The call returns; the handler has yet to get the write lock.
CallReturns(o) ==
    /\ handler[o] = "calling"
    /\ Promise!Succeed(o) \/ Promise!Refuse(o) \/ Promise!Fail(o)
    /\ UNCHANGED <<channel, price, serverVars, gatewayVars, acks, restarts>>

\* Fault: the record is written anew with the trade number of the answer.
FinishAnew(o) ==
    /\ call[o] \in {"ok", "refused", "unknown"}
    /\ Handler(o, "calling", "done")
    /\ \/ /\ call[o] = "ok"
          /\ \E no \in trades[o] :
                store' = [store EXCEPT ![o] = [money |-> price[o], trade_no |-> no, paid |-> FALSE]]
       \/ call[o] # "ok" /\ UNCHANGED store
    /\ UNCHANGED <<channel, price, callVars, gatewayVars, acks, restarts>>

\* The trade number of a successful answer goes into the record, if there is
\* one; whatever the record has become meanwhile is kept.
Finish(o) ==
    /\ call[o] \in {"ok", "refused", "unknown"}
    /\ Handler(o, "calling", "done")
    /\ \/ /\ call[o] = "ok" /\ store[o] # Absent
          /\ \E no \in trades[o] : store' = [store EXCEPT ![o].trade_no = no]
       \/ (call[o] # "ok" \/ store[o] = Absent) /\ UNCHANGED store
    /\ UNCHANGED <<channel, price, callVars, gatewayVars, acks, restarts>>

\* The buyer disconnects and the server drops the handler with its call.
Disconnect(o) ==
    /\ Handler(o, "calling", "done")
    /\ \/ Promise!Abandon(o)
       \/ call[o] # "open" /\ UNCHANGED callVars
    /\ UNCHANGED <<channel, price, store, gatewayVars, acks, restarts>>

-----------------------------------------------------------------------------
(* The server is notified *)

\* VerifiedNotify: verify_notify over the parsed callback.
Verify(m) ==
    CASE m.defect = "sign" -> PlainError("VerifyFailed")
      [] m.defect \in {"pid", "malformed"} -> PlainError("Notify")
      [] m.defect = "none" -> NoError

\* The conditions under which the handler answers "success".
AcceptableAnyAmount(m) ==
    /\ Verify(m) = NoError
    /\ m.status = "TRADE_SUCCESS"
    /\ store[m.order] # Absent

\* Verified, successful, of a known order and over its exact amount.
Acceptable(m) ==
    /\ Verify(m) = NoError
    /\ m.status = "TRADE_SUCCESS"
    /\ store[m.order] # Absent
    /\ m.money = store[m.order].money

\* Fault: an unknown order is nobody's concern, so the gateway may stop.
NotifyAcksUnknown(m) ==
    /\ IF Acceptable(m)
       THEN /\ store' = [store EXCEPT ![m.order].paid = TRUE, ![m.order].trade_no = m.no]
            /\ acks' = acks \cup {m.order}
       ELSE /\ acks' = IF Verify(m) = NoError /\ store[m.order] = Absent
                       THEN acks \cup {m.order} ELSE acks
            /\ UNCHANGED store
    /\ UNCHANGED <<channel, price, handler, callVars, gatewayVars, restarts>>

\* The notify handler, under the write lock. All its refusals and those of the
\* extractor answer "fail", which leaves the gateway retrying.
Notify(m) ==
    /\ IF Acceptable(m)
       THEN /\ store' = [store EXCEPT ![m.order].paid = TRUE, ![m.order].trade_no = m.no]
            /\ acks' = acks \cup {m.order}
       ELSE UNCHANGED <<store, acks>>
    /\ UNCHANGED <<channel, price, handler, callVars, gatewayVars, restarts>>

\* A notification of the gateway is delivered, now or again.
Deliver(m) == m \in sent /\ Notify(m)

\* A callback that does not verify but would be acceptable if it did: it claims
\* that the price of an order was paid.
Stray(m) ==
    /\ m.defect # "none"
    /\ m.status = "TRADE_SUCCESS" /\ m.money = price[m.order]
    /\ Notify(m)

\* The server restarts: orders, handlers and their calls are gone; answers
\* already written may still arrive.
Restart ==
    /\ restarts < MaxRestarts
    /\ restarts' = restarts + 1
    /\ store' = [o \in Orders |-> Absent]
    /\ handler' = [o \in Orders |-> IF handler[o] = "new" THEN "new"
                                    ELSE IF handler[o] = "page" THEN "page" ELSE "done"]
    /\ call' = [o \in Orders |-> IF call[o] = "open" THEN "abandoned" ELSE call[o]]
    /\ UNCHANGED <<channel, price, executed, gatewayVars, acks>>

-----------------------------------------------------------------------------
(* The gateway and the payer *)

OpenTrade(o) ==
    /\ Cardinality(trades[o]) < MaxTrades
    /\ trades' = [trades EXCEPT ![o] = @ \cup {Cardinality(@) + 1}]

\* create_payment is executed, before or after its caller gave up.
Execute(o) ==
    /\ channel[o] = "api"
    /\ Promise!Execute(o)
    /\ OpenTrade(o)
    /\ UNCHANGED <<channel, price, serverVars, paid, sent, acks, settled, restarts>>

\* The payer submits the form, perhaps more than once, or buys elsewhere.
Submit(o) ==
    /\ handler[o] = "page" \/ channel[o] = "elsewhere"
    /\ OpenTrade(o)
    /\ UNCHANGED <<channel, price, serverVars, callVars, paid, sent, acks, settled, restarts>>

\* One trade of an order is paid; the amount may not be the price (discounts
\* and fees of some gateways).
Pay(o) ==
    /\ paid[o] = NoTrade
    /\ \E no \in trades[o], money \in Amounts : paid' = [paid EXCEPT ![o] = [no |-> no, money |-> money]]
    /\ UNCHANGED <<channel, price, serverVars, callVars, trades, sent, acks, settled, restarts>>

\* The payment of o is notified until the gateway has heard "success".
Inform(o) ==
    /\ paid[o] # NoTrade
    /\ o \notin settled
    /\ sent' = sent \cup {[order |-> o, no |-> paid[o].no, money |-> paid[o].money,
                           status |-> "TRADE_SUCCESS", defect |-> "none"]}
    /\ UNCHANGED <<channel, price, serverVars, callVars, trades, paid, acks, settled, restarts>>

\* Another status of a trade is notified.
InformOther(o) ==
    /\ \E no \in trades[o] :
          sent' = sent \cup {[order |-> o, no |-> no, money |-> price[o],
                              status |-> "OTHER", defect |-> "none"]}
    /\ UNCHANGED <<channel, price, serverVars, callVars, trades, paid, acks, settled, restarts>>

\* The gateway hears the answer "success" for o.
Hear(o) ==
    /\ o \in acks
    /\ settled' = settled \cup {o}
    /\ UNCHANGED <<channel, price, serverVars, callVars, trades, paid, sent, acks, restarts>>

-----------------------------------------------------------------------------

Sell(o) ==
    \/ Remember(o) \/ BuildForm(o)
    \/ CallPayment(o) \/ CallReturns(o) \/ Finish(o) \/ Disconnect(o)

Gateway(o) ==
    \/ Execute(o) \/ Submit(o) \/ Pay(o)
    \/ Inform(o) \/ InformOther(o) \/ Hear(o)

Next ==
    \/ \E o \in Orders : Sell(o) \/ Gateway(o)
    \/ \E m \in sent : Deliver(m)
    \/ \E m \in Notifications : Stray(m)
    \/ Restart

Spec == Init /\ [][Next]_vars

\* The gateway keeps notifying a payment until it hears "success", and neither
\* its notifications nor the answers are lost for ever.
Fairness ==
    \A o \in Orders :
        /\ WF_vars(Inform(o))
        /\ WF_vars(\E m \in sent : m.order = o /\ m.status = "TRADE_SUCCESS" /\ Deliver(m))
        /\ WF_vars(Hear(o))

FairSpec == Spec /\ Fairness

-----------------------------------------------------------------------------
(* Properties *)

TypeOK ==
    /\ channel \in [Orders -> Channels]
    /\ price \in PriceLists
    /\ handler \in [Orders -> {"new", "remembered", "page", "calling", "done"}]
    /\ store \in [Orders -> Order \cup {Absent}]
    /\ call \in [Orders -> {"new", "open", "ok", "refused", "unknown", "abandoned"}]
    /\ executed \in [Orders -> Nat]
    /\ trades \in [Orders -> SUBSET (1 .. MaxTrades)]
    /\ paid \in [Orders -> Payments \cup {NoTrade}]
    /\ sent \subseteq Notifications
    /\ acks \subseteq Orders
    /\ settled \subseteq Orders
    /\ restarts \in 0 .. MaxRestarts

Recorded(o) == store[o] # Absent /\ store[o].paid

\* An order counts as paid only if the gateway was paid for it, in full, and its
\* record names the trade that was paid, although the answer of create_payment
\* writes a trade number too, before or after the notification does
\* (axum_server.rs 186-192, 246-265).
RecordedIsPaid ==
    \A o \in Orders : Recorded(o) =>
        /\ paid[o] # NoTrade
        /\ paid[o].money = price[o] /\ store[o].money = price[o]
        /\ store[o].trade_no = paid[o].no

\* The gateway stops notifying a payment only when the server has recorded it;
\* what the server does not know keeps being notified (axum_server.rs 246-265,
\* axum.rs 112-137).
SettledIsRecorded ==
    restarts = 0 => \A o \in settled \cup acks : Recorded(o)

\* A recorded payment stays recorded while the server runs, with the trade
\* number it was recorded under (axum_server.rs 170-216, 281-293).
RecordedStays ==
    [][restarts' = restarts =>
          \A o \in Orders : Recorded(o) =>
              Recorded(o)' /\ store'[o].trade_no = store[o].trade_no]_vars

FullyPaid(o) == paid[o] # NoTrade /\ paid[o].money = price[o]

\* What the ledger of OrderLedger says of an order. Only a restart loses one
\* that was entered.
LedgerRecord(o) ==
    CASE store[o] = Absent /\ handler[o] = "new" -> "none"
      [] store[o] = Absent /\ handler[o] # "new" -> "lost"
      [] store[o] # Absent -> IF store[o].paid THEN "paid" ELSE "open"

LedgerAcknowledged(o) ==
    IF o \in settled THEN "heard" ELSE IF o \in acks THEN "given" ELSE "no"

Ledger ==
    INSTANCE OrderLedger WITH
        full <- [o \in Orders |-> FullyPaid(o)],
        record <- [o \in Orders |-> LedgerRecord(o)],
        acknowledged <- [o \in Orders |-> LedgerAcknowledged(o)]

\* The server keeps the ledger: for every order it takes the steps of
\* OrderLedger or none, so that what is recorded and acknowledged was paid in
\* full, and nothing but a restart undoes it (axum_server.rs 134-216, 246-293).
KeepsLedger == Ledger!Spec

\* Every full payment of an order sold here is recorded in the end and then
\* acknowledged, also when create_payment failed, timed out or was dropped after
\* the gateway had executed it (axum_server.rs 134-216, 246-265); a restart,
\* which forgets the orders, is all that can prevent it.
PaymentsAreRecorded ==
    \A o \in Orders :
        channel[o] # "elsewhere" /\ FullyPaid(o) ~> (restarts > 0 \/ (Recorded(o) /\ o \in settled))

=============================================================================
