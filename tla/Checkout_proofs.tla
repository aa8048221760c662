-------------------------- MODULE Checkout_proofs --------------------------
(***************************************************************************)
(* Proofs about Checkout, for any orders, prices, numbers of trades and of *)
(* restarts: what the server records was paid in full, what it answers     *)
(* "success" to is recorded, and it keeps the ledger of OrderLedger.       *)
(***************************************************************************)

EXTENDS Checkout, FiniteSetTheorems, TLAPS

\* What the gateway says was paid was paid as it says.
Truthful(m) ==
    /\ m.defect = "none"
    /\ m.status = "TRADE_SUCCESS" =>
          paid[m.order] # NoTrade /\ paid[m.order].no = m.no /\ paid[m.order].money = m.money

\* create_payment opens one trade for an order, so that its answer and the
\* notification name the same one.
TradeInv(o) ==
    /\ channel[o] = "api" =>
          (executed[o] = 0 /\ trades[o] = {}) \/ (executed[o] = 1 /\ trades[o] = {1})
    /\ handler[o] = "calling" => channel[o] = "api"
    /\ handler[o] = "page" => channel[o] = "form"
    /\ paid[o] # NoTrade => paid[o].no \in trades[o]

StoreInv(o) ==
    /\ store[o] # Absent => handler[o] # "new" /\ store[o].money = price[o]
    /\ Recorded(o) => o \in acks /\ FullyPaid(o) /\ store[o].trade_no = paid[o].no

AnswerInv ==
    /\ settled \subseteq acks
    /\ restarts = 0 => \A o \in acks : Recorded(o)

IInv ==
    /\ TypeOK
    /\ \A m \in sent : Truthful(m)
    /\ \A o \in Orders : TradeInv(o) /\ StoreInv(o)
    /\ AnswerInv

(***************************************************************************)
(* Types.                                                                  *)
(***************************************************************************)

LEMMA TradesAreCounted ==
    ASSUME TypeOK, NEW o \in Orders, Cardinality(trades[o]) < MaxTrades
    PROVE  /\ Cardinality(trades[o]) \in Nat
           /\ Cardinality(trades[o]) + 1 \in 1 .. MaxTrades
<1>1. MaxTrades \in Nat
  BY CheckoutBoundsAssumption
<1>2. IsFiniteSet(1 .. MaxTrades)
  BY <1>1, FS_Interval
<1>3. trades[o] \in SUBSET (1 .. MaxTrades)
  BY DEF TypeOK
<1>4. Cardinality(trades[o]) \in Nat
  BY <1>2, <1>3, FS_Subset, FS_CardinalityType
<1>5. QED
  BY <1>1, <1>4

\* A record that is written is one.
LEMMA RecordsAreTyped ==
    /\ \A money \in Amounts, no \in 1 .. MaxTrades \cup {NoTrade}, p \in BOOLEAN :
          [money |-> money, trade_no |-> no, paid |-> p] \in Order
    /\ \A r \in Order, no \in 1 .. MaxTrades \cup {NoTrade} :
          [r EXCEPT !.trade_no = no] \in Order /\ [r EXCEPT !.paid = TRUE, !.trade_no = no] \in Order
BY DEF Order

LEMMA NotifyTypes ==
    ASSUME TypeOK, NEW m \in Notifications, Acceptable(m)
    PROVE  /\ m.order \in Orders /\ m.no \in 1 .. MaxTrades /\ m.money \in Amounts
           /\ m.defect = "none" /\ m.status = "TRADE_SUCCESS"
           /\ store[m.order] \in Order /\ store[m.order].money = m.money
<1>1. m.order \in Orders /\ m.no \in 1 .. MaxTrades /\ m.money \in Amounts
      /\ m.defect \in {"none", "sign", "pid", "malformed"}
  BY DEF Notifications
<1>2. m.defect = "none"
  BY <1>1 DEF Acceptable, Verify, PlainError, NoError
<1>3. store[m.order] \in Order
  BY <1>1 DEF TypeOK, Acceptable
<1>4. QED
  BY <1>1, <1>2, <1>3 DEF Acceptable

LEMMA TypeStep ==
    ASSUME TypeOK, [Next]_vars
    PROVE  TypeOK'
<1>1. ASSUME NEW o \in Orders, Remember(o) PROVE TypeOK'
  <2>1. price[o] \in Amounts
    BY PriceListsAssumption DEF TypeOK
  <2>2. [money |-> price[o], trade_no |-> NoTrade, paid |-> FALSE] \in Order
    BY <2>1, RecordsAreTyped
  <2>3. QED
    BY <1>1, <2>2 DEF Remember, Handler, callVars, gatewayVars, TypeOK
<1>2. ASSUME NEW o \in Orders, BuildForm(o) PROVE TypeOK'
  BY <1>2 DEF BuildForm, Handler, callVars, gatewayVars, TypeOK
<1>3. ASSUME NEW o \in Orders, CallPayment(o) PROVE TypeOK'
  BY <1>3 DEF CallPayment, Handler, Promise!Open, Promise!Invalid, Promise!Move, gatewayVars, TypeOK
<1>4. ASSUME NEW o \in Orders, CallReturns(o) PROVE TypeOK'
  BY <1>4 DEF CallReturns, Promise!Succeed, Promise!Refuse, Promise!Fail, Promise!Move,
              serverVars, gatewayVars, TypeOK
<1>5. ASSUME NEW o \in Orders, Finish(o) PROVE TypeOK'
  <2>1. \/ UNCHANGED store
        \/ \E no \in trades[o] : store[o] # Absent /\ store' = [store EXCEPT ![o].trade_no = no]
    BY <1>5 DEF Finish
  <2>2. store' \in [Orders -> Order \cup {Absent}]
    <3>1. CASE UNCHANGED store
      BY <3>1 DEF TypeOK
    <3>2. ASSUME NEW no \in trades[o], store[o] # Absent, store' = [store EXCEPT ![o].trade_no = no]
          PROVE  store' \in [Orders -> Order \cup {Absent}]
      <4>1. store[o] \in Order /\ no \in 1 .. MaxTrades \cup {NoTrade}
        BY <3>2 DEF TypeOK
      <4>2. [store[o] EXCEPT !.trade_no = no] \in Order
        BY <4>1, RecordsAreTyped
      <4>3. QED
        BY <3>2, <4>2 DEF TypeOK
    <3>3. QED
      BY <2>1, <3>1, <3>2
  <2>3. QED
    BY <1>5, <2>2 DEF Finish, Handler, callVars, gatewayVars, TypeOK
<1>6. ASSUME NEW o \in Orders, Disconnect(o) PROVE TypeOK'
  BY <1>6 DEF Disconnect, Handler, Promise!Abandon, Promise!Move, callVars, gatewayVars, TypeOK
<1>7. ASSUME NEW o \in Orders, Execute(o) \/ Submit(o) PROVE TypeOK'
  <2>1. Cardinality(trades[o]) < MaxTrades
        /\ trades' = [trades EXCEPT ![o] = @ \cup {Cardinality(@) + 1}]
    BY <1>7 DEF Execute, Submit, OpenTrade
  <2>2. trades' \in [Orders -> SUBSET (1 .. MaxTrades)]
    BY <2>1, TradesAreCounted DEF TypeOK
  <2>3. executed' \in [Orders -> Nat] /\ UNCHANGED call
    BY <1>7 DEF Execute, Submit, Promise!Execute, callVars, TypeOK
  <2>4. QED
    BY <1>7, <2>2, <2>3 DEF Execute, Submit, serverVars, TypeOK
<1>8. ASSUME NEW o \in Orders, Pay(o) PROVE TypeOK'
  <2>1. PICK no \in trades[o], money \in Amounts : paid' = [paid EXCEPT ![o] = [no |-> no, money |-> money]]
    BY <1>8 DEF Pay
  <2>2. [no |-> no, money |-> money] \in Payments
    BY DEF TypeOK, Payments
  <2>3. QED
    BY <1>8, <2>1, <2>2 DEF Pay, serverVars, callVars, TypeOK
<1>9. ASSUME NEW o \in Orders, Inform(o) PROVE TypeOK'
  <2>1. paid[o] \in Payments
    BY <1>9 DEF Inform, TypeOK
  <2>2. [order |-> o, no |-> paid[o].no, money |-> paid[o].money,
         status |-> "TRADE_SUCCESS", defect |-> "none"] \in Notifications
    BY <2>1 DEF Payments, Notifications
  <2>3. QED
    BY <1>9, <2>2 DEF Inform, serverVars, callVars, TypeOK
<1>10. ASSUME NEW o \in Orders, InformOther(o) PROVE TypeOK'
  <2>1. price[o] \in Amounts
    BY PriceListsAssumption DEF TypeOK
  <2>2. PICK no \in trades[o] :
           sent' = sent \cup {[order |-> o, no |-> no, money |-> price[o],
                               status |-> "OTHER", defect |-> "none"]}
    BY <1>10 DEF InformOther
  <2>3. [order |-> o, no |-> no, money |-> price[o], status |-> "OTHER", defect |-> "none"] \in Notifications
    BY <2>1 DEF TypeOK, Notifications
  <2>4. QED
    BY <1>10, <2>2, <2>3 DEF InformOther, serverVars, callVars, TypeOK
<1>11. ASSUME NEW o \in Orders, Hear(o) PROVE TypeOK'
  BY <1>11 DEF Hear, serverVars, callVars, TypeOK
<1>12. ASSUME NEW m \in Notifications, Notify(m) PROVE TypeOK'
  <2>1. CASE Acceptable(m)
    <3>1. m.order \in Orders /\ store[m.order] \in Order /\ m.no \in 1 .. MaxTrades \cup {NoTrade}
      BY <2>1, NotifyTypes
    <3>2. [store[m.order] EXCEPT !.paid = TRUE, !.trade_no = m.no] \in Order
      BY <3>1, RecordsAreTyped
    <3>3. store' \in [Orders -> Order \cup {Absent}] /\ acks' \subseteq Orders
      BY <1>12, <2>1, <3>1, <3>2 DEF Notify, TypeOK
    <3>4. QED
      BY <1>12, <3>3 DEF Notify, callVars, gatewayVars, TypeOK
  <2>2. CASE ~Acceptable(m)
    BY <1>12, <2>2 DEF Notify, callVars, gatewayVars, TypeOK
  <2>3. QED
    BY <2>1, <2>2
<1>13. CASE Restart
  BY <1>13, CheckoutBoundsAssumption DEF Restart, gatewayVars, TypeOK
<1>14. CASE UNCHANGED vars
  BY <1>14 DEF vars, TypeOK
<1>15. QED
  BY <1>1, <1>2, <1>3, <1>4, <1>5, <1>6, <1>7, <1>8, <1>9, <1>10, <1>11, <1>12, <1>13, <1>14
     DEF Next, Sell, Gateway, Deliver, Stray, TypeOK

(***************************************************************************)
(* The invariant. A step of one order leaves the others as they are.       *)
(***************************************************************************)

LEMMA InitIInv == Init => IInv
<1> SUFFICES ASSUME Init PROVE IInv
  OBVIOUS
<1>1. TypeOK
  BY CheckoutBoundsAssumption DEF Init, TypeOK
<1>2. ASSUME NEW o \in Orders PROVE TradeInv(o) /\ StoreInv(o)
  BY DEF Init, TradeInv, StoreInv, Recorded
<1>3. QED
  BY <1>1, <1>2 DEF Init, IInv, AnswerInv

\* Steps of handlers that neither begin nor end with a record.
LEMMA HandlerStep ==
    ASSUME IInv, NEW o \in Orders,
           BuildForm(o) \/ CallPayment(o) \/ CallReturns(o) \/ Disconnect(o)
    PROVE  IInv'
<1>1. TypeOK'
  BY TypeStep DEF IInv, Next, Sell
<1>2. UNCHANGED <<channel, price, store, executed, trades, paid, sent, settled, acks, restarts>>
  BY DEF BuildForm, CallPayment, CallReturns, Disconnect, serverVars, callVars, gatewayVars,
         Promise!Open, Promise!Invalid, Promise!Succeed, Promise!Refuse, Promise!Fail, Promise!Abandon
<1>3. ASSUME NEW p \in Orders
      PROVE  /\ handler'[p] = "calling" => channel[p] = "api"
             /\ handler'[p] = "page" => channel[p] = "form"
             /\ store[p] # Absent => handler'[p] # "new"
  <2>1. TradeInv(p) /\ StoreInv(p) /\ handler \in [Orders -> {"new", "remembered", "page", "calling", "done"}]
    BY DEF IInv, TypeOK
  <2>2. \/ UNCHANGED handler
        \/ channel[o] = "form" /\ handler' = [handler EXCEPT ![o] = "page"]
        \/ channel[o] = "api" /\ handler' = [handler EXCEPT ![o] = "calling"]
        \/ handler' = [handler EXCEPT ![o] = "done"]
    BY DEF BuildForm, CallPayment, CallReturns, Disconnect, Handler, serverVars
  <2>3. QED
    BY <2>1, <2>2 DEF TradeInv, StoreInv
<1>4. ASSUME NEW p \in Orders PROVE TradeInv(p)' /\ StoreInv(p)'
  BY <1>2, <1>3 DEF IInv, TradeInv, StoreInv, Recorded, FullyPaid
<1>5. QED
  BY <1>1, <1>2, <1>4 DEF IInv, Truthful, AnswerInv, Recorded

LEMMA RememberStep ==
    ASSUME IInv, NEW o \in Orders, Remember(o)
    PROVE  IInv'
<1>1. TypeOK'
  BY TypeStep DEF IInv, Next, Sell
<1>2. /\ UNCHANGED <<channel, price, executed, trades, paid, sent, settled, acks, restarts>>
      /\ store' = [store EXCEPT ![o] = [money |-> price[o], trade_no |-> NoTrade, paid |-> FALSE]]
      /\ handler[o] = "new" /\ handler' = [handler EXCEPT ![o] = "remembered"]
  BY DEF Remember, Handler, callVars, gatewayVars
<1>3. store[o] = Absent
  BY <1>2 DEF IInv, StoreInv
<1>4. ASSUME NEW p \in Orders PROVE TradeInv(p)' /\ StoreInv(p)' /\ (Recorded(p) => Recorded(p)')
  <2>1. CASE p = o
    <3>1. store'[o].paid = FALSE /\ store'[o].money = price[o] /\ handler'[o] = "remembered"
      BY <1>2 DEF IInv, TypeOK
    <3>2. QED
      BY <1>2, <1>3, <2>1, <3>1 DEF IInv, TradeInv, StoreInv, Recorded
  <2>2. CASE p # o
    <3>1. store'[p] = store[p] /\ handler'[p] = handler[p]
      BY <1>2, <2>2 DEF IInv, TypeOK
    <3>2. QED
      BY <1>2, <3>1 DEF IInv, TradeInv, StoreInv, Recorded, FullyPaid
  <2>3. QED
    BY <2>1, <2>2
<1>5. QED
  BY <1>1, <1>2, <1>4 DEF IInv, TypeOK, Truthful, AnswerInv

LEMMA FinishStep ==
    ASSUME IInv, NEW o \in Orders, Finish(o)
    PROVE  IInv'
<1>1. TypeOK'
  BY TypeStep DEF IInv, Next, Sell
<1>2. /\ UNCHANGED <<channel, price, executed, trades, paid, sent, settled, acks, restarts>>
      /\ handler[o] = "calling" /\ handler' = [handler EXCEPT ![o] = "done"]
      /\ \/ UNCHANGED store
         \/ \E no \in trades[o] : store[o] # Absent /\ store' = [store EXCEPT ![o].trade_no = no]
  BY DEF Finish, Handler, callVars, gatewayVars
<1>3. \A no \in trades[o] : no = 1
  BY <1>2 DEF IInv, TradeInv
<1>4. ASSUME NEW p \in Orders PROVE TradeInv(p)' /\ StoreInv(p)' /\ (Recorded(p) => Recorded(p)')
  <2>1. TradeInv(p) /\ StoreInv(p)
    BY DEF IInv
  <2>2. handler'[p] \in {handler[p], "done"}
    BY <1>2 DEF IInv, TypeOK
  <2>3. CASE store'[p] = store[p]
    BY <1>2, <2>1, <2>2, <2>3 DEF TradeInv, StoreInv, Recorded, FullyPaid
  <2>4. CASE store'[p] # store[p]
    <3>1. p = o /\ store[o] # Absent
          /\ \E no \in trades[o] : store' = [store EXCEPT ![o].trade_no = no]
      BY <1>2, <2>4 DEF IInv, TypeOK
    <3>2. store[o] \in Order /\ store \in [Orders -> Order \cup {Absent}]
      BY <3>1 DEF IInv, TypeOK
    <3>3. store' = [store EXCEPT ![o].trade_no = 1]
      BY <1>3, <3>1
    <3>4. /\ store'[o].money = store[o].money /\ store'[o].paid = store[o].paid
          /\ store'[o].trade_no = 1
      BY <3>2, <3>3 DEF Order
    <3>5. paid[o] # NoTrade => paid[o].no = 1
      BY <1>3, <2>1, <3>1 DEF TradeInv
    <3>6. store'[o] # Absent
      <4>1. 1 \in trades[o]
        BY <1>3, <3>1
      <4>2. 1 \in 1 .. MaxTrades \cup {NoTrade}
        BY <4>1 DEF IInv, TypeOK
      <4>3. [store[o] EXCEPT !.trade_no = 1] \in Order
        BY <3>2, <4>2, RecordsAreTyped
      <4>4. store'[o] = [store[o] EXCEPT !.trade_no = 1]
        BY <3>2, <3>3
      <4>5. QED
        BY <4>3, <4>4, AbsentAssumption
    <3>7. QED
      BY <1>2, <2>1, <2>2, <3>1, <3>4, <3>5, <3>6 DEF TradeInv, StoreInv, Recorded, FullyPaid
  <2>5. QED
    BY <2>3, <2>4
<1>5. QED
  BY <1>1, <1>2, <1>4 DEF IInv, TypeOK, Truthful, AnswerInv

LEMMA TradeStep ==
    ASSUME IInv, NEW o \in Orders, Execute(o) \/ Submit(o)
    PROVE  IInv'
<1>1. TypeOK'
  BY TypeStep DEF IInv, Next, Gateway
<1>2. /\ UNCHANGED <<channel, price, handler, store, paid, sent, settled, acks, restarts>>
      /\ trades' = [trades EXCEPT ![o] = @ \cup {Cardinality(@) + 1}]
  BY DEF Execute, Submit, OpenTrade, serverVars
<1>3. channel[o] = "api" =>
         executed[o] = 0 /\ trades[o] = {} /\ executed' = [executed EXCEPT ![o] = @ + 1]
  BY DEF Execute, Submit, Promise!Execute, NoReads, IInv, TypeOK, TradeInv
<1>4. channel[o] # "api" => UNCHANGED executed
  BY DEF Execute, Submit, callVars
<1>5. ASSUME NEW p \in Orders PROVE TradeInv(p)'
  <2>1. TradeInv(p) /\ TradeInv(o)
    BY DEF IInv
  <2>2. CASE p = o /\ channel[o] = "api"
    <3>1. trades'[o] = {1}
      <4>1. Cardinality({}) = 0
        BY FS_EmptySet
      <4>2. trades'[o] = trades[o] \cup {Cardinality(trades[o]) + 1}
        BY <1>2 DEF IInv, TypeOK
      <4>3. {} \cup {0 + 1} = {1}
        OBVIOUS
      <4>4. trades[o] = {}
        BY <1>3, <2>2
      <4>5. QED
        BY <4>1, <4>2, <4>3, <4>4
    <3>2. executed'[o] = 1
      BY <1>3, <2>2 DEF IInv, TypeOK
    <3>3. QED
      BY <1>2, <1>3, <2>1, <2>2, <3>1, <3>2 DEF TradeInv
  <2>3. CASE p = o /\ channel[o] # "api"
    BY <1>2, <2>1, <2>3 DEF TradeInv, IInv, TypeOK
  <2>4. CASE p # o
    <3>1. trades'[p] = trades[p] /\ executed'[p] = executed[p]
      BY <1>2, <1>3, <1>4, <2>4 DEF IInv, TypeOK
    <3>2. QED
      BY <1>2, <2>1, <3>1 DEF TradeInv
  <2>5. QED
    BY <2>2, <2>3, <2>4
<1>6. ASSUME NEW p \in Orders PROVE StoreInv(p)'
  BY <1>2 DEF IInv, StoreInv, Recorded, FullyPaid
<1>7. QED
  BY <1>1, <1>2, <1>5, <1>6 DEF IInv, Truthful, AnswerInv, Recorded

LEMMA PayStep ==
    ASSUME IInv, NEW o \in Orders, Pay(o)
    PROVE  IInv'
<1>1. TypeOK'
  BY TypeStep DEF IInv, Next, Gateway
<1>2. PICK no \in trades[o], money \in Amounts : paid' = [paid EXCEPT ![o] = [no |-> no, money |-> money]]
  BY DEF Pay
<1>3. /\ paid[o] = NoTrade
      /\ UNCHANGED <<channel, price, handler, store, executed, trades, sent, settled, acks, restarts>>
  BY DEF Pay, serverVars, callVars
<1>4. \A p \in Orders : paid[p] # NoTrade => paid'[p] = paid[p]
  BY <1>2, <1>3 DEF IInv, TypeOK
<1>5. ASSUME NEW p \in Orders PROVE TradeInv(p)' /\ StoreInv(p)'
  <2>1. TradeInv(p) /\ StoreInv(p)
    BY DEF IInv
  <2>2. paid'[p] # NoTrade => paid'[p].no \in trades[p]
    BY <1>2, <2>1 DEF IInv, TypeOK, TradeInv
  <2>3. QED
    BY <1>3, <1>4, <2>1, <2>2 DEF TradeInv, StoreInv, Recorded, FullyPaid
<1>6. ASSUME NEW m \in sent PROVE Truthful(m)'
  <2>1. Truthful(m) /\ m.order \in Orders
    BY DEF IInv, TypeOK, Notifications
  <2>2. QED
    BY <1>4, <2>1 DEF Truthful
<1>7. QED
  BY <1>1, <1>3, <1>5, <1>6 DEF IInv, AnswerInv, Recorded

LEMMA InformStep ==
    ASSUME IInv, NEW o \in Orders, Inform(o) \/ InformOther(o)
    PROVE  IInv'
<1>1. TypeOK'
  BY TypeStep DEF IInv, Next, Gateway
<1>2. UNCHANGED <<channel, price, handler, store, executed, trades, paid, settled, acks, restarts>>
  BY DEF Inform, InformOther, serverVars, callVars
<1>3. ASSUME NEW m \in sent' PROVE Truthful(m)'
  <2>1. CASE m \in sent
    BY <1>2, <2>1 DEF IInv, Truthful
  <2>2. CASE m \notin sent
    <3>1. \/ /\ paid[o] # NoTrade
             /\ m = [order |-> o, no |-> paid[o].no, money |-> paid[o].money,
                     status |-> "TRADE_SUCCESS", defect |-> "none"]
          \/ m.status = "OTHER" /\ m.defect = "none"
      BY <2>2 DEF Inform, InformOther
    <3>2. QED
      BY <1>2, <3>1 DEF Truthful
  <2>3. QED
    BY <2>1, <2>2
<1>4. ASSUME NEW p \in Orders PROVE TradeInv(p)' /\ StoreInv(p)'
  BY <1>2 DEF IInv, TradeInv, StoreInv, Recorded, FullyPaid
<1>5. QED
  BY <1>1, <1>2, <1>3, <1>4 DEF IInv, AnswerInv, Recorded

LEMMA HearStep ==
    ASSUME IInv, NEW o \in Orders, Hear(o)
    PROVE  IInv'
<1>1. TypeOK'
  BY TypeStep DEF IInv, Next, Gateway
<1>2. /\ UNCHANGED <<channel, price, handler, store, executed, trades, paid, sent, acks, restarts>>
      /\ o \in acks /\ settled' = settled \cup {o}
  BY DEF Hear, serverVars, callVars
<1>3. ASSUME NEW p \in Orders PROVE TradeInv(p)' /\ StoreInv(p)'
  BY <1>2 DEF IInv, TradeInv, StoreInv, Recorded, FullyPaid
<1>4. QED
  BY <1>1, <1>2, <1>3 DEF IInv, AnswerInv, Recorded, Truthful

\* An acceptable notification is one the gateway sent, and tells the truth.
LEMMA AcceptedIsTrue ==
    ASSUME IInv, NEW m \in Notifications, m \in sent \/ m.defect # "none", Acceptable(m)
    PROVE  /\ m.order \in Orders /\ store[m.order] # Absent /\ FullyPaid(m.order)
           /\ paid[m.order].no = m.no /\ store[m.order].money = price[m.order]
<1>1. /\ m.order \in Orders /\ m.defect = "none" /\ m.status = "TRADE_SUCCESS"
      /\ store[m.order].money = m.money
  BY NotifyTypes DEF IInv
<1>2. Truthful(m)
  BY <1>1 DEF IInv
<1>3. store[m.order] # Absent /\ store[m.order].money = price[m.order]
  BY <1>1 DEF Acceptable, IInv, StoreInv
<1>4. QED
  BY <1>1, <1>2, <1>3 DEF Truthful, FullyPaid

\* What an acceptable notification does to its order.
LEMMA NotifyRecords ==
    ASSUME IInv, NEW m \in Notifications, m \in sent \/ m.defect # "none", Acceptable(m), Notify(m)
    PROVE  /\ store'[m.order] # Absent /\ store'[m.order].paid /\ store'[m.order].trade_no = m.no
           /\ store'[m.order].money = store[m.order].money
           /\ \A p \in Orders : p # m.order => store'[p] = store[p]
           /\ acks' = acks \cup {m.order}
<1>1. m.order \in Orders /\ store[m.order] \in Order /\ m.no \in 1 .. MaxTrades \cup {NoTrade}
  BY NotifyTypes DEF IInv
<1>2. /\ store' = [store EXCEPT ![m.order].paid = TRUE, ![m.order].trade_no = m.no]
      /\ acks' = acks \cup {m.order}
      /\ store \in [Orders -> Order \cup {Absent}]
  BY DEF Notify, IInv, TypeOK
<1>3. store'[m.order] = [store[m.order] EXCEPT !.paid = TRUE, !.trade_no = m.no]
  BY <1>1, <1>2
<1>4. store'[m.order] \in Order
  BY <1>1, <1>3, RecordsAreTyped
<1>5. store'[m.order] # Absent
  BY <1>4, AbsentAssumption
<1>6. /\ store'[m.order].paid /\ store'[m.order].trade_no = m.no
      /\ store'[m.order].money = store[m.order].money
  BY <1>1, <1>3 DEF Order
<1>7. QED
  BY <1>1, <1>2, <1>5, <1>6

LEMMA NotifyStep ==
    ASSUME IInv, NEW m \in Notifications, m \in sent \/ m.defect # "none", Notify(m), TypeOK'
    PROVE  IInv'
<1>1. UNCHANGED <<channel, price, handler, executed, trades, paid, sent, settled, restarts>>
  BY DEF Notify, callVars, gatewayVars
<1>2. CASE Acceptable(m)
  <2>1. /\ m.order \in Orders /\ store[m.order] # Absent /\ FullyPaid(m.order)
        /\ paid[m.order].no = m.no /\ store[m.order].money = price[m.order]
    BY <1>2, AcceptedIsTrue
  <2>2. /\ store'[m.order] # Absent /\ store'[m.order].paid /\ store'[m.order].trade_no = m.no
        /\ store'[m.order].money = store[m.order].money
        /\ \A p \in Orders : p # m.order => store'[p] = store[p]
        /\ acks' = acks \cup {m.order}
    BY <1>2, NotifyRecords
  <2>3. ASSUME NEW p \in Orders PROVE TradeInv(p)' /\ StoreInv(p)' /\ (Recorded(p) => Recorded(p)')
    <3>1. TradeInv(p) /\ StoreInv(p)
      BY DEF IInv
    <3>2. CASE p = m.order
      BY <1>1, <2>1, <2>2, <3>1, <3>2 DEF TradeInv, StoreInv, Recorded, FullyPaid
    <3>3. CASE p # m.order
      BY <1>1, <2>2, <3>1, <3>3 DEF TradeInv, StoreInv, Recorded, FullyPaid
    <3>4. QED
      BY <3>2, <3>3
  <2>4. AnswerInv'
    BY <1>1, <2>1, <2>2, <2>3 DEF IInv, TypeOK, AnswerInv, Recorded
  <2>5. QED
    BY <1>1, <2>3, <2>4 DEF IInv, Truthful
<1>3. CASE ~Acceptable(m)
  <2>1. UNCHANGED <<store, acks>>
    BY <1>3 DEF Notify
  <2>2. ASSUME NEW p \in Orders PROVE TradeInv(p)' /\ StoreInv(p)'
    BY <1>1, <2>1 DEF IInv, TradeInv, StoreInv, Recorded, FullyPaid
  <2>3. QED
    BY <1>1, <2>1, <2>2 DEF IInv, AnswerInv, Recorded, Truthful
<1>4. QED
  BY <1>2, <1>3

LEMMA RestartStep ==
    ASSUME IInv, Restart
    PROVE  IInv'
<1>1. TypeOK'
  BY TypeStep DEF IInv, Next
<1>2. UNCHANGED <<channel, price, executed, trades, paid, sent, settled, acks>>
      /\ store' = [o \in Orders |-> Absent]
  BY DEF Restart, gatewayVars
<1>3. restarts' # 0
  BY CheckoutBoundsAssumption DEF Restart, IInv, TypeOK
<1>4. ASSUME NEW p \in Orders PROVE TradeInv(p)' /\ StoreInv(p)'
  <2>1. handler'[p] \in {"new", "page", "done"} /\ (handler'[p] = "page" => handler[p] = "page")
    BY DEF Restart
  <2>2. QED
    BY <1>2, <2>1 DEF IInv, TradeInv, StoreInv, Recorded
<1>5. QED
  BY <1>1, <1>2, <1>3, <1>4 DEF IInv, AnswerInv, Truthful

LEMMA NextIInv == IInv /\ [Next]_vars => IInv'
<1> SUFFICES ASSUME IInv, [Next]_vars PROVE IInv'
  OBVIOUS
<1>1. ASSUME NEW o \in Orders, Sell(o) PROVE IInv'
  BY <1>1, HandlerStep, RememberStep, FinishStep DEF Sell
<1>2. ASSUME NEW o \in Orders, Gateway(o) PROVE IInv'
  BY <1>2, TradeStep, PayStep, InformStep, HearStep DEF Gateway
<1>3. TypeOK'
  BY TypeStep DEF IInv
<1>4. ASSUME NEW m \in sent, Deliver(m) PROVE IInv'
  BY <1>3, <1>4, NotifyStep DEF Deliver, IInv, TypeOK
<1>5. ASSUME NEW m \in Notifications, Stray(m) PROVE IInv'
  BY <1>3, <1>5, NotifyStep DEF Stray
<1>6. CASE Restart
  BY <1>6, RestartStep
<1>7. CASE UNCHANGED vars
  BY <1>7 DEF vars, IInv, TypeOK, Truthful, TradeInv, StoreInv, AnswerInv, Recorded, FullyPaid
<1>8. QED
  BY <1>1, <1>2, <1>4, <1>5, <1>6, <1>7 DEF Next

LEMMA InvariantHolds == Spec => []IInv
BY InitIInv, NextIInv, PTL DEF Spec

(***************************************************************************)
(* What a step does to the record of an order.                             *)
(***************************************************************************)

\* Only a restart takes a record away; a payment is not changed once it is known.
LEMMA RecordStep ==
    ASSUME IInv, [Next]_vars, restarts' = restarts, NEW p \in Orders, Recorded(p)
    PROVE  Recorded(p)' /\ paid'[p] = paid[p]
<1>1. paid[p] # NoTrade /\ store[p] # Absent /\ store[p].paid /\ handler[p] # "new"
  BY DEF IInv, StoreInv, Recorded, FullyPaid
<1>2. ASSUME NEW o \in Orders, Remember(o) PROVE Recorded(p)' /\ paid'[p] = paid[p]
  <2>1. p # o
    BY <1>1, <1>2 DEF Remember, Handler
  <2>2. store'[p] = store[p]
    BY <1>2, <2>1 DEF Remember, IInv, TypeOK
  <2>3. QED
    BY <1>1, <1>2, <2>2 DEF Remember, gatewayVars, Recorded
<1>3. ASSUME NEW o \in Orders, Finish(o) PROVE Recorded(p)' /\ paid'[p] = paid[p]
  <2>1. UNCHANGED <<paid, restarts, acks>>
    BY <1>3 DEF Finish, gatewayVars
  <2>2. CASE store'[p] = store[p]
    BY <1>1, <2>1, <2>2 DEF Recorded
  <2>3. CASE store'[p] # store[p]
    <3>1. /\ p = o /\ store[p] \in Order /\ store \in [Orders -> Order \cup {Absent}]
          /\ \E no \in trades[o] : store' = [store EXCEPT ![o].trade_no = no]
      BY <1>1, <1>3, <2>3 DEF Finish, IInv, TypeOK
    <3>2. PICK no \in 1 .. MaxTrades \cup {NoTrade} : store'[p] = [store[p] EXCEPT !.trade_no = no]
      BY <3>1 DEF IInv, TypeOK
    <3>3. store'[p] \in Order /\ store'[p].paid = store[p].paid
      <4>1. [store[p] EXCEPT !.trade_no = no] \in Order
        BY <3>1, RecordsAreTyped
      <4>2. [store[p] EXCEPT !.trade_no = no].paid = store[p].paid
        BY <3>1 DEF Order
      <4>3. QED
        BY <3>2, <4>1, <4>2
    <3>4. store'[p] # Absent
      BY <3>3, AbsentAssumption
    <3>5. QED
      BY <1>1, <2>1, <3>3, <3>4 DEF Recorded
  <2>4. QED
    BY <2>2, <2>3
<1>4. ASSUME NEW o \in Orders,
             BuildForm(o) \/ CallPayment(o) \/ CallReturns(o) \/ Disconnect(o)
      PROVE  Recorded(p)' /\ paid'[p] = paid[p]
  BY <1>1, <1>4 DEF BuildForm, CallPayment, CallReturns, Disconnect, serverVars, gatewayVars, Recorded
<1>5. ASSUME NEW o \in Orders, Gateway(o) PROVE Recorded(p)' /\ paid'[p] = paid[p]
  <2>1. UNCHANGED store
    BY <1>5 DEF Gateway, Execute, Submit, Pay, Inform, InformOther, Hear, serverVars
  <2>2. UNCHANGED paid \/ (paid[o] = NoTrade /\ \E r : paid' = [paid EXCEPT ![o] = r])
    BY <1>5 DEF Gateway, Execute, Submit, Pay, Inform, InformOther, Hear
  <2>3. paid'[p] = paid[p]
    BY <1>1, <2>2 DEF IInv, TypeOK
  <2>4. QED
    BY <1>1, <2>1, <2>3 DEF Recorded
<1>6. ASSUME NEW m \in Notifications, m \in sent \/ m.defect # "none", Notify(m)
      PROVE  Recorded(p)' /\ paid'[p] = paid[p]
  <2>1. UNCHANGED paid
    BY <1>6 DEF Notify, gatewayVars
  <2>2. CASE Acceptable(m)
    BY <1>1, <1>6, <2>1, <2>2, NotifyRecords DEF Recorded
  <2>3. CASE ~Acceptable(m)
    BY <1>1, <1>6, <2>1, <2>3 DEF Notify, Recorded
  <2>4. QED
    BY <2>2, <2>3
<1>7. CASE UNCHANGED vars
  BY <1>1, <1>7 DEF vars, Recorded
<1>8. ~Restart
  BY DEF Restart, IInv, TypeOK
<1>9. QED
  BY <1>2, <1>3, <1>4, <1>5, <1>6, <1>7, <1>8 DEF Next, Sell, Deliver, Stray, IInv, TypeOK

(***************************************************************************)
(* The server keeps the ledger.                                            *)
(***************************************************************************)

\* No order's entry changes.
LEMMA LedgerStays ==
    ASSUME \A p \in Orders : /\ FullyPaid(p)' = FullyPaid(p)
                             /\ LedgerRecord(p)' = LedgerRecord(p)
                             /\ LedgerAcknowledged(p)' = LedgerAcknowledged(p)
    PROVE  UNCHANGED Ledger!ledgerVars
BY DEF Ledger!ledgerVars

\* Steps that neither enter nor record an order, nor tell the gateway anything.
LEMMA LedgerIdle ==
    ASSUME IInv, UNCHANGED <<price, paid, acks, settled>>,
           \A p \in Orders : /\ store'[p] = Absent <=> store[p] = Absent
                             /\ store[p] # Absent => store'[p].paid = store[p].paid
                             /\ store[p] = Absent => (handler'[p] = "new" <=> handler[p] = "new")
    PROVE  UNCHANGED Ledger!ledgerVars
<1>1. ASSUME NEW p \in Orders
      PROVE  /\ FullyPaid(p)' = FullyPaid(p)
             /\ LedgerRecord(p)' = LedgerRecord(p)
             /\ LedgerAcknowledged(p)' = LedgerAcknowledged(p)
  <2>1. FullyPaid(p)' = FullyPaid(p)
    BY DEF FullyPaid
  <2>2. LedgerAcknowledged(p)' = LedgerAcknowledged(p)
    BY DEF LedgerAcknowledged
  <2>3. LedgerRecord(p)' = LedgerRecord(p)
    <3>1. CASE store[p] = Absent
      BY <3>1 DEF LedgerRecord
    <3>2. CASE store[p] # Absent
      BY <3>2 DEF LedgerRecord
    <3>3. QED
      BY <3>1, <3>2
  <2>4. QED
    BY <2>1, <2>2, <2>3
<1>2. QED
  BY <1>1, LedgerStays

LEMMA LedgerHandler ==
    ASSUME IInv, NEW o \in Orders,
           \/ BuildForm(o) \/ CallPayment(o) \/ CallReturns(o) \/ Disconnect(o)
           \/ Execute(o) \/ Submit(o) \/ Inform(o) \/ InformOther(o)
    PROVE  UNCHANGED Ledger!ledgerVars
<1>1. UNCHANGED <<price, paid, acks, settled, store>>
  BY DEF BuildForm, CallPayment, CallReturns, Disconnect, Execute, Submit, Inform, InformOther,
         serverVars, gatewayVars
<1>2. \/ UNCHANGED handler
      \/ handler[o] # "new" /\ \E to \in {"page", "calling", "done"} : handler' = [handler EXCEPT ![o] = to]
  BY DEF BuildForm, CallPayment, CallReturns, Disconnect, Execute, Submit, Inform, InformOther,
         Handler, serverVars
<1>3. \A p \in Orders : handler'[p] = "new" <=> handler[p] = "new"
  BY <1>2 DEF IInv, TypeOK
<1>4. QED
  BY <1>1, <1>3, LedgerIdle

LEMMA LedgerFinish ==
    ASSUME IInv, NEW o \in Orders, Finish(o)
    PROVE  UNCHANGED Ledger!ledgerVars
<1>1. /\ UNCHANGED <<price, paid, acks, settled, trades>>
      /\ handler[o] = "calling" /\ handler' = [handler EXCEPT ![o] = "done"]
      /\ \/ UNCHANGED store
         \/ store[o] # Absent /\ \E no \in trades[o] : store' = [store EXCEPT ![o].trade_no = no]
  BY DEF Finish, Handler, gatewayVars
<1>2. \A p \in Orders : handler'[p] = "new" <=> handler[p] = "new"
  BY <1>1 DEF IInv, TypeOK
<1>3. CASE UNCHANGED store
  BY <1>1, <1>2, <1>3, LedgerIdle
<1>4. ASSUME store[o] # Absent, NEW no \in trades[o], store' = [store EXCEPT ![o].trade_no = no]
      PROVE  UNCHANGED Ledger!ledgerVars
  <2>1. /\ store[o] \in Order /\ store \in [Orders -> Order \cup {Absent}]
        /\ no \in 1 .. MaxTrades \cup {NoTrade}
    BY <1>4 DEF IInv, TypeOK
  <2>2. store'[o] = [store[o] EXCEPT !.trade_no = no]
    BY <1>4, <2>1
  <2>3. store'[o] \in Order /\ store'[o].paid = store[o].paid
    BY <2>1, <2>2, RecordsAreTyped DEF Order
  <2>4. store'[o] # Absent
    BY <2>3, AbsentAssumption
  <2>5. \A p \in Orders : p # o => store'[p] = store[p]
    BY <1>4, <2>1
  <2>6. QED
    BY <1>1, <1>2, <1>4, <2>3, <2>4, <2>5, LedgerIdle
<1>5. QED
  BY <1>1, <1>3, <1>4

LEMMA LedgerEnter ==
    ASSUME IInv, NEW o \in Orders, Remember(o)
    PROVE  Ledger!Enter(o)
<1>1. /\ UNCHANGED <<price, paid, acks, settled>>
      /\ store' = [store EXCEPT ![o] = [money |-> price[o], trade_no |-> NoTrade, paid |-> FALSE]]
      /\ handler[o] = "new" /\ handler' = [handler EXCEPT ![o] = "remembered"]
      /\ store \in [Orders -> Order \cup {Absent}]
      /\ handler \in [Orders -> {"new", "remembered", "page", "calling", "done"}]
  BY DEF Remember, Handler, gatewayVars, IInv, TypeOK
<1>2. store[o] = Absent
  BY <1>1 DEF IInv, StoreInv
<1>3. LedgerRecord(o) = "none"
  BY <1>1, <1>2 DEF LedgerRecord
<1>4. LedgerRecord(o)' = "open"
  <2>1. price[o] \in Amounts
    BY PriceListsAssumption DEF IInv, TypeOK
  <2>2. store'[o] \in Order /\ store'[o].paid = FALSE
    BY <1>1, <2>1, RecordsAreTyped
  <2>3. QED
    BY <2>2, AbsentAssumption DEF LedgerRecord
<1>5. \A p \in Orders : p # o => LedgerRecord(p)' = LedgerRecord(p)
  BY <1>1 DEF LedgerRecord
<1>6. \A p \in Orders : FullyPaid(p)' = FullyPaid(p)
  BY <1>1 DEF FullyPaid
<1>7. \A p \in Orders : LedgerAcknowledged(p)' = LedgerAcknowledged(p)
  BY <1>1 DEF LedgerAcknowledged
<1>8. QED
  BY <1>3, <1>4, <1>5, <1>6, <1>7 DEF Ledger!Enter

LEMMA LedgerPay ==
    ASSUME IInv, NEW o \in Orders, Pay(o)
    PROVE  Ledger!PayInFull(o) \/ UNCHANGED Ledger!ledgerVars
<1>1. UNCHANGED <<price, handler, store, acks, settled>>
  BY DEF Pay, serverVars
<1>2. paid[o] = NoTrade /\ \A p \in Orders : p # o => paid'[p] = paid[p]
  BY DEF Pay, IInv, TypeOK
<1>3. \A p \in Orders : p # o => FullyPaid(p)' = FullyPaid(p)
  BY <1>1, <1>2 DEF FullyPaid
<1>4. FullyPaid(o) = FALSE
  BY <1>2 DEF FullyPaid
<1>5. \A p \in Orders : LedgerRecord(p)' = LedgerRecord(p)
  BY <1>1 DEF LedgerRecord
<1>6. \A p \in Orders : LedgerAcknowledged(p)' = LedgerAcknowledged(p)
  BY <1>1 DEF LedgerAcknowledged
<1>7. CASE FullyPaid(o)'
  <2>1. FullyPaid(o)' = TRUE
    BY <1>7 DEF FullyPaid
  <2>2. QED
    BY <1>3, <1>5, <1>6, <2>1 DEF Ledger!PayInFull
<1>8. CASE ~FullyPaid(o)'
  <2>1. FullyPaid(o)' = FALSE
    BY <1>8 DEF FullyPaid
  <2>2. QED
    BY <1>3, <1>4, <1>5, <1>6, <2>1, LedgerStays
<1>9. QED
  BY <1>7, <1>8

LEMMA LedgerHear ==
    ASSUME IInv, NEW o \in Orders, Hear(o)
    PROVE  Ledger!Hear(o) \/ UNCHANGED Ledger!ledgerVars
<1>1. /\ UNCHANGED <<price, handler, store, paid, acks>>
      /\ o \in acks /\ settled' = settled \cup {o}
  BY DEF Hear, serverVars
<1>2. /\ \A p \in Orders : FullyPaid(p)' = FullyPaid(p)
      /\ \A p \in Orders : LedgerRecord(p)' = LedgerRecord(p)
      /\ \A p \in Orders : p # o => LedgerAcknowledged(p)' = LedgerAcknowledged(p)
      /\ LedgerAcknowledged(o)' = "heard"
  BY <1>1 DEF FullyPaid, LedgerRecord, LedgerAcknowledged
<1>3. CASE o \in settled
  <2>1. LedgerAcknowledged(o) = "heard"
    BY <1>3 DEF LedgerAcknowledged
  <2>2. QED
    BY <1>2, <2>1, LedgerStays
<1>4. CASE o \notin settled
  <2>1. LedgerAcknowledged(o) = "given"
    BY <1>1, <1>4 DEF LedgerAcknowledged
  <2>2. QED
    BY <1>2, <2>1 DEF Ledger!Hear
<1>5. QED
  BY <1>3, <1>4

LEMMA LedgerNotify ==
    ASSUME IInv, NEW m \in Notifications, m \in sent \/ m.defect # "none", Notify(m)
    PROVE  (\E o \in Orders : Ledger!Record(o)) \/ UNCHANGED Ledger!ledgerVars
<1>1. UNCHANGED <<price, handler, paid, settled>>
  BY DEF Notify, gatewayVars
<1>2. CASE ~Acceptable(m)
  BY <1>1, <1>2, LedgerIdle DEF Notify
<1>3. CASE Acceptable(m)
  <2> DEFINE o == m.order
  <2>1. o \in Orders /\ store[o] # Absent /\ FullyPaid(o)
    BY <1>3, AcceptedIsTrue
  <2>2. /\ store'[o] # Absent /\ store'[o].paid
        /\ \A p \in Orders : p # o => store'[p] = store[p]
        /\ acks' = acks \cup {o}
    BY <1>3, NotifyRecords
  <2> HIDE DEF o
  <2>3. /\ \A p \in Orders : FullyPaid(p)' = FullyPaid(p)
        /\ \A p \in Orders : p # o => LedgerRecord(p)' = LedgerRecord(p)
        /\ \A p \in Orders : p # o => LedgerAcknowledged(p)' = LedgerAcknowledged(p)
        /\ LedgerRecord(o)' = "paid"
    BY <1>1, <2>2 DEF FullyPaid, LedgerRecord, LedgerAcknowledged
  <2>4. LedgerAcknowledged(o)' = IF LedgerAcknowledged(o) = "no" THEN "given" ELSE LedgerAcknowledged(o)
    BY <1>1, <2>2 DEF LedgerAcknowledged
  <2>5. CASE store[o].paid
    <3>1. o \in acks /\ LedgerRecord(o) = "paid"
      BY <2>1, <2>5 DEF IInv, StoreInv, Recorded, LedgerRecord
    <3>2. LedgerAcknowledged(o)' = LedgerAcknowledged(o)
      BY <2>4, <3>1 DEF LedgerAcknowledged
    <3>3. QED
      BY <2>3, <3>1, <3>2, LedgerStays
  <2>6. CASE ~store[o].paid
    <3>1. LedgerRecord(o) = "open"
      BY <2>1, <2>6 DEF LedgerRecord
    <3>2. Ledger!Record(o)
      BY <2>1, <2>3, <2>4, <3>1 DEF Ledger!Record
    <3>3. QED
      BY <2>1, <3>2
  <2>7. QED
    BY <2>5, <2>6
<1>4. QED
  BY <1>2, <1>3

LEMMA LedgerRestart ==
    ASSUME IInv, Restart
    PROVE  Ledger!Restart
<1>1. UNCHANGED <<price, paid, settled, acks>> /\ store' = [o \in Orders |-> Absent]
  BY DEF Restart, gatewayVars
<1>2. \A p \in Orders : handler'[p] = "new" <=> handler[p] = "new"
  BY DEF Restart
<1>3. /\ \A p \in Orders : FullyPaid(p)' = FullyPaid(p)
      /\ \A p \in Orders : LedgerAcknowledged(p)' = LedgerAcknowledged(p)
  BY <1>1 DEF FullyPaid, LedgerAcknowledged
<1>4. ASSUME NEW p \in Orders
      PROVE  LedgerRecord(p)' = IF LedgerRecord(p) = "none" THEN "none" ELSE "lost"
  <2>1. store'[p] = Absent
    BY <1>1
  <2>2. CASE handler[p] = "new"
    <3>1. store[p] = Absent
      BY <2>2 DEF IInv, StoreInv
    <3>2. QED
      BY <1>2, <2>1, <2>2, <3>1 DEF LedgerRecord
  <2>3. CASE handler[p] # "new"
    <3>1. LedgerRecord(p)' = "lost"
      BY <1>2, <2>1, <2>3 DEF LedgerRecord
    <3>2. LedgerRecord(p) # "none"
      <4>1. CASE store[p] = Absent
        BY <2>3, <4>1 DEF LedgerRecord
      <4>2. CASE store[p] # Absent
        BY <4>2 DEF LedgerRecord
      <4>3. QED
        BY <4>1, <4>2
    <3>3. QED
      BY <3>1, <3>2
  <2>4. QED
    BY <2>2, <2>3
<1>5. QED
  BY <1>3, <1>4 DEF Ledger!Restart

LEMMA NextLedger == IInv /\ [Next]_vars => [Ledger!Next]_(Ledger!ledgerVars)
<1> SUFFICES ASSUME IInv, [Next]_vars
             PROVE  \/ Ledger!Restart
                    \/ \E o \in Orders : \/ Ledger!PayInFull(o) \/ Ledger!Enter(o)
                                         \/ Ledger!Record(o) \/ Ledger!Hear(o)
                    \/ UNCHANGED Ledger!ledgerVars
  BY DEF Ledger!Next
<1>1. ASSUME NEW o \in Orders, Sell(o) PROVE Ledger!Enter(o) \/ UNCHANGED Ledger!ledgerVars
  BY <1>1, LedgerEnter, LedgerHandler, LedgerFinish DEF Sell
<1>2. ASSUME NEW o \in Orders, Gateway(o)
      PROVE  Ledger!PayInFull(o) \/ Ledger!Hear(o) \/ UNCHANGED Ledger!ledgerVars
  BY <1>2, LedgerHandler, LedgerPay, LedgerHear DEF Gateway
<1>3. ASSUME NEW m \in Notifications, (m \in sent /\ Deliver(m)) \/ Stray(m)
      PROVE  (\E o \in Orders : Ledger!Record(o)) \/ UNCHANGED Ledger!ledgerVars
  BY <1>3, LedgerNotify DEF Deliver, Stray
<1>4. CASE Restart
  BY <1>4, LedgerRestart
<1>5. CASE UNCHANGED vars
  BY <1>5, LedgerIdle DEF vars
<1>6. sent \subseteq Notifications
  BY DEF IInv, TypeOK
<1>7. QED
  BY <1>1, <1>2, <1>3, <1>4, <1>5, <1>6 DEF Next

(***************************************************************************)
(* Theorems.                                                               *)
(***************************************************************************)

\* The variables keep their types.
THEOREM TypeCorrect == Spec => []TypeOK
<1>1. IInv => TypeOK
  BY DEF IInv
<1>2. QED
  BY <1>1, InvariantHolds, PTL

\* An order recorded as paid was paid in full, under the trade its record names
\* (axum_server.rs 186-192, 246-265).
THEOREM RecordsAreTrue == Spec => []RecordedIsPaid
<1>1. IInv => RecordedIsPaid
  BY DEF IInv, StoreInv, RecordedIsPaid, Recorded, FullyPaid
<1>2. QED
  BY <1>1, InvariantHolds, PTL

\* Unless the server restarted, what it answered "success" to is recorded
\* (axum_server.rs 246-265, axum.rs 112-137).
THEOREM AnswersAreRecorded == Spec => []SettledIsRecorded
<1>1. IInv => SettledIsRecorded
  BY DEF IInv, AnswerInv, SettledIsRecorded
<1>2. QED
  BY <1>1, InvariantHolds, PTL

\* No step but a restart takes a recorded payment away or changes its trade
\* number (axum_server.rs 170-216, 281-293).
THEOREM RecordsStay == Spec => RecordedStays
<1>1. IInv /\ IInv' /\ [Next]_vars =>
         [restarts' = restarts =>
            \A o \in Orders : Recorded(o) =>
               Recorded(o)' /\ store'[o].trade_no = store[o].trade_no]_vars
  <2> SUFFICES ASSUME IInv, IInv', [Next]_vars, restarts' = restarts, NEW o \in Orders, Recorded(o)
               PROVE  Recorded(o)' /\ store'[o].trade_no = store[o].trade_no
    OBVIOUS
  <2>1. Recorded(o)' /\ paid'[o] = paid[o]
    BY RecordStep
  <2>2. store[o].trade_no = paid[o].no /\ store'[o].trade_no = paid'[o].no
    BY <2>1 DEF IInv, StoreInv
  <2>3. QED
    BY <2>1, <2>2
<1>2. QED
  BY <1>1, InvariantHolds, PTL DEF Spec, RecordedStays

\* The server implements the ledger: what OrderLedger forbids, no interleaving of
\* handlers, calls, notifications and restarts can do (axum_server.rs 134-216,
\* 246-293).
THEOREM LedgerKept == Spec => KeepsLedger
<1>1. Init => Ledger!Init
  <2> SUFFICES ASSUME Init PROVE Ledger!Init
    OBVIOUS
  <2>1. ASSUME NEW p \in Orders
        PROVE  FullyPaid(p) = FALSE /\ LedgerRecord(p) = "none" /\ LedgerAcknowledged(p) = "no"
    BY DEF Init, FullyPaid, LedgerRecord, LedgerAcknowledged
  <2>2. QED
    BY <2>1 DEF Ledger!Init
<1>2. QED
  BY <1>1, NextLedger, InvariantHolds, PTL DEF Spec, KeepsLedger, Ledger!Spec

=============================================================================
