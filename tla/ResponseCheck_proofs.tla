----------------------- MODULE ResponseCheck_proofs ------------------------
(***************************************************************************)
(* Proofs about ResponseCheck, for any orders of any merchants and any     *)
(* forms of columns.                                                       *)
(***************************************************************************)

EXTENDS ResponseCheck, TLAPS

Queries == {"QueryOrder", "QueryOrders"}
Others == {"QueryMerchant", "QuerySettlements", "CreatePayment", "Refund"}

\* A row about order t: its columns say what the gateway keeps, or are damaged
\* beyond use, and a payment they report has taken place.
RowAbout(row, t) ==
    /\ row.trade_no.form # "text" \/ row.trade_no.value = t
    /\ row.out_trade_no.form # "text" \/ row.out_trade_no.value = Books[t].out_trade_no
    /\ row.pid.value \in {Books[t].pid, -1}
    /\ row.status.value = 1 => status[t] \in {1, 2}

StatusInv == status \in [DOMAIN Books -> 0 .. 3]

\* An order is named in one way, or the call is over.
AskedInv ==
    asked.endpoint = "QueryOrder" /\ verdict # "Param" =>
        Identified(asked.trade_no, asked.out_trade_no)

AnswerInv ==
    asked.endpoint \in Queries =>
        \A i \in DOMAIN answer.rows : \E t \in DOMAIN Books : RowAbout(answer.rows[i], t)

\* What was returned has passed the checks.
VerdictInv == verdict = "ok" => \A i \in DOMAIN Decoded : Fits(Decoded[i]) /\ Valid(Decoded[i])

\* Nobody answers before being asked.
ProgressInv ==
    IF asked = Nothing THEN verdict = "none" /\ answer = NoAnswer
    ELSE asked.endpoint \in Queries \cup Others

IInv == StatusInv /\ AskedInv /\ AnswerInv /\ VerdictInv /\ ProgressInv

LEMMA NothingAsked == Nothing.endpoint = "none"
BY DEF Nothing

LEMMA InitIInv == Init => IInv
<1> SUFFICES ASSUME Init PROVE IInv
  OBVIOUS
<1>1. asked.endpoint = "none" /\ verdict = "none"
  BY DEF Init, Nothing
<1>2. QED
  BY <1>1 DEF Init, IInv, StatusInv, AskedInv, AnswerInv, VerdictInv, ProgressInv, Queries

(***************************************************************************)
(* The call.                                                               *)
(***************************************************************************)

LEMMA AskOrderStep ==
    ASSUME IInv, NEW endpoint \in {"QueryOrder", "Refund"}, NEW trade_no, NEW out_trade_no,
           AskOrder(endpoint, trade_no, out_trade_no)
    PROVE  IInv'
<1>1. /\ asked = Nothing /\ answer = NoAnswer /\ UNCHANGED <<status, answer>>
      /\ asked' = [endpoint |-> endpoint, trade_no |-> trade_no, out_trade_no |-> out_trade_no]
      /\ verdict' = IF Identified(trade_no, out_trade_no) THEN "none" ELSE "Param"
  BY DEF AskOrder, IInv, ProgressInv
<1>2. answer'.rows = <<>> /\ DOMAIN answer'.rows = {}
  BY <1>1 DEF NoAnswer
<1>3. StatusInv' /\ AnswerInv' /\ VerdictInv'
  BY <1>1, <1>2 DEF IInv, StatusInv, AnswerInv, VerdictInv
<1>4. AskedInv'
  BY <1>1 DEF AskedInv
<1>5. ProgressInv'
  <2>1. asked'.endpoint = endpoint
    BY <1>1
  <2>2. asked' # Nothing
    BY <2>1, NothingAsked
  <2>3. QED
    BY <2>1, <2>2 DEF ProgressInv, Queries, Others
<1>6. QED
  BY <1>3, <1>4, <1>5 DEF IInv

LEMMA AskOtherStep ==
    ASSUME IInv, NEW endpoint \in {"QueryOrders", "QueryMerchant", "QuerySettlements", "CreatePayment"},
           AskOther(endpoint)
    PROVE  IInv'
<1>1. /\ asked = Nothing /\ answer = NoAnswer /\ verdict = "none"
      /\ UNCHANGED <<status, answer, verdict>> /\ asked' = [Nothing EXCEPT !.endpoint = endpoint]
  BY DEF AskOther, IInv, ProgressInv
<1>2. answer'.rows = <<>> /\ DOMAIN answer'.rows = {} /\ asked'.endpoint = endpoint
  <2>1. answer'.rows = <<>>
    BY <1>1 DEF NoAnswer
  <2>2. asked'.endpoint = endpoint
    BY <1>1 DEF Nothing
  <2>3. QED
    BY <2>1, <2>2
<1>3. StatusInv' /\ AskedInv' /\ AnswerInv' /\ VerdictInv'
  BY <1>1, <1>2 DEF IInv, StatusInv, AskedInv, AnswerInv, VerdictInv
<1>4. ProgressInv'
  <2>1. asked' # Nothing
    BY <1>2, NothingAsked
  <2>2. QED
    BY <1>2, <2>1 DEF ProgressInv, Queries, Others
<1>5. QED
  BY <1>3, <1>4 DEF IInv

LEMMA CheckStep ==
    ASSUME IInv, Check
    PROVE  IInv'
<1>1. /\ verdict = "none" /\ answer # NoAnswer /\ UNCHANGED <<status, asked, answer>>
      /\ verdict' \in {"ok", "InvalidResponse"}
      /\ verdict' = "ok" => \A i \in DOMAIN Decoded : Fits(Decoded[i]) /\ Valid(Decoded[i])
  BY DEF Check
<1>2. Decoded' = Decoded /\ \A payload : Valid(payload)' <=> Valid(payload)
  <2>1. asked' = asked /\ answer' = answer
    BY <1>1
  <2>2. QED
    BY <2>1 DEF Decoded, Valid, ValidOrder
<1>3. VerdictInv'
  BY <1>1, <1>2 DEF VerdictInv
<1>4. StatusInv' /\ AskedInv' /\ AnswerInv'
  BY <1>1 DEF IInv, StatusInv, AskedInv, AnswerInv, RowAbout
<1>5. ProgressInv'
  BY <1>1 DEF IInv, ProgressInv
<1>6. QED
  BY <1>3, <1>4, <1>5 DEF IInv

(***************************************************************************)
(* The gateway.                                                            *)
(***************************************************************************)

\* What was paid stays paid or is reversed.
LEMMA StatusStep ==
    ASSUME IInv, UNCHANGED <<asked, answer, verdict>>, StatusInv',
           \A t \in DOMAIN Books : status[t] \in {1, 2} => status'[t] \in {1, 2}
    PROVE  IInv'
<1>1. AnswerInv'
  <2>1. ASSUME NEW row, NEW t \in DOMAIN Books, RowAbout(row, t) PROVE RowAbout(row, t)'
    BY <2>1 DEF RowAbout
  <2>2. QED
    BY <2>1 DEF IInv, AnswerInv
<1>2. Decoded' = Decoded /\ \A payload : Valid(payload)' <=> Valid(payload)
  BY DEF Decoded, Valid, ValidOrder
<1>3. VerdictInv'
  BY <1>2 DEF IInv, VerdictInv
<1>4. QED
  BY <1>1, <1>3 DEF IInv, AskedInv, ProgressInv

LEMMA GatewayStep ==
    ASSUME IInv, NEW t \in DOMAIN Books, Pay(t) \/ Reverse(t) \/ Close(t)
    PROVE  IInv'
<1>1. UNCHANGED <<asked, answer, verdict>>
  BY DEF Pay, Reverse, Close
<1>2. \E s \in 1 .. 3 : status' = [status EXCEPT ![t] = s] /\ (status[t] = 0 \/ s = 2)
  BY DEF Pay, Reverse, Close
<1>3. StatusInv' /\ \A u \in DOMAIN Books : status[u] \in {1, 2} => status'[u] \in {1, 2}
  BY <1>2 DEF IInv, StatusInv
<1>4. QED
  BY <1>1, <1>3, StatusStep

LEMMA RowsAreAbout ==
    ASSUME StatusInv, NEW t \in DOMAIN Books, NEW intForm, NEW textForm
    PROVE  /\ RowAbout(RowOf(t, intForm, textForm), t)
           /\ \A row \in Damaged(RowOf(t, "number", "text")) : RowAbout(row, t)
<1>1. RowAbout(RowOf(t, intForm, textForm), t)
  BY DEF RowAbout, RowOf, Column, Plain
<1>2. ASSUME NEW row \in Damaged(RowOf(t, "number", "text")) PROVE RowAbout(row, t)
  <2>1. MaxI32 + 1 # 1
    BY IntegersAssumption
  <2>2. QED
    BY <1>2, <2>1 DEF Damaged, RowAbout, RowOf, Column, Plain
<1>3. QED
  BY <1>1, <1>2

LEMMA ReplyStep ==
    ASSUME IInv, NEW rows, NEW count, Reply(rows, count), asked # Nothing,
           asked.endpoint \in Queries =>
              \A i \in DOMAIN rows : \E t \in DOMAIN Books : RowAbout(rows[i], t)
    PROVE  IInv'
<1>1. /\ verdict = "none" /\ answer' = [rows |-> rows, count |-> count]
      /\ UNCHANGED <<status, asked, verdict>>
  BY DEF Reply
<1>2. AnswerInv'
  BY <1>1 DEF AnswerInv, RowAbout
<1>3. QED
  BY <1>1, <1>2 DEF IInv, StatusInv, AskedInv, VerdictInv, ProgressInv

LEMMA RespondStep ==
    ASSUME IInv, asked # Nothing, Respond
    PROVE  IInv'
<1>1. CASE asked.endpoint = "QueryOrder"
  <2>1. PICK row \in OrderRows \cup UNION {Damaged(RowOf(t, "number", "text")) : t \in DOMAIN Books} :
            Reply(<<row>>, NoAnswer.count)
    BY <1>1 DEF Respond
  <2>2. \E t \in DOMAIN Books : RowAbout(row, t)
    BY <2>1, RowsAreAbout DEF IInv, OrderRows
  <2>3. \A i \in DOMAIN <<row>> : <<row>>[i] = row
    OBVIOUS
  <2>4. QED
    BY <2>1, <2>2, <2>3, ReplyStep
<1>2. CASE asked.endpoint = "QueryOrders"
  <2>1. CASE \E row \in OrderRows, count \in Counts : Reply(<<row>>, count)
    <3>1. PICK row \in OrderRows, count \in Counts : Reply(<<row>>, count)
      BY <2>1
    <3>2. \E t \in DOMAIN Books : RowAbout(row, t)
      BY <3>1, RowsAreAbout DEF IInv, OrderRows
    <3>3. \A i \in DOMAIN <<row>> : <<row>>[i] = row
      OBVIOUS
    <3>4. QED
      BY <3>1, <3>2, <3>3, ReplyStep
  <2>2. CASE \E t, u \in DOMAIN Books :
                Reply(<<RowOf(t, "number", "text"), RowOf(u, "number", "null")>>, Column(2, "number"))
    <3>1. PICK t \in DOMAIN Books, u \in DOMAIN Books :
              Reply(<<RowOf(t, "number", "text"), RowOf(u, "number", "null")>>, Column(2, "number"))
      BY <2>2
    <3>2. RowAbout(RowOf(t, "number", "text"), t) /\ RowAbout(RowOf(u, "number", "null"), u)
      BY RowsAreAbout DEF IInv
    <3> DEFINE rows == <<RowOf(t, "number", "text"), RowOf(u, "number", "null")>>
    <3>3. \A i \in DOMAIN rows : rows[i] = RowOf(t, "number", "text") \/ rows[i] = RowOf(u, "number", "null")
      OBVIOUS
    <3>4. \A i \in DOMAIN rows : \E v \in DOMAIN Books : RowAbout(rows[i], v)
      <4> HIDE DEF rows
      <4>1. QED
        BY <3>2, <3>3
    <3>5. Reply(rows, Column(2, "number"))
      BY <3>1
    <3>6. QED
      <4> HIDE DEF rows
      <4>1. QED
        BY <3>4, <3>5, ReplyStep
  <2>3. QED
    BY <1>2, <2>1, <2>2 DEF Respond
<1>3. CASE asked.endpoint \notin Queries
  <2>1. \E rows, count : Reply(rows, count)
    <3>1. asked.endpoint \in Others
      BY <1>3 DEF IInv, ProgressInv
    <3>2. QED
      BY <3>1 DEF Respond, Others
  <2>2. QED
    BY <1>3, <2>1, ReplyStep
<1>4. QED
  BY <1>1, <1>2, <1>3 DEF Queries

LEMMA NextIInv == IInv /\ [Next]_vars => IInv'
<1> SUFFICES ASSUME IInv, [Next]_vars PROVE IInv'
  OBVIOUS
<1>1. ASSUME UNCHANGED vars PROVE IInv'
  <2>1. UNCHANGED <<asked, answer, verdict>> /\ StatusInv'
        /\ \A t \in DOMAIN Books : status[t] \in {1, 2} => status'[t] \in {1, 2}
    BY <1>1 DEF vars, IInv, StatusInv
  <2>2. QED
    BY <2>1, StatusStep
<1>2. QED
  BY <1>1, AskOrderStep, AskOtherStep, RespondStep, CheckStep, GatewayStep DEF Next

LEMMA InvariantHolds == Spec => []IInv
BY InitIInv, NextIInv, PTL DEF Spec

(***************************************************************************)
(* What a returned row says.                                               *)
(***************************************************************************)

LEMMA Columns ==
    ASSUME NEW column
    PROVE  /\ DefaultOnNull(column) = "" \/ DefaultOnNull(column) = Garbled
                \/ (column.form = "text" /\ DefaultOnNull(column) = column.value)
           /\ FlexInt(column) \in {column.value, 0, Garbled}
           /\ FlexI32(column) \in {FlexInt(column), Garbled}
           /\ FlexU64(column) \in {FlexInt(column), Garbled}
BY DEF DefaultOnNull, FlexInt, FlexI32, FlexU64

\* An order that passed the checks is the merchant's, under the numbers the
\* gateway keeps it with.
LEMMA RowChecked ==
    ASSUME NEW row, NEW t \in DOMAIN Books, RowAbout(row, t),
           Fits(Order(row)), ValidRow(Order(row))
    PROVE  /\ Order(row).trade_no = t /\ Order(row).out_trade_no = Books[t].out_trade_no
           /\ Books[t].pid = Pid
           /\ IsPaid(Order(row)) => status[t] \in {1, 2}
<1>1. /\ Order(row).trade_no = DefaultOnNull(row.trade_no)
      /\ Order(row).out_trade_no = DefaultOnNull(row.out_trade_no)
      /\ Order(row).pid = FlexU64(row.pid) /\ Order(row).status = FlexI32(row.status)
      /\ DOMAIN Order(row) = {"trade_no", "out_trade_no", "pid", "money", "status", "param"}
  BY DEF Order
<1>2. DefaultOnNull(row.trade_no) # Garbled /\ DefaultOnNull(row.out_trade_no) # Garbled
  BY <1>1 DEF Fits
<1>3. DefaultOnNull(row.trade_no) # ""
  BY <1>1, BooksAssumption DEF ValidRow, TradeNoSound
<1>4. DefaultOnNull(row.out_trade_no) # ""
  BY <1>1, BooksAssumption DEF ValidRow, OrderNoSound
<1>5. DefaultOnNull(row.trade_no) = t /\ DefaultOnNull(row.out_trade_no) = Books[t].out_trade_no
  BY <1>2, <1>3, <1>4, Columns DEF RowAbout
<1>6. Books[t].pid = Pid
  <2>1. FlexU64(row.pid) = Pid
    BY <1>1 DEF ValidRow
  <2>2. Pid # Garbled /\ Pid # 0 /\ Pid # -1
    BY PidAssumption, IntegersAssumption
  <2>3. row.pid.value = Pid
    BY <2>1, <2>2, Columns
  <2>4. QED
    BY <2>2, <2>3 DEF RowAbout
<1>7. ASSUME IsPaid(Order(row)) PROVE status[t] \in {1, 2}
  <2>1. FlexI32(row.status) = 1 /\ Garbled # 1
    BY <1>1, <1>7, IntegersAssumption DEF IsPaid
  <2>2. row.status.value = 1
    <3>1. FlexI32(row.status) \in {FlexInt(row.status), Garbled}
      BY Columns
    <3>2. FlexInt(row.status) \in {row.status.value, 0, Garbled}
      BY Columns
    <3>3. QED
      BY <2>1, <3>1, <3>2
  <2>3. QED
    BY <2>2 DEF RowAbout
<1>8. QED
  BY <1>1, <1>5, <1>6, <1>7

LEMMA ReturnedChecked ==
    ASSUME IInv, NEW payload \in Returned
    PROVE  /\ verdict = "ok" /\ Fits(payload) /\ Valid(payload)
           /\ \E i \in DOMAIN answer.rows : payload = Decoded[i]
<1>1. PICK i \in IF verdict = "ok" THEN DOMAIN Decoded ELSE {} : payload = Decoded[i]
  BY DEF Returned
<1>2. verdict = "ok" /\ i \in DOMAIN Decoded
  BY <1>1
<1>3. DOMAIN Decoded = DOMAIN answer.rows
  BY DEF Decoded
<1>4. QED
  BY <1>1, <1>2, <1>3 DEF IInv, VerdictInv

LEMMA ReturnedOrder ==
    ASSUME IInv, asked.endpoint \in Queries, NEW order \in Returned
    PROVE  /\ order.trade_no \in DOMAIN Books
           /\ order.out_trade_no = Books[order.trade_no].out_trade_no
           /\ Books[order.trade_no].pid = Pid
           /\ IsPaid(order) => status[order.trade_no] \in {1, 2}
           /\ asked.endpoint = "QueryOrder" => ValidOrder(order)
<1>1. PICK i \in DOMAIN answer.rows : order = Decoded[i]
  BY ReturnedChecked
<1>2. order = Order(answer.rows[i])
  BY <1>1 DEF Decoded, Queries
<1>3. /\ Fits(order) /\ ValidRow(order)
      /\ asked.endpoint = "QueryOrder" => ValidOrder(order)
  BY ReturnedChecked DEF Valid, ValidOrder, Queries
<1>4. PICK t \in DOMAIN Books : RowAbout(answer.rows[i], t)
  BY <1>1 DEF IInv, AnswerInv
<1>5. QED
  BY <1>2, <1>3, <1>4, RowChecked

(***************************************************************************)
(* Theorems.                                                               *)
(***************************************************************************)

LEMMA AnswersAreMeant == IInv => ReturnedIsMeant
<1> SUFFICES ASSUME IInv, asked.endpoint = "QueryOrder", NEW order \in Returned
             PROVE  /\ Meant(order.trade_no)
                    /\ \A t \in DOMAIN Books : Meant(t) => order.trade_no = t
  BY DEF ReturnedIsMeant
<1> DEFINE no == order.trade_no
<1>1. /\ no \in DOMAIN Books /\ order.out_trade_no = Books[no].out_trade_no
      /\ Books[no].pid = Pid /\ ValidOrder(order)
  BY ReturnedOrder DEF Queries
<1>2. Identified(asked.trade_no, asked.out_trade_no)
  BY ReturnedChecked DEF IInv, AskedInv
<1>3. CASE asked.trade_no # ""
  <2>1. asked.trade_no = no /\ asked.out_trade_no = ""
    BY <1>1, <1>2, <1>3 DEF ValidOrder, Identified
  <2>2. QED
    BY <1>1, <1>3, <2>1 DEF Meant
<1>4. CASE asked.trade_no = ""
  <2>1. asked.out_trade_no = Books[no].out_trade_no /\ asked.out_trade_no # ""
    BY <1>1, <1>4, BooksAssumption DEF ValidOrder
  <2>2. Meant(no)
    BY <1>1, <1>4, <2>1 DEF Meant
  <2>3. ASSUME NEW t \in DOMAIN Books, Meant(t) PROVE no = t
    <3>1. Books[t].pid = Books[no].pid /\ Books[t].out_trade_no = Books[no].out_trade_no
      BY <1>1, <2>1, <2>3 DEF Meant
    <3>2. QED
      BY <1>1, <3>1, BooksAssumption
  <2>4. QED
    BY <2>2, <2>3
<1>5. QED
  BY <1>3, <1>4

\* A query that succeeds returns the order it asked for: the one with the trade
\* number or, among the merchant's own, with the order number; also when the
\* gateway answers about any other of its orders (order.rs 156-192).
THEOREM QueryReturnsTheOrder == Spec => []ReturnedIsMeant
BY InvariantHolds, AnswersAreMeant, PTL

LEMMA RowsAreOwn == IInv => NothingOfOthers
<1> SUFFICES ASSUME IInv, NEW row \in Returned
             PROVE  /\ asked.endpoint \in Queries => Books[row.trade_no].pid = Pid
                    /\ asked.endpoint = "QueryMerchant" => row.pid = Pid
                    /\ asked.endpoint = "QuerySettlements" =>
                          \A t \in DOMAIN Books : Books[t].pid # Pid => row.uid # Books[t].pid
  BY DEF NothingOfOthers, Queries
<1>1. asked.endpoint \in Queries => Books[row.trade_no].pid = Pid
  BY ReturnedOrder
<1>2. asked.endpoint = "QueryMerchant" => row.pid = Pid
  BY ReturnedChecked DEF Valid, ValidMerchant
<1>3. ASSUME asked.endpoint = "QuerySettlements", NEW t \in DOMAIN Books, Books[t].pid # Pid
      PROVE  row.uid # Books[t].pid
  <2>1. row.uid \in {0, Pid}
    BY <1>3, ReturnedChecked DEF Valid, ValidSettlement
  <2>2. QED
    BY <1>3, <2>1, BooksAssumption
<1>4. QED
  BY <1>1, <1>2, <1>3

\* No row that is returned names another merchant (order.rs 223-235,
\* merchant.rs 86-100, 172-198).
THEOREM RowsOfOthersAreRefused == Spec => []NothingOfOthers
BY InvariantHolds, RowsAreOwn, PTL

\* An order that counts as paid was paid, however old the answer
\* (order.rs 137-144, types.rs 164-177).
THEOREM PaidMeansPaid == Spec => []PaidWasPaid
<1>1. IInv => PaidWasPaid
  BY ReturnedOrder DEF PaidWasPaid, Queries
<1>2. QED
  BY InvariantHolds, <1>1, PTL

(***************************************************************************)
(* Types.                                                                  *)
(***************************************************************************)

\* What TypeOK says besides the statuses of orders.
StepTypes ==
    /\ asked.endpoint \in {"none"} \cup Queries \cup Others
    /\ verdict \in {"none", "ok", "Param", "InvalidResponse"}
    /\ answer.count.value \in -1 .. 2
    /\ verdict = "Param" => answer = NoAnswer

LEMMA CountsAreSmall ==
    /\ NoAnswer.count.value \in -1 .. 2
    /\ \A count \in Counts : count.value \in -1 .. 2
    /\ Column(2, "number").value \in -1 .. 2
BY DEF NoAnswer, Counts, Column

LEMMA InitStepTypes == Init => StepTypes
<1> SUFFICES ASSUME Init PROVE StepTypes
  OBVIOUS
<1>1. asked.endpoint = "none" /\ verdict = "none" /\ answer = NoAnswer
  BY DEF Init, Nothing
<1>2. QED
  BY <1>1, CountsAreSmall DEF StepTypes

LEMMA NextStepTypes == IInv /\ StepTypes /\ [Next]_vars => StepTypes'
<1> SUFFICES ASSUME IInv, StepTypes, [Next]_vars PROVE StepTypes'
  OBVIOUS
<1>1. ASSUME UNCHANGED <<asked, answer, verdict>> PROVE StepTypes'
  BY <1>1 DEF StepTypes
<1>2. ASSUME NEW endpoint \in {"QueryOrder", "Refund"}, NEW trade_no, NEW out_trade_no,
             AskOrder(endpoint, trade_no, out_trade_no)
      PROVE  StepTypes'
  <2>1. /\ answer = NoAnswer /\ answer' = answer /\ asked'.endpoint = endpoint
        /\ verdict' \in {"none", "Param"}
    BY <1>2 DEF AskOrder, IInv, ProgressInv
  <2>2. QED
    BY <2>1 DEF StepTypes, Queries, Others
<1>3. ASSUME NEW endpoint \in {"QueryOrders", "QueryMerchant", "QuerySettlements", "CreatePayment"},
             AskOther(endpoint)
      PROVE  StepTypes'
  <2>1. asked'.endpoint = endpoint /\ UNCHANGED <<answer, verdict>>
    BY <1>3 DEF AskOther, Nothing
  <2>2. QED
    BY <2>1 DEF StepTypes, Queries, Others
<1>4. ASSUME NEW rows, NEW count, count.value \in -1 .. 2, Reply(rows, count) PROVE StepTypes'
  BY <1>4 DEF Reply, StepTypes
<1>5. ASSUME asked # Nothing, Respond PROVE StepTypes'
  <2>1. asked.endpoint \in Queries \cup Others
    BY <1>5 DEF IInv, ProgressInv
  <2>2. \E rows, count : count.value \in -1 .. 2 /\ Reply(rows, count)
    BY <1>5, <2>1, CountsAreSmall DEF Respond, Queries, Others
  <2>3. QED
    BY <2>2, <1>4
<1>6. CASE Check
  BY <1>6 DEF Check, StepTypes
<1>7. ASSUME NEW t \in DOMAIN Books, Pay(t) \/ Reverse(t) \/ Close(t) PROVE StepTypes'
  BY <1>1, <1>7 DEF Pay, Reverse, Close
<1>8. CASE UNCHANGED vars
  BY <1>1, <1>8 DEF vars
<1>9. QED
  BY <1>2, <1>3, <1>5, <1>6, <1>7, <1>8 DEF Next

LEMMA StatusesFit == IInv /\ asked.endpoint \in Queries =>
    \A order \in Returned : order.status \in -MaxI32 - 1 .. MaxI32
<1> SUFFICES ASSUME IInv, asked.endpoint \in Queries, NEW order \in Returned
             PROVE  order.status \in -MaxI32 - 1 .. MaxI32
  OBVIOUS
<1>1. PICK i \in DOMAIN Decoded : verdict = "ok" /\ order = Decoded[i]
  BY DEF Returned
<1>2. Fits(order) /\ order = Order(answer.rows[i])
  BY <1>1 DEF IInv, VerdictInv, Decoded, Queries
<1>3. order.status = FlexI32(answer.rows[i].status) /\ order.status # Garbled
  BY <1>2 DEF Order, Fits
<1>4. QED
  BY <1>3 DEF FlexI32

\* The variables keep their types, and the status of a returned order fits an
\* i32.
THEOREM TypeCorrect == Spec => []TypeOK
<1>1. Init => IInv /\ StepTypes
  BY InitIInv, InitStepTypes
<1>2. IInv /\ StepTypes /\ [Next]_vars => IInv' /\ StepTypes'
  BY NextIInv, NextStepTypes
<1>3. IInv /\ StepTypes => TypeOK
  BY StatusesFit DEF IInv, StatusInv, StepTypes, TypeOK, Queries, Others, Lists
<1>4. QED
  BY <1>1, <1>2, <1>3, PTL DEF Spec

(***************************************************************************)
(* Honest answers.                                                         *)
(***************************************************************************)

\* The answer to a query is one row, and no more is refused than fails a check.
RefusalInv ==
    asked.endpoint = "QueryOrder" =>
        /\ answer # NoAnswer => DOMAIN answer.rows = {1} /\ answer.rows[1].param.value = "note"
        /\ verdict = "InvalidResponse" =>
              ~(\A i \in DOMAIN Decoded : Fits(Decoded[i]) /\ Valid(Decoded[i]))

LEMMA RowsHaveNotes ==
    ASSUME NEW t, NEW intForm, NEW textForm
    PROVE  /\ RowOf(t, intForm, textForm).param.value = "note"
           /\ \A row \in Damaged(RowOf(t, "number", "text")) : row.param.value = "note"
BY DEF Damaged, RowOf, Column, Plain

LEMMA NextRefusalInv == IInv /\ RefusalInv /\ [Next]_vars => RefusalInv'
<1> SUFFICES ASSUME IInv, RefusalInv, [Next]_vars PROVE RefusalInv'
  OBVIOUS
<1>1. ASSUME UNCHANGED <<asked, answer, verdict>> PROVE RefusalInv'
  <2>1. Decoded' = Decoded /\ \A payload : Valid(payload)' <=> Valid(payload)
    BY <1>1 DEF Decoded, Valid, ValidOrder
  <2>2. QED
    BY <1>1, <2>1 DEF RefusalInv
<1>2. ASSUME asked = Nothing, answer' = answer, verdict' # "InvalidResponse" PROVE RefusalInv'
  BY <1>2 DEF IInv, ProgressInv, RefusalInv
<1>3. ASSUME NEW rows, NEW count, Reply(rows, count), asked # Nothing,
             asked.endpoint = "QueryOrder" => DOMAIN rows = {1} /\ rows[1].param.value = "note"
      PROVE  RefusalInv'
  BY <1>3 DEF Reply, RefusalInv
<1>4. ASSUME asked # Nothing, Respond PROVE RefusalInv'
  <2>1. CASE asked.endpoint = "QueryOrder"
    <3>1. PICK row \in OrderRows \cup UNION {Damaged(RowOf(t, "number", "text")) : t \in DOMAIN Books} :
              Reply(<<row>>, NoAnswer.count)
      BY <1>4, <2>1 DEF Respond
    <3>2. row.param.value = "note"
      BY <3>1, RowsHaveNotes DEF OrderRows
    <3>3. DOMAIN <<row>> = {1} /\ <<row>>[1] = row
      OBVIOUS
    <3>4. QED
      BY <1>3, <1>4, <3>1, <3>2, <3>3
  <2>2. CASE asked.endpoint # "QueryOrder"
    <3>1. asked.endpoint \in Queries \cup Others
      BY <1>4 DEF IInv, ProgressInv
    <3>2. \E rows, count : Reply(rows, count)
      BY <1>4, <2>2, <3>1 DEF Respond, Queries, Others
    <3>3. QED
      BY <1>3, <1>4, <2>2, <3>2
  <2>3. QED
    BY <2>1, <2>2
<1>5. CASE Check
  <2>1. Decoded' = Decoded /\ \A payload : Valid(payload)' <=> Valid(payload)
    <3>1. asked' = asked /\ answer' = answer
      BY <1>5 DEF Check
    <3>2. QED
      BY <3>1 DEF Decoded, Valid, ValidOrder
  <2>2. asked.endpoint = "QueryOrder" => asked.endpoint \notin Lists
    BY DEF Lists
  <2>3. QED
    BY <1>5, <2>1, <2>2 DEF Check, RefusalInv
<1>6. ASSUME NEW endpoint, NEW trade_no, NEW out_trade_no, AskOrder(endpoint, trade_no, out_trade_no)
      PROVE  RefusalInv'
  BY <1>2, <1>6 DEF AskOrder
<1>7. ASSUME NEW endpoint, AskOther(endpoint) PROVE RefusalInv'
  BY <1>2, <1>7 DEF AskOther, IInv, ProgressInv
<1>8. ASSUME NEW t \in DOMAIN Books, Pay(t) \/ Reverse(t) \/ Close(t) PROVE RefusalInv'
  BY <1>1, <1>8 DEF Pay, Reverse, Close
<1>9. CASE UNCHANGED vars
  BY <1>1, <1>9 DEF vars
<1>10. QED
  BY <1>4, <1>5, <1>6, <1>7, <1>8, <1>9 DEF Next

\* An honest row about the order that is meant fits and is valid.
LEMMA HonestRow ==
    ASSUME asked.endpoint = "QueryOrder", Identified(asked.trade_no, asked.out_trade_no), Honest,
           answer.rows[1].param.value = "note"
    PROVE  Fits(Order(answer.rows[1])) /\ ValidOrder(Order(answer.rows[1]))
<1> DEFINE row   == answer.rows[1]
           order == Order(row)
<1>1. PICK t \in DOMAIN Books :
          /\ Meant(t)
          /\ row.trade_no = Plain(t)
          /\ row.out_trade_no = Plain(Books[t].out_trade_no)
          /\ row.money = Plain(Books[t].money)
          /\ row.pid \in {Column(Pid, form) : form \in {"number", "string", "float"}}
          /\ row.status \in {Column(s, form) : s \in 0 .. 3, form \in {"number", "string", "float", "null"}}
          /\ row.param.form \in {"text", "null", "missing"}
  BY DEF Honest
<1>2. ASSUME NEW text PROVE DefaultOnNull(Plain(text)) = text
  BY DEF DefaultOnNull, Plain, Column
<1>3. FlexU64(row.pid) = Pid
  <2>1. PICK form \in {"number", "string", "float"} : row.pid = Column(Pid, form)
    BY <1>1
  <2>2. FlexInt(row.pid) = Pid
    BY <2>1 DEF FlexInt, Column
  <2>3. QED
    BY <2>2, PidAssumption DEF FlexU64
<1>4. FlexI32(row.status) \in Int
  <2>1. PICK s \in 0 .. 3, form \in {"number", "string", "float", "null"} : row.status = Column(s, form)
    BY <1>1
  <2>2. FlexInt(row.status) \in 0 .. 3
    BY <2>1 DEF FlexInt, Column
  <2>3. QED
    BY <2>2, IntegersAssumption DEF FlexI32
<1>5. DefaultOnNull(row.param) \in {"", "note"}
  <2>1. row.param.form \in {"text", "null", "missing"}
    BY <1>1
  <2>2. QED
    BY <2>1 DEF DefaultOnNull
<1>6. /\ order.trade_no = t /\ order.out_trade_no = Books[t].out_trade_no /\ order.money = Books[t].money
      /\ order.pid = Pid /\ order.status = FlexI32(row.status) /\ order.param = DefaultOnNull(row.param)
      /\ DOMAIN order = {"trade_no", "out_trade_no", "pid", "money", "status", "param"}
  BY <1>1, <1>2, <1>3 DEF Order
<1>7. Fits(order)
  <2>1. Pid # Garbled /\ FlexI32(row.status) # Garbled
    BY <1>4, PidAssumption, IntegersAssumption
  <2>2. QED
    BY <1>5, <1>6, <2>1, GarbledAssumption DEF Fits
<1>8. Amount(order) \in Moneys
  <2>1. DecimalOf(order.money) = Decimals[Books[t].money] /\ Decimals[Books[t].money] # Garbled
    BY <1>6, AmountsAssumption, IntegersAssumption DEF DecimalOf
  <2>2. QED
    BY <2>1, AmountsAssumption DEF Amount
<1>9. ValidRow(order)
  BY <1>6, <1>8, BooksAssumption DEF ValidRow, TradeNoSound, OrderNoSound
<1>10. IF asked.trade_no # "" THEN order.trade_no = asked.trade_no
       ELSE order.out_trade_no = asked.out_trade_no
  <2>1. asked.trade_no \in {"", t} /\ asked.out_trade_no \in {"", Books[t].out_trade_no}
    <3>1. Meant(t)
      BY <1>1
    <3>2. QED
      BY <3>1 DEF Meant
  <2>2. asked.trade_no = "" => asked.out_trade_no # ""
    BY BooksAssumption DEF Identified, TradeNoSound, OrderNoSound
  <2>3. QED
    BY <1>6, <2>1, <2>2
<1>11. QED
  BY <1>7, <1>9, <1>10 DEF ValidOrder

LEMMA HonestIsBelieved == IInv /\ StepTypes /\ RefusalInv => HonestIsReturned
<1> SUFFICES ASSUME IInv, StepTypes, RefusalInv, verdict # "none", answer # NoAnswer, Honest
             PROVE  verdict = "ok"
  BY DEF HonestIsReturned
<1>1. asked.endpoint = "QueryOrder" /\ verdict # "Param"
  BY DEF Honest, StepTypes
<1>2. DOMAIN answer.rows = {1} /\ answer.rows[1].param.value = "note"
  BY <1>1 DEF RefusalInv
<1>3. Identified(asked.trade_no, asked.out_trade_no)
  BY <1>1 DEF IInv, AskedInv
<1>4. Fits(Order(answer.rows[1])) /\ ValidOrder(Order(answer.rows[1]))
  BY <1>1, <1>2, <1>3, HonestRow
<1>5. \A i \in DOMAIN Decoded : Fits(Decoded[i]) /\ Valid(Decoded[i])
  BY <1>1, <1>2, <1>4 DEF Decoded, Valid
<1>6. verdict # "InvalidResponse"
  BY <1>1, <1>5 DEF RefusalInv
<1>7. QED
  BY <1>1, <1>6 DEF StepTypes

\* A gateway that answers about the order asked for is believed in whichever of
\* the PHP ways it writes integers and nulls (serde_util.rs 17-142).
THEOREM HonestAnswersAreReturned == Spec => []HonestIsReturned
<1>1. Init => RefusalInv
  <2> SUFFICES ASSUME Init PROVE RefusalInv
    OBVIOUS
  <2>1. asked.endpoint = "none"
    BY DEF Init, Nothing
  <2>2. QED
    BY <2>1 DEF RefusalInv
<1>2. Init => IInv /\ StepTypes /\ RefusalInv
  BY <1>1, InitIInv, InitStepTypes
<1>3. IInv /\ StepTypes /\ RefusalInv /\ [Next]_vars => IInv' /\ StepTypes' /\ RefusalInv'
  BY NextIInv, NextStepTypes, NextRefusalInv
<1>4. QED
  BY <1>2, <1>3, HonestIsBelieved, PTL DEF Spec

=============================================================================
