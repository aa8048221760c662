--------------------------- MODULE SignedPayment ----------------------------
(***************************************************************************)
(* A payment from its request to its notification: PaymentRequest, then    *)
(* NotifyVerify for the trade the gateway opened. The application keeps    *)
(* the amount in its order record, as the text Money serializes to, and    *)
(* compares the notified amount with it.                                   *)
(***************************************************************************)

EXTENDS PaymentRequest, NotifyVerify

CONSTANTS
    OtherPid, OtherKey, \* of another merchant of the gateway
    Variations, \* single fields the gateway may write differently
    Rewritings  \* and the way

\* What is said and rewritten are parameters and texts.
ASSUME TextsAssumption ==
    /\ {"trade", "TRADE_SUCCESS", "word", "MD5"} \subseteq Alphabet
    /\ {"trade_no", "trade_status"} \subseteq NameSet
    /\ OtherPid \in Texts
    /\ \A fields \in Variations \cup Rewritings : \A name \in DOMAIN fields :
          name \in NameSet /\ fields[name] \in Texts

vars == <<requestVars, notifyVars>>

Init == RequestInit /\ NotifyInit

\* The notification for the opened trade, with at most one field as in
\* variation instead of what is usual.
Inform(key, variation) ==
    LET usual == [trade_no |-> <<"trade">>, trade_status |-> <<"TRADE_SUCCESS">>,
                  pid |-> trade.pid, out_trade_no |-> trade.out_trade_no,
                  type |-> IF "type" \in DOMAIN trade THEN trade.type ELSE <<"word">>,
                  name |-> trade.name, money |-> trade.money, param |-> Get(trade, "param")]
    IN  /\ stage = "opened"
        /\ Emit(key, InsertAll(Over(variation, usual), None))
        /\ UNCHANGED requestVars

Next ==
    \/ RequestNext /\ UNCHANGED notifyVars
    \/ \E variation \in Variations \cup {NoParams} : Inform(Key, variation)
    \/ Inform(OtherKey, [pid |-> OtherPid])
    \/ \E rewriting \in Rewritings : \E name \in DOMAIN rewriting :
          Alter(name, rewriting[name]) /\ UNCHANGED requestVars
    \/ \E form \in {"upper", "bad", "none"} : AlterSign(form) /\ UNCHANGED requestVars
    \/ Verify /\ UNCHANGED requestVars

Spec == Init /\ [][Next]_vars

-----------------------------------------------------------------------------
(* Properties *)

TypeOK ==
    /\ request.way \in {"api", "redirect", "page"}
    /\ request.money \in Moneys \cup {Invalid}
    /\ stage \in {"new", "draft", "sent", "refused", "opened", "rejected"}
    /\ \A m \in {sent, message} : \A k \in DOMAIN m.params : m.params[k] # <<>>
    /\ sent.sign.key \in {"", Key}
    /\ DOMAIN trade \subseteq DOMAIN sent.params
    /\ signed.key \in {"", Key, OtherKey}
    /\ verdict.error \in Error \cup {NoError}

\* Line feeds that validation admits: any in `param`, and those inside a URL,
\* which Url::parse passes over. They do not survive the page: the browser
\* submits CR LF.
BrokenByBrowser ==
    /\ request.way = "page"
    /\ \E field \in {"param", "notify_url", "return_url"} : request[field] # None /\ HasControl(request[field])

\* A request that leaves the application is understood by the gateway: nothing
\* that it requires is missing, and whichever way the fields travel they arrive
\* as they were signed, so that the signature verifies. The one exception is a
\* line feed in `param` or a URL of a page (payment.rs 209-241, 326-354, 526-548,
\* 569-582, protocol.rs 112-129, client.rs 176-199).
RequestsAreUnderstood ==
    stage \in {"opened", "rejected"} => (stage = "opened" /\ trade = sent.params) \/ BrokenByBrowser

\* The amount read back from the order record.
Reloaded(money) == FromJson("string", Decimals[EpayText[money]])

\* A payment notified in full is recognized as the amount asked for, in every
\* way the gateway may write it and after the amount went through the order
\* record; and where the payload tells what was signed, the notification echoes
\* the order number, the name and the `param` of the request (money.rs 96-99,
\* 137-177, notify.rs 186-189, 289-298).
EchoIsTheRequest ==
    Accepted /\ OneReading /\ signed.params.out_trade_no = request.out_trade_no =>
        /\ MoneyMatches(verdict.data, Reloaded(request.money))
              <=> Amounts[signed.params.money] = 10 * request.money
        /\ signed.params.name = trade.name => verdict.data.name = request.name
        /\ Get(signed.params, "param") = Get(trade, "param") =>
              verdict.data.param = IF request.param = None THEN <<>> ELSE request.param

\* "The parts are read-only so the signature stays valid" (payment.rs 495-497):
\* what a request was signed with is what the gateway verifies.
SignatureStaysValid == stage # "rejected"

=============================================================================
