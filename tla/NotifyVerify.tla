---------------------------- MODULE NotifyVerify ----------------------------
(***************************************************************************)
(* verify_notify: a payment notification, signed by the gateway and parsed *)
(* as in NotifyParse, is accepted with its data or refused. On its way     *)
(* fields may have been lost, rewritten or added, and the case of the      *)
(* digest or of sign_type may differ; the gateway may sign with the key of *)
(* another merchant and write numbers in any form.                         *)
(***************************************************************************)

EXTENDS Signing, Money, Errors, FiniteSets

CONSTANTS
    OwnPid,    \* the configured pid, a number
    OwnKey,    \* the configured key
    Numbers,   \* what texts denote as u64; texts not in its domain are none
    Amounts,   \* what texts denote as decimals, likewise
    NoData,    \* no NotifyData
    MaxAltered \* bound: what differs from what was sent, fields and digest

ASSUME OwnPidAssumption == OwnPid \in Nat \ {0}

\* The empty text is no number.
ASSUME NumbersAssumption == <<>> \notin DOMAIN Numbers /\ <<>> \notin DOMAIN Amounts
ASSUME MaxAlteredAssumption == MaxAltered \in Nat
ASSUME AmountsAssumption == \A text \in DOMAIN Amounts : Amounts[text] \in Int

VARIABLES
    signed,    \* key and parameters as the gateway signed them
    message,   \* what arrives
    verdict    \* what verify_notify returned: an error or the data

notifyVars == <<signed, message, verdict>>

Nothing == [error |-> NoError, data |-> NoData]

NotSigned == [key |-> "", params |-> NoParams]

NotifyInit ==
    /\ signed = NotSigned
    /\ message = [params |-> NoParams, sign |-> NoSign]
    /\ verdict = Nothing

\* The gateway notifies: it signs what it has to say and sends it.
Emit(key, params) ==
    /\ signed = NotSigned
    /\ signed' = [key |-> key, params |-> Signable(params)]
    /\ message' = SignWithParams(key, params)
    /\ UNCHANGED verdict

\* The fields in which a message differs from what was sent, and the digest.
Altered(m) ==
    LET emitted == SignWithParams(signed.key, signed.params)
    IN  {name \in NameSet : Get(m.params, name) # Get(emitted.params, name)}
            \cup IF m.sign = emitted.sign THEN {} ELSE {"sign"}

OnItsWay == signed # NotSigned /\ verdict = Nothing

\* On the way a field is lost (value <<>>), rewritten or added.
Alter(name, value) ==
    /\ OnItsWay
    /\ message' = [message EXCEPT !.params = Insert(Without(@, name), name, value)]
    /\ Cardinality(Altered(message')) <= MaxAltered
    /\ UNCHANGED <<signed, verdict>>

\* The digest is lost, written in upper case, or cut.
AlterSign(form) ==
    /\ OnItsWay
    /\ message.sign.form = "lower"
    /\ message' = [message EXCEPT !.sign = IF form = "none" THEN NoSign ELSE [@ EXCEPT !.form = form]]
    /\ Cardinality(Altered(message')) <= MaxAltered
    /\ UNCHANGED <<signed, verdict>>

-----------------------------------------------------------------------------
(* The fields of a notification *)

NumberOf(text) == IF text \in DOMAIN Numbers THEN Numbers[text] ELSE 0

\* Money::from_yuan_str.
MoneyOf(text) == IF text \in DOMAIN Amounts THEN New(Amounts[text]) ELSE Invalid

TokensOf(text) == {text[i] : i \in DOMAIN text}

SoundTradeNo(text) == text # <<>> /\ TokensOf(text) \subseteq {"trade"}
SoundOrderNo(text) == text # <<>> /\ TokensOf(text) \subseteq {"order"}
SoundType(text) == text # <<>> /\ TokensOf(text) \subseteq {"word"}
SoundName(text) == ~(TokensOf(text) \subseteq {" "}) /\ TokensOf(text) \cap {"LF", "long"} = {}
SoundStatus(text) == ~(TokensOf(text) \subseteq {" "})

DataOf(params) ==
    [pid |-> NumberOf(params.pid), trade_no |-> params.trade_no,
     out_trade_no |-> params.out_trade_no, pay_type |-> params.type, name |-> params.name,
     money |-> MoneyOf(params.money), trade_status |-> params.trade_status,
     param |-> Get(params, "param")]

Refuse(error) == [error |-> error, data |-> NoData]

\* Some required field is missing or not sound.
ContentError(params) ==
    ~ /\ NumberOf(Get(params, "pid")) = OwnPid
      /\ SoundTradeNo(Get(params, "trade_no"))
      /\ SoundOrderNo(Get(params, "out_trade_no"))
      /\ SoundType(Get(params, "type"))
      /\ SoundName(Get(params, "name"))
      /\ MoneyOf(Get(params, "money")) \in Moneys
      /\ SoundStatus(Get(params, "trade_status"))

SignTypeIsMd5(params) == Get(params, "sign_type") \in {<<"MD5">>, <<"md5">>}

\* First the signature, then the contents.
VerdictOn(m) ==
    IF ~SignTypeIsMd5(m.params) \/ m.sign.form = "none" THEN Refuse(PlainError("Notify"))
    ELSE IF ~Verifies(OwnKey, m.params, m.sign) THEN Refuse(PlainError("VerifyFailed"))
    ELSE IF ContentError(m.params) THEN Refuse(PlainError("Notify"))
    ELSE [error |-> NoError, data |-> DataOf(m.params)]

Verify ==
    /\ signed # NotSigned /\ verdict = Nothing
    /\ verdict' = VerdictOn(message)
    /\ UNCHANGED <<signed, message>>

-----------------------------------------------------------------------------

Accepted == verdict.data # NoData

\* NotifyData::is_success, money_matches.
IsSuccess(data) == data.trade_status = <<"TRADE_SUCCESS">>
MoneyMatches(data, expected) == data.money = expected

\* No value of a map could pass for the start of another pair.
Unambiguous(params) == \A name \in DOMAIN params : "&" \notin TokensOf(params[name])

\* When a payload tells what was signed: at most one field was altered, or no
\* value on either side holds the "&" that joins the pairs.
OneReading ==
    \/ \E name \in NameSet : \A other \in NameSet \ {name} :
          Get(Signable(message.params), other) = Get(signed.params, other)
    \/ Unambiguous(Signable(message.params)) /\ Unambiguous(signed.params)

\* Whatever happened on the way, a notification is accepted only if the gateway
\* signed just this joined text with our key, and for our pid. The pairs are
\* joined unencoded, so the text alone does not always tell them; where it does,
\* the notification says what the gateway said, all of it (notify.rs 257-299,
\* params.rs 96-107).
AcceptedIsSigned ==
    Accepted =>
        /\ signed.key = OwnKey
        /\ SignPayload(message.params) = SignPayload(signed.params)
        /\ OneReading => verdict.data = DataOf(signed.params)
        /\ verdict.data.pid = OwnPid

\* What is not altered but in the case of the digest or of sign_type is judged
\* by what the gateway said alone: accepted if it was for us and is sound, and
\* VerifyFailed, the error that calls a notification untrusted, only if another
\* key signed it (notify.rs 259-266, signer.rs 49-57).
IntactIsJudgedByContent ==
    (/\ verdict # Nothing
     /\ Signable(message.params) = signed.params
     /\ message.sign.form \in {"lower", "upper"}
     /\ SignTypeIsMd5(message.params)) =>
        /\ Accepted <=> signed.key = OwnKey /\ ~ContentError(signed.params)
        /\ verdict.error = PlainError("VerifyFailed") <=> signed.key # OwnKey

=============================================================================
