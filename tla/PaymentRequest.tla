--------------------------- MODULE PaymentRequest ---------------------------
(***************************************************************************)
(* A payment request on its way from the application to the gateway: it is *)
(* built, validated, turned into parameters and signed, and travels in one *)
(* of three ways: posted by create_payment ("api"), in the query of a      *)
(* redirect to submit.php ("redirect"), or in the hidden inputs of a page  *)
(* which the payer's browser submits ("page").                             *)
(*                                                                         *)
(* Texts are sequences of tokens: a character, an entity name, or what     *)
(* stands for a text of a kind, such as "long" for one beyond the limit of *)
(* its field and "heavy" for one that percent-encoding triples. Callback   *)
(* URLs and their policy are in ClientSettings. The browser and the        *)
(* gateway are external: a browser ends an attribute at its quote, decodes *)
(* entities and submits a line feed as CR LF; the gateway verifies the     *)
(* signature over the non-empty fields it receives.                        *)
(***************************************************************************)

EXTENDS Signing, Money, SequencesExt

CONSTANTS
    None,      \* an option not set
    Alphabet,  \* the tokens of texts
    Pid, Key,  \* the merchant's, as configured
    Decimals,  \* decimals as they are written, and the thousandths they denote
    EpayText,  \* Money::to_epay_string
    Inputs,    \* what applications pass for each field
    DefaultNotifyUrl,  \* the client's
    MaxHeavy   \* heavy tokens that fit into MAX_REQUEST_BYTES

ASSUME EpayTextAssumption ==
    \A money \in DOMAIN EpayText : Decimals[EpayText[money]] = 10 * money

VARIABLES
    request,   \* PaymentRequest or FormPaymentRequest, and how it travels
    stage,     \* "new", "draft", "sent", "refused", "opened" or "rejected" by the gateway
    sent,      \* the signed message
    trade      \* the parameters the gateway opened a trade with

requestVars == <<request, stage, sent, trade>>

NoMessage == [params |-> NoParams, sign |-> NoSign]

\* The options of a new request are unset; the notification URL is then the
\* client's (resolve_callbacks, ClientSettings).
Fresh(way, no, name, type, money) ==
    [way |-> way, out_trade_no |-> no, name |-> name, type |-> type, money |-> money,
     notify_url |-> DefaultNotifyUrl, return_url |-> None, clientip |-> None, device |-> None,
     param |-> None, sitename |-> None]

RequestInit ==
    /\ stage = "new"
    /\ request = Fresh("api", <<>>, <<>>, None, Invalid)
    /\ sent = NoMessage
    /\ trade = NoParams

\* PaymentRequest::new, FormPaymentRequest::new: an API payment has a channel.
NewRequest(way, no, name, type, money) ==
    /\ stage = "new"
    /\ money \in Moneys
    /\ way = "api" => type # None
    /\ stage' = "draft"
    /\ request' = Fresh(way, no, name, type, money)
    /\ UNCHANGED <<sent, trade>>

OptionsOf(way) ==
    {"notify_url", "return_url", "param"} \cup IF way = "api" THEN {"clientip", "device"} ELSE {"sitename"}

\* A setter of the builder; a later call replaces what an earlier one set.
SetOption(field, value) ==
    /\ stage = "draft"
    /\ field \in OptionsOf(request.way)
    /\ request' = [request EXCEPT ![field] = value]
    /\ UNCHANGED <<stage, sent, trade>>

-----------------------------------------------------------------------------
(* Validation *)

Tokens(text) == {text[i] : i \in DOMAIN text}

Texts == Seq(Alphabet)
Plain(text) == text \in Texts \ {<<>>} /\ "LF" \notin Tokens(text)

ASSUME RequestNamesAssumption ==
    {"pid", "out_trade_no", "notify_url", "return_url", "name", "money", "type", "clientip",
     "device", "param", "sitename", "sign_type"} \subseteq NameSet
ASSUME AlphabetAssumption == {"order", "word", "ip", "MD5"} \subseteq Alphabet /\ None \notin Texts
ASSUME PidAssumption == Plain(Pid) /\ Plain(DefaultNotifyUrl)
\* Inputs are texts, or None for an option; a URL is what resolve_callbacks makes
\* of it (ClientSettings), trimmed and passed by Url::parse.
ASSUME InputsAssumption ==
    /\ Inputs.out_trade_no \subseteq Texts /\ Inputs.name \subseteq Texts
    /\ Inputs.notify_url \subseteq Texts \ {<<>>}
    /\ \A field \in {"type", "return_url", "clientip", "device", "param", "sitename"} :
          Inputs[field] \subseteq Texts \cup {None}

IsBlank(text) == Tokens(text) \subseteq {" "}
TooLong(text) == "long" \in Tokens(text)
HasControl(text) == "LF" \in Tokens(text)
IsIdentifier(text) == text # <<>> /\ Tokens(text) \subseteq {"word"}

\* Texts of the model have spaces at their ends only.
Trim(text) == SelectSeq(text, LAMBDA token : token # " ")

ValidOrderNo(no) == no # <<>> /\ Tokens(no) \subseteq {"order"}
ValidName(name) == ~IsBlank(name) /\ ~TooLong(name) /\ ~HasControl(name)
Optional(value, valid) == value = None \/ valid

ValidAddress(ip) == ip # None /\ Trim(ip) = <<"ip">>

ValidateApi ==
    /\ ValidOrderNo(request.out_trade_no)
    /\ IsIdentifier(request.type)
    /\ ValidName(request.name)
    /\ Optional(request.param, ~TooLong(request.param))
    /\ ValidAddress(request.clientip)
    /\ Optional(request.device, IsIdentifier(request.device))

ValidateForm ==
    /\ ValidOrderNo(request.out_trade_no)
    /\ ValidName(request.name)
    /\ Optional(request.type, IsIdentifier(request.type))
    /\ Optional(request.param, ~TooLong(request.param))
    /\ Optional(request.sitename, ~TooLong(request.sitename) /\ ~HasControl(request.sitename))

-----------------------------------------------------------------------------
(* Parameters, signature, size *)

BaseValues == [pid |-> Pid]

CommonValues ==
    Over([out_trade_no |-> request.out_trade_no, notify_url |-> request.notify_url,
          return_url |-> request.return_url, name |-> request.name,
          money |-> EpayText[request.money], type |-> request.type, param |-> request.param],
         BaseValues)

ApiValues ==
    Over([clientip |-> IF request.clientip = None THEN None ELSE Trim(request.clientip),
          device |-> request.device],
         CommonValues)

FormValues == Over([sitename |-> request.sitename], CommonValues)

EncodedSize(params) ==
    SumFunction([k \in DOMAIN params |-> Len(SelectSeq(params[k], LAMBDA token : token = "heavy"))])

\* What becomes of a valid request: it is signed, and sent if it is not too
\* large.
SignAndSend(values) ==
    LET message == SignWithParams(Key, InsertAll(values, None))
    IN  IF EncodedSize(message.params) <= MaxHeavy
        THEN stage' = "sent" /\ sent' = message
        ELSE stage' = "refused" /\ UNCHANGED sent

\* create_payment_with, up to the request itself.
SendApi ==
    /\ stage = "draft" /\ request.way = "api"
    /\ IF ValidateApi
       THEN SignAndSend(ApiValues)
       ELSE stage' = "refused" /\ UNCHANGED sent
    /\ UNCHANGED <<request, trade>>

\* form_params, for build_form_payment, build_form_payment_url and
\* prepare_form_payment.
SendForm ==
    /\ stage = "draft" /\ request.way # "api"
    /\ IF ValidateForm
       THEN SignAndSend(FormValues)
       ELSE stage' = "refused" /\ UNCHANGED sent
    /\ UNCHANGED <<request, trade>>

-----------------------------------------------------------------------------
(* The page and the browser: HTML is a sequence of pieces, each one token or *)
(* the ampersand and the name of an entity.                                  *)

CharOf == [entity \in {"amp;", "quot;"} |-> IF entity = "amp;" THEN "&" ELSE "\""]

EntityOf(char) == CHOOSE entity \in DOMAIN CharOf : CharOf[entity] = char

\* Fault: the ampersand is left as it is.
HtmlEscapeQuotes(text) ==
    [i \in DOMAIN text |-> IF text[i] = "\"" THEN <<"&", EntityOf(text[i])>> ELSE <<text[i]>>]

HtmlEscape(text) ==
    [i \in DOMAIN text |->
        IF text[i] \in {"&", "\""} THEN <<"&", EntityOf(text[i])>> ELSE <<text[i]>>]

\* The value of value="...": it ends at the first quote.
Attribute(html) ==
    LET quotes == {i \in DOMAIN html : html[i] = <<"\"">>}
    IN  IF quotes = {} THEN html ELSE SubSeq(html, 1, Min(quotes) - 1)

\* An ampersand that nobody escaped and what follows it are an entity together.
Joined(html, i) ==
    /\ {i, i + 1} \subseteq DOMAIN html /\ html[i] = <<"&">>
    /\ \E entity \in DOMAIN CharOf : html[i + 1] = <<entity>>

\* The browser decodes the entities; the empty token is in the place of a piece
\* that the one before it used up ...
Decode(html) ==
    [i \in DOMAIN html |->
        IF Len(html[i]) = 2 THEN CharOf[html[i][2]]
        ELSE IF Joined(html, i) THEN CharOf[html[i + 1][1]]
        ELSE IF Joined(html, i - 1) THEN ""
        ELSE html[i][1]]

\* ... and sends every line break as CR LF.
Normalize(text) == [i \in DOMAIN text |-> IF text[i] = "LF" THEN "CRLF" ELSE text[i]]

\* The fields as the gateway receives them: URL and form encoding are undone by
\* its decoding, hidden_inputs by the browser.
Carried(params, way) ==
    IF way = "page"
    THEN [k \in DOMAIN params |-> Normalize(Decode(Attribute(HtmlEscape(params[k]))))]
    ELSE params

-----------------------------------------------------------------------------
(* The gateway *)

Required(way) ==
    {"pid", "out_trade_no", "notify_url", "name", "money"} \cup
        IF way = "api" THEN {"type", "clientip"} ELSE {}

\* The gateway opens a trade for a request it can verify and which lacks nothing.
GatewayReceives ==
    /\ stage = "sent"
    /\ LET received == Carried(sent.params, request.way)
           filled == {k \in DOMAIN received : received[k] # <<>>}
       IN  IF /\ Verifies(Key, [k \in filled |-> received[k]], sent.sign)
              /\ Required(request.way) \subseteq filled
           THEN stage' = "opened" /\ trade' = received
           ELSE stage' = "rejected" /\ UNCHANGED trade
    /\ UNCHANGED <<request, sent>>

-----------------------------------------------------------------------------

\* An amount comes out of any of the constructors.
Constructed(decimal) ==
    {New(decimal), NewRounded(decimal), FromFen(decimal \div 10), FromJson("float", decimal)}

\* Every amount has a text.
ASSUME MoneyTextsAssumption ==
    /\ \A decimal \in Inputs.money : Constructed(decimal) \cap Moneys \subseteq DOMAIN EpayText
    /\ \A money \in DOMAIN EpayText : Plain(EpayText[money])

RequestNext ==
    \/ \E way \in {"api", "redirect", "page"}, no \in Inputs.out_trade_no, name \in Inputs.name,
          type \in Inputs.type, decimal \in Inputs.money :
          \E money \in Constructed(decimal) : NewRequest(way, no, name, type, money)
    \/ \E field \in OptionsOf(request.way) : \E value \in Inputs[field] : SetOption(field, value)
    \/ SendApi \/ SendForm
    \/ GatewayReceives

=============================================================================
