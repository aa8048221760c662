------------------------------ MODULE Signing -------------------------------
(***************************************************************************)
(* Params and the MD5 signer. A parameter map is a partial function from   *)
(* names to non-empty texts; a text is a sequence of tokens, <<>> if it is *)
(* empty. MD5 is symbolic: a digest is what it was made of, the payload    *)
(* and the key, and is written in lower or upper case or is no digest at   *)
(* all ("bad"). The payload is the joined text: names, "=" and "&" are     *)
(* tokens of it like those of the values, so that two maps may have one    *)
(* payload when a value holds "&".                                         *)
(***************************************************************************)

EXTENDS Integers, Sequences

CONSTANT Names  \* the names of parameters, in the order of the map's keys

NameSet == {Names[i] : i \in DOMAIN Names}

ASSUME NamesAssumption ==
    /\ Names \in Seq(NameSet)
    /\ \A i, j \in DOMAIN Names : Names[i] = Names[j] => i = j
    /\ NameSet \cap {"&", "=", "LF"} = {}

NoParams == [k \in {} |-> <<>>]

\* The map after insert or insert_opt of every value: none and empty ones are
\* left out.
InsertAll(values, none) ==
    [k \in {k \in DOMAIN values : values[k] # none /\ values[k] # <<>>} |-> values[k]]

\* What is set on top of other values.
Over(values, others) ==
    [k \in DOMAIN values \cup DOMAIN others |-> IF k \in DOMAIN values THEN values[k] ELSE others[k]]

\* Insert one more parameter, over an earlier one of that name.
Insert(params, name, value) ==
    IF value = <<>> THEN params
    ELSE [k \in DOMAIN params \cup {name} |-> IF k = name THEN value ELSE params[k]]

Without(params, name) == [k \in DOMAIN params \ {name} |-> params[k]]

\* get and required: an absent value is empty.
Get(params, name) == IF name \in DOMAIN params THEN params[name] ELSE <<>>

\* What is signed: all parameters but sign (kept apart here) and sign_type ...
Signable(params) == Without(params, "sign_type")

Pair(params, name) ==
    IF name \in DOMAIN params THEN <<"&", name, "=">> \o params[name] ELSE <<>>

\* ... joined unencoded, name by name. The joining "&" is written before every
\* pair, the first one too, which tells no two texts apart or together.
Joining(params) ==
    LET text[n \in 0 .. Len(Names)] ==
            IF n = 0 THEN <<>> ELSE text[n - 1] \o Pair(params, Names[n])
    IN  text

\* Fault: the optional `param` is not signed.
SignPayloadSkipsParam(params) == Joining(Without(Signable(params), "param"))[Len(Names)]

SignPayload(params) == Joining(Signable(params))[Len(Names)]

\* No signature.
NoSign == [key |-> "", payload |-> <<>>, form |-> "none"]

Sign(key, params) == [key |-> key, payload |-> SignPayload(params), form |-> "lower"]

\* Fault: the digest is compared as it is written.
VerifiesExactCase(key, params, sign) == sign = Sign(key, params)

\* 32 hexadecimal digits of either case, equal to the expected digest.
Verifies(key, params, sign) ==
    /\ sign.form \in {"lower", "upper"}
    /\ [sign EXCEPT !.form = "lower"] = Sign(key, params)

\* sign_with_params: a message is a parameter map and its signature.
SignWithParams(key, params) ==
    [params |-> Insert(params, "sign_type", <<"MD5">>), sign |-> Sign(key, params)]

=============================================================================
