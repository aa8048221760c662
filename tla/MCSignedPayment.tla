-------------------------- MODULE MCSignedPayment ---------------------------
(* Texts for SignedPayment: a few of every kind that the code tells apart.  *)

EXTENDS SignedPayment

MCPid == <<"1001">>
MCOtherPid == <<"1002">>

\* In the order of the map.
MCNames ==
    <<"clientip", "device", "extra", "money", "name", "notify_url", "out_trade_no", "param", "pid",
      "return_url", "sign_type", "sitename", "trade_no", "trade_status", "type">>

MCAlphabet ==
    {"1001", "9.90", "9.91", "0.01", "order", "/", "word", "no", "ip", "no ip", "MD5", "site",
     " ", "\"", "&", "amp;", "quot;", "LF", "heavy", "long",
     "9.9", "9.905", "-9.90", "01001", "1002", "x", "b", "trade", "TRADE_SUCCESS", "CLOSED", "md5",
     "RSA", "url"}

MCDefaultNotifyUrl == <<"url">>

MCDecimals ==
    (<<"9.90">> :> 9900) @@ (<<"9.9">> :> 9900) @@ (<<"9.900">> :> 9900) @@
    (<<"9.91">> :> 9910) @@ (<<"9.905">> :> 9905) @@ (<<"0.01">> :> 10) @@ (<<"-9.90">> :> -9900)

MCEpayText == (990 :> <<"9.90">>) @@ (991 :> <<"9.91">>) @@ (1 :> <<"0.01">>)

MCNumbers == (<<"1001">> :> 1001) @@ (<<"01001">> :> 1001) @@ (<<"1002">> :> 1002) @@ (<<"0">> :> 0)

MCInputs ==
    [out_trade_no |-> {<<"order">>, <<"order", "/">>},
     name |-> {<<" ", " ">>, <<"\"", "&", "quot;", "heavy">>, <<"long">>},
     type |-> {None, <<"word">>, <<>>},
     money |-> {9900, 9905, 4, 0},
     notify_url |-> {<<"heavy", "LF", "heavy">>},
     return_url |-> {<<"heavy", "heavy", "heavy">>},
     clientip |-> {<<" ">>, <<" ", "ip">>, <<"no ip">>},
     device |-> {<<"word">>, <<"no", "word">>},
     param |-> {<<>>, <<"&", "amp;", "heavy">>, <<"LF">>, <<"long">>},
     sitename |-> {<<"site", "&">>, <<"LF">>}]

Fields(field, texts) == {field :> text : text \in texts}

MCVariations ==
    Fields("pid", {<<"01001">>, <<"1002">>, <<"x">>}) \cup
    Fields("trade_no", {<<>>}) \cup
    Fields("out_trade_no", {<<"order", "order">>}) \cup
    Fields("type", {<<"no", "word">>}) \cup
    Fields("name", {<<"b">>, <<" ">>}) \cup
    Fields("money", {<<"9.9">>, <<"9.905">>, <<"-9.90">>}) \cup
    Fields("trade_status", {<<"CLOSED">>, <<" ">>}) \cup
    Fields("param", {<<>>, <<"b">>}) \cup
    Fields("sign_type", {<<"md5">>, <<"RSA">>}) \cup
    Fields("extra", {<<"b">>})

MCRewritings ==
    Fields("out_trade_no", {<<"order", "order">>}) \cup
    Fields("name", {<<"b">>}) \cup
    Fields("money", {<<"9.9">>}) \cup
    Fields("param", {<<>>, <<"b">>}) \cup
    Fields("sign_type", {<<"md5">>, <<"RSA">>}) \cup
    Fields("extra", {<<"b">>})

=============================================================================
