--------------------------- MODULE ClientSettings ---------------------------
(***************************************************************************)
(* From settings to a request: ClientBuilder collects settings from its    *)
(* constructor or the environment and from setters in any order, build     *)
(* refuses them or makes a client of them, and each payment merges its own *)
(* callback URLs with the client's defaults under the HTTPS policy.        *)
(*                                                                         *)
(* A setting is what the checks tell apart: a URL by its scheme, its form  *)
(* and its length, a number by being zero. `debug`, `retry` and their      *)
(* variables are left out: nothing depends on them here.                   *)
(***************************************************************************)

EXTENDS Integers, Sequences, FiniteSetsExt

CONSTANTS
    CallbackTexts,  \* callback URLs given to a setter or a variable
    Quantities      \* timeouts and sizes given to one

\* "long" is a well-formed https URL beyond MAX_CALLBACK_URL_BYTES.
Urls == {"https", "http", "malformed", "blank", "long"}

ASSUME TextsAssumption == CallbackTexts \subseteq Urls
ASSUME QuantitiesAssumption == Quantities \subseteq {"zero", "given"}

VARIABLES
    stage,     \* "start", "reading" (the environment), "building", "built" or "refused"
    position,  \* the variable of the environment to read next
    settings,  \* of the builder
    asked,     \* what the caller or the environment last said of each setting
    refusal,   \* why from_env or build failed
    client,    \* what build made
    request    \* the last payment prepared or refused

vars == <<stage, position, settings, asked, refusal, client, request>>

Values ==
    [pid                          |-> {"zero", "valid"},
     key                          |-> {"empty", "valid"},
     api_base_url                 |-> {"https", "http", "malformed"},
     notify_url                   |-> CallbackTexts,
     return_url                   |-> CallbackTexts,
     allow_insecure_http          |-> {"yes", "no"},
     allow_insecure_callback_http |-> {"yes", "no"},
     timeout                      |-> Quantities,
     connect_timeout              |-> Quantities,
     max_response_body_bytes      |-> Quantities,
     transport                    |-> {"custom"},
     reqwest_client               |-> {"supplied"}]

Fields == DOMAIN Values

Identity == {"pid", "key", "api_base_url"}

\* A new builder, before it knows its merchant and gateway.
Defaults ==
    [f \in Fields |->
        CASE f \in {"allow_insecure_http", "allow_insecure_callback_http"} -> "no"
          [] f \in {"timeout", "max_response_body_bytes"} -> "default"
          [] OTHER -> "unset"]

NoClient  == [stage |-> "none"]
NoRequest == [error |-> "no request"]

Init ==
    /\ stage = "start" /\ position = 1
    /\ settings = Defaults /\ asked = Defaults
    /\ refusal = "none" /\ client = NoClient /\ request = NoRequest

Ask(f, said, kept) ==
    /\ asked' = [asked EXCEPT ![f] = said]
    /\ settings' = [settings EXCEPT ![f] = kept]

(***************************************************************************)
(* The builder.                                                            *)
(***************************************************************************)
New(pid, key, api_base_url) ==
    /\ stage = "start"
    /\ stage' = "building"
    /\ settings' = [settings EXCEPT !.pid = pid, !.key = key, !.api_base_url = api_base_url]
    /\ asked' = settings'
    /\ UNCHANGED <<position, refusal, client, request>>

\* Fault: a setting is given once; a second call of its setter is ignored.
SetOnce(f, value) ==
    /\ stage = "building"
    /\ Ask(f, value, IF settings[f] = Defaults[f] THEN value ELSE settings[f])
    /\ UNCHANGED <<stage, position, refusal, client, request>>

\* Any setter, at any time before build, as often as the caller likes.
Set(f, value) ==
    /\ stage = "building"
    /\ Ask(f, value, value)
    /\ UNCHANGED <<stage, position, refusal, client, request>>

(***************************************************************************)
(* The environment: one variable after the other, each absent or with a    *)
(* text. What it holds is looked at when its turn comes.                   *)
(***************************************************************************)
EnvVariables ==
    <<[field |-> "pid",                          reader |-> "required", parsed |-> TRUE],
      [field |-> "key",                          reader |-> "required", parsed |-> FALSE],
      [field |-> "api_base_url",                 reader |-> "required", parsed |-> FALSE],
      [field |-> "notify_url",                   reader |-> "optional", parsed |-> FALSE],
      [field |-> "return_url",                   reader |-> "optional", parsed |-> FALSE],
      [field |-> "allow_insecure_http",          reader |-> "typed",    parsed |-> TRUE],
      [field |-> "allow_insecure_callback_http", reader |-> "typed",    parsed |-> TRUE],
      [field |-> "timeout",                      reader |-> "typed",    parsed |-> TRUE],
      [field |-> "connect_timeout",              reader |-> "typed",    parsed |-> TRUE],
      [field |-> "max_response_body_bytes",      reader |-> "typed",    parsed |-> TRUE]>>

NoText == {"absent", "empty", "notUnicode"}

\* An empty text is a reading of its own, so that no key is an empty one.
Readings(variable) ==
    NoText \union (Values[variable.field] \ {"empty"})
           \union (IF variable.parsed THEN {"unparsable"} ELSE {})

\* Fault: a typed variable without a text is as good as absent.
FailsIfRequired(variable, reading) ==
    \/ reading = "unparsable"
    \/ variable.reader = "required" /\ reading \in NoText

\* required, typed and the parsing of what they return.
Fails(variable, reading) ==
    \/ reading = "unparsable"
    \/ variable.reader = "required" /\ reading \in NoText
    \/ variable.reader = "typed" /\ reading \in {"empty", "notUnicode"}

FromEnv ==
    /\ stage = "start"
    /\ stage' = "reading"
    /\ UNCHANGED <<position, settings, asked, refusal, client, request>>

\* A variable without a text leaves the default, where it is allowed to. A
\* free-form one that is not UTF-8 counts as unset.
ReadVariable(reading) ==
    LET variable == EnvVariables[position]
        f        == variable.field
    IN  /\ stage = "reading"
        /\ reading \in Readings(variable)
        /\ position' = position + 1
        /\ Ask(f, IF reading \in NoText
                  THEN IF reading = "absent" \/ variable.reader = "optional" THEN asked[f] ELSE "unusable"
                  ELSE reading,
               IF reading \in NoText \union {"unparsable"} THEN settings[f] ELSE reading)
        /\ IF Fails(variable, reading)
           THEN stage' = "refused" /\ refusal' = "environment"
           ELSE /\ stage' = IF position = Len(EnvVariables) THEN "building" ELSE "reading"
                /\ UNCHANGED refusal
        /\ UNCHANGED <<client, request>>

(***************************************************************************)
(* Checks in the order the code makes them; the first that fails decides.  *)
(***************************************************************************)
Check(fails, error) == [fails |-> fails, error |-> error]

FirstError(checks) ==
    LET failing == {i \in DOMAIN checks : checks[i].fails}
    IN  IF failing = {} THEN "none" ELSE checks[Min(failing)].error

WellFormed(url) == url \in {"https", "http", "long"}

\* require_https_callback, and the scheme of the gateway.
Insecure(url, allow_http) == url = "http" /\ allow_http = "no"

\* The connect timeout cannot be set on a client that exists already.
Unappliable(s) == s.reqwest_client = "supplied" /\ s.connect_timeout # "unset"

HttpChecks(s) ==
    <<Check(s.timeout = "zero", "timeout"),
      Check(s.max_response_body_bytes = "zero", "max_response_body_bytes"),
      Check(s.connect_timeout = "zero", "connect_timeout")>>

GatewayChecks(s) ==
    <<Check(s.api_base_url = "malformed", "INVALID_API_URL"),
      Check(Insecure(s.api_base_url, s.allow_insecure_http), "INSECURE_API_URL")>>

DefaultChecks(url, allow_http, invalid, insecure) ==
    <<Check(url # "unset" /\ ~WellFormed(url), invalid),
      Check(Insecure(url, allow_http), insecure)>>

ConfigChecks(s) ==
    <<Check(s.pid = "zero", "INVALID_PID"), Check(s.key = "empty", "INVALID_KEY")>>
    \o GatewayChecks(s)
    \o DefaultChecks(s.notify_url, s.allow_insecure_callback_http, "INVALID_NOTIFY_URL", "INSECURE_NOTIFY_URL")
    \o DefaultChecks(s.return_url, s.allow_insecure_callback_http, "INVALID_RETURN_URL", "INSECURE_RETURN_URL")

BuildChecks(s) ==
    <<Check(Unappliable(s), "connect_timeout of a supplied client")>> \o HttpChecks(s) \o ConfigChecks(s)

\* A custom transport comes before a supplied client, and that before one the
\* SDK makes, the only one a connect timeout is set on.
TransportOf(s) ==
    IF s.transport = "custom" THEN "custom"
    ELSE IF s.reqwest_client = "supplied" THEN "supplied" ELSE "built-in"

ClientOf(s) ==
    [stage                        |-> "ready",
     pid                          |-> s.pid,
     key                          |-> s.key,
     api_base_url                 |-> s.api_base_url,
     notify_url                   |-> s.notify_url,
     return_url                   |-> s.return_url,
     allow_insecure_http          |-> s.allow_insecure_http,
     allow_insecure_callback_http |-> s.allow_insecure_callback_http,
     timeout                      |-> s.timeout,
     max_response_body_bytes      |-> s.max_response_body_bytes,
     transport                    |-> TransportOf(s),
     connect_timeout              |-> IF TransportOf(s) = "built-in" THEN s.connect_timeout ELSE "unset"]

Build ==
    /\ stage = "building"
    /\ refusal' = FirstError(BuildChecks(settings))
    /\ IF refusal' = "none"
       THEN stage' = "built" /\ client' = ClientOf(settings)
       ELSE stage' = "refused" /\ UNCHANGED client
    /\ UNCHANGED <<position, settings, asked, request>>

\* Fault: the client is kept although its transport could not be made.
BuildFailsHalfway ==
    /\ stage = "building"
    /\ FirstError(BuildChecks(settings)) = "none"
    /\ TransportOf(settings) = "built-in"
    /\ refusal' = "transport"
    /\ stage' = "refused"
    /\ client' = ClientOf(settings)
    /\ UNCHANGED <<position, settings, asked, request>>

\* reqwest cannot make its client.
BuildFails ==
    /\ stage = "building"
    /\ FirstError(BuildChecks(settings)) = "none"
    /\ TransportOf(settings) = "built-in"
    /\ refusal' = "transport"
    /\ stage' = "refused"
    /\ UNCHANGED <<position, settings, asked, client, request>>

(***************************************************************************)
(* A payment: validate looks at its own callback URLs, resolve_callbacks   *)
(* merges them with the client's and looks at what will be sent.           *)
(***************************************************************************)
NoOverride == {"unset", "blank"}

\* Fault: an override that is there wins, blank or not.
FirstPresent(override, default) == IF override # "unset" THEN override ELSE default

\* A blank override does not shadow the default.
FirstNonBlank(override, default) == IF override \notin NoOverride THEN override ELSE default

OverrideChecks(override, invalid) ==
    <<Check(override = "long", "CALLBACK_URL_TOO_LONG"),
      Check(override \notin NoOverride /\ ~WellFormed(override), invalid)>>

\* Fault: only what the payment brings along is held to the policy.
ResolvedChecksOfShape(url, invalid, insecure) ==
    <<Check(url = "long", "CALLBACK_URL_TOO_LONG"),
      Check(url # "unset" /\ ~WellFormed(url), invalid)>>

ResolvedChecks(url, invalid, insecure) ==
    <<Check(url = "long", "CALLBACK_URL_TOO_LONG"),
      Check(url # "unset" /\ ~WellFormed(url), invalid),
      Check(Insecure(url, client.allow_insecure_callback_http), insecure)>>

Pay(notify_url, return_url) ==
    LET notify == FirstNonBlank(notify_url, client.notify_url)
        return == FirstNonBlank(return_url, client.return_url)
        checks == OverrideChecks(notify_url, "INVALID_NOTIFY_URL")
                  \o OverrideChecks(return_url, "INVALID_RETURN_URL")
                  \o <<Check(notify = "unset", "MISSING_NOTIFY_URL")>>
                  \o ResolvedChecks(notify, "INVALID_NOTIFY_URL", "INSECURE_NOTIFY_URL")
                  \o ResolvedChecks(return, "INVALID_RETURN_URL", "INSECURE_RETURN_URL")
    IN  /\ stage = "built"
        /\ request' = [overrides |-> <<notify_url, return_url>>, error |-> FirstError(checks),
                       notify_url |-> notify, return_url |-> return]
        /\ UNCHANGED <<stage, position, settings, asked, refusal, client>>

Next ==
    \/ \E pid \in Values.pid, key \in Values.key, url \in Values.api_base_url : New(pid, key, url)
    \/ FromEnv
    \/ \E reading \in Urls \union Quantities \union NoText
                      \union {"unparsable", "zero", "valid", "yes", "no"} : ReadVariable(reading)
    \/ \E f \in Fields \ Identity : \E value \in Values[f] : Set(f, value)
    \/ Build
    \/ BuildFails
    \/ \E notify_url, return_url \in Urls \union {"unset"} : Pay(notify_url, return_url)

Spec == Init /\ [][Next]_vars

\* The builder, its record of what was asked, the client and the request have
\* their types, and there is a client exactly when build made one.
TypeOK ==
    /\ stage \in {"start", "reading", "building", "built", "refused"}
    /\ position \in 1 .. Len(EnvVariables) + 1
    /\ DOMAIN settings = Fields /\ DOMAIN asked = Fields
    /\ \A f \in Fields :
           /\ settings[f] \in Values[f] \union {Defaults[f]}
           /\ asked[f] \in Values[f] \union {Defaults[f], "unusable", "unparsable"}
    /\ (stage = "refused") = (refusal # "none")
    /\ (stage = "built") = (client # NoClient)
    /\ stage # "built" => request = NoRequest

\* A client does what it was asked, whatever the order and the source of its
\* settings: the last word on each of them is in force, the ones nothing was
\* said about have their defaults, and nothing the environment says was replaced
\* by a default ("Malformed typed values fail instead of falling back to
\* defaults", protocol.rs 160). A custom transport is used "instead of reqwest"
\* (client.rs 697, 724-730): then, and only then, two settings are dropped
\* without an error, the connect timeout ("silently not applicable", client.rs
\* 648) and a supplied reqwest client.
AskedIsInForce ==
    stage = "built" =>
        /\ \A f \in Fields \ {"connect_timeout", "transport", "reqwest_client"} :
              client[f] = asked[f]
        /\ asked.transport = "custom" => client.transport = "custom"
        /\ asked.reqwest_client = "supplied" =>
              client.transport = "supplied" \/ asked.transport = "custom"
        /\ client.transport # "built-in" =>
              asked.transport = "custom" \/ asked.reqwest_client = "supplied"
        /\ client.timeout # "zero" /\ client.max_response_body_bytes # "zero"
        /\ client.connect_timeout = asked.connect_timeout \/ asked.transport = "custom"
        /\ asked.connect_timeout # "zero"
        /\ client.api_base_url = "http" => asked.allow_insecure_http = "yes"

\* What the caller may ask for, read off the documentation of each setting.
Sound ==
    /\ asked.pid = "valid" /\ asked.key = "valid"
    /\ asked.api_base_url \in IF asked.allow_insecure_http = "yes" THEN {"https", "http"} ELSE {"https"}
    /\ {asked.notify_url, asked.return_url} \subseteq
           {"unset", "https", "long"} \union
               IF asked.allow_insecure_callback_http = "yes" THEN {"http"} ELSE {}
    /\ {"zero", "unusable", "unparsable"} \cap {asked[f] : f \in Fields} = {}
    /\ asked.connect_timeout = "unset" \/ asked.reqwest_client = "unset"

\* Settings are refused for what was asked and not for the order in which it
\* was: every refusal but the transport's own is of settings that are unsound as
\* a whole, so one that a later setter put right is forgotten (client.rs
\* 713-750, config.rs 98-147).
RefusedForAReason == stage = "refused" /\ refusal # "transport" => ~Sound

Fit(url) == url \in {"https"} \union IF asked.allow_insecure_callback_http = "yes" THEN {"http"} ELSE {}

\* A payment is sent with a notification URL, and neither of its callback URLs is
\* plain HTTP unless the caller allowed it, wherever the URL comes from ("Applies
\* to configured defaults and to request-level overrides", protocol.rs 224;
\* payment.rs 73-92).
CallbacksFollowPolicy ==
    request.error = "none" =>
        /\ Fit(request.notify_url)
        /\ request.return_url = "unset" \/ Fit(request.return_url)

\* A payment whose own URLs, or the defaults where it has none, are fit to be
\* sent is not refused, and those are the ones it is sent with: "a blank override
\* must not shadow a configured default" (payment.rs 56-64).
FitPaymentsAreSent ==
    request # NoRequest =>
        LET wanted(f, i) == IF request.overrides[i] \in NoOverride THEN asked[f] ELSE request.overrides[i]
            notify       == wanted("notify_url", 1)
            return       == wanted("return_url", 2)
        IN  Fit(notify) /\ (return = "unset" \/ Fit(return)) =>
                request.error = "none" /\ request.notify_url = notify /\ request.return_url = return

=============================================================================
