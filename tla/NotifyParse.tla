---------------------------- MODULE NotifyParse -----------------------------
(***************************************************************************)
(* Reading a callback of the gateway: read_notify_params of the axum       *)
(* extractors, then the strict parser and canonicalize. The gateway may    *)
(* send the fields in the query, in a form body or in both; one budget of  *)
(* bytes and one of fields covers the two sources together.                *)
(*                                                                         *)
(* A source is a sequence of raw pairs, each one unit long with its        *)
(* separator: a field with its key and value, an empty pair between two    *)
(* separators, or one that cannot be decoded (its key empty, its percent   *)
(* encoding or its UTF-8 broken).                                          *)
(***************************************************************************)

EXTENDS Integers, Sequences, FiniteSets

CONSTANTS
    Keys,      \* names of fields
    Values,    \* non-empty values
    MaxBytes,  \* NotifyLimits::max_encoded_bytes
    MaxFields, \* NotifyLimits::max_fields
    QueryPairs, FormPairs  \* bounds: raw pairs in either source

ASSUME LimitsAssumption == MaxBytes \in Nat /\ MaxFields \in Nat
ASSUME EmptyAssumption == "" \notin Values

Blank == [kind |-> "blank", key |-> "", value |-> ""]
Malformed == [kind |-> "malformed", key |-> "", value |-> ""]
Fields == [kind : {"field"}, key : Keys, value : Values \cup {""}]
Pairs == Fields \cup {Blank, Malformed}

Sources == {"query", "form"}

SeqsUpTo(S, n) == UNION {[1 .. m -> S] : m \in 0 .. n}

VARIABLES
    input,     \* the raw pairs of either source
    body,      \* "form", of another type or no UTF-8 ("other"), or "broken" off
    pc,        \* "query", "body", "type", "parse", "canonicalize", "done"
    read,      \* units of input taken in
    source,    \* the source being parsed
    at,        \* the position in it
    entries,   \* RawNotifyParams
    params,    \* the canonical parameters: a partial function on Keys
    accepted

parseVars == <<input, body, pc, read, source, at, entries, params, accepted>>

NoParams == [k \in {} |-> ""]

ParseInit ==
    /\ input \in {[query |-> q, form |-> f] :
                    q \in SeqsUpTo(Pairs, QueryPairs), f \in SeqsUpTo(Pairs, FormPairs)}
    /\ body \in {"form", "other", "broken"}
    /\ pc = "query"
    /\ read = 0
    /\ source = "query"
    /\ at = 1
    /\ entries = <<>>
    /\ params = NoParams
    /\ accepted = FALSE

Reject == pc' = "done" /\ UNCHANGED <<params, accepted>>

GoTo(place) == pc' = place /\ UNCHANGED <<params, accepted>>

-----------------------------------------------------------------------------
(* read_notify_params *)

ReadQuery ==
    /\ pc = "query"
    /\ IF Len(input.query) > MaxBytes
       THEN Reject /\ UNCHANGED read
       ELSE GoTo("body") /\ read' = Len(input.query)
    /\ UNCHANGED <<input, body, source, at, entries>>

\* Fault: the body has the whole budget for itself.
ReadBodyAnew ==
    /\ pc = "body"
    /\ IF body = "broken" \/ Len(input.form) > MaxBytes
       THEN Reject /\ UNCHANGED read
       ELSE GoTo("type") /\ read' = read + Len(input.form)
    /\ UNCHANGED <<input, body, source, at, entries>>

\* The body may take what the query left of the budget.
ReadBody ==
    /\ pc = "body"
    /\ IF body = "broken" \/ Len(input.form) > MaxBytes - read
       THEN Reject /\ UNCHANGED read
       ELSE GoTo("type") /\ read' = read + Len(input.form)
    /\ UNCHANGED <<input, body, source, at, entries>>

\* An empty body needs no content type.
CheckType ==
    /\ pc = "type"
    /\ IF input.form # <<>> /\ body # "form" THEN Reject ELSE GoTo("parse")
    /\ UNCHANGED <<input, body, read, source, at, entries>>

-----------------------------------------------------------------------------
(* parse_source, for the query and then for the form *)

\* Fault: the bound on the fields is checked once a field has been added.
ParsePairLate ==
    /\ pc = "parse"
    /\ at <= Len(input[source])
    /\ LET pair == input[source][at]
       IN  \/ pair = Blank /\ UNCHANGED <<entries, pc, params, accepted>>
           \/ /\ pair # Blank
              /\ Len(entries) > MaxFields \/ pair = Malformed
              /\ Reject
              /\ UNCHANGED entries
           \/ /\ pair \in Fields
              /\ Len(entries) <= MaxFields
              /\ entries' = Append(entries, [key |-> pair.key, value |-> pair.value, source |-> source])
              /\ UNCHANGED <<pc, params, accepted>>
    /\ at' = at + 1
    /\ UNCHANGED <<input, body, read, source>>

ParsePair ==
    /\ pc = "parse"
    /\ at <= Len(input[source])
    /\ LET pair == input[source][at]
       IN  \/ pair = Blank /\ UNCHANGED <<entries, pc, params, accepted>>
           \/ /\ pair # Blank
              /\ Len(entries) >= MaxFields \/ pair = Malformed
              /\ Reject
              /\ UNCHANGED entries
           \/ /\ pair \in Fields
              /\ Len(entries) < MaxFields
              /\ entries' = Append(entries, [key |-> pair.key, value |-> pair.value, source |-> source])
              /\ UNCHANGED <<pc, params, accepted>>
    /\ at' = at + 1
    /\ UNCHANGED <<input, body, read, source>>

NextSource ==
    /\ pc = "parse"
    /\ at > Len(input[source])
    /\ IF source = "query"
       THEN source' = "form" /\ at' = 1 /\ UNCHANGED <<pc, params, accepted>>
       ELSE GoTo("canonicalize") /\ UNCHANGED <<source, at>>
    /\ UNCHANGED <<input, body, read, entries>>

-----------------------------------------------------------------------------
(* canonicalize *)

Duplicated ==
    \E i, j \in DOMAIN entries :
        i < j /\ entries[i].source = entries[j].source /\ entries[i].key = entries[j].key

Conflicting ==
    \E i, j \in DOMAIN entries :
        entries[i].key = entries[j].key /\ entries[i].value # entries[j].value

NonEmptyKeys == {entries[i].key : i \in {i \in DOMAIN entries : entries[i].value # ""}}

ValueOf(k) == entries[CHOOSE i \in DOMAIN entries : entries[i].key = k].value

\* Fault: of two values of a key the first one counts.
CanonicalizeFirstWins ==
    /\ pc = "canonicalize"
    /\ pc' = "done"
    /\ IF Duplicated
       THEN UNCHANGED <<params, accepted>>
       ELSE /\ accepted' = TRUE
            /\ params' = [k \in NonEmptyKeys |-> ValueOf(k)]
    /\ UNCHANGED <<input, body, read, source, at, entries>>

\* A key may occur once in each source, with the same value; empty values are
\* then dropped.
Canonicalize ==
    /\ pc = "canonicalize"
    /\ pc' = "done"
    /\ IF Duplicated \/ Conflicting
       THEN UNCHANGED <<params, accepted>>
       ELSE /\ accepted' = TRUE
            /\ params' = [k \in NonEmptyKeys |-> ValueOf(k)]
    /\ UNCHANGED <<input, body, read, source, at, entries>>

ParseNext ==
    \/ ReadQuery \/ ReadBody \/ CheckType
    \/ ParsePair \/ NextSource
    \/ Canonicalize

ParseSpec == ParseInit /\ [][ParseNext]_parseVars

-----------------------------------------------------------------------------
(* Properties *)

ParseTypeOK ==
    /\ body \in {"form", "other", "broken"}
    /\ pc \in {"query", "body", "type", "parse", "canonicalize", "done"}
    /\ read \in Nat
    /\ source \in Sources
    /\ at \in Nat \ {0}
    /\ entries \in Seq([key : Keys, value : Values \cup {""}, source : Sources])
    /\ DOMAIN params \subseteq Keys
    /\ \A k \in DOMAIN params : params[k] \in Values
    /\ accepted \in BOOLEAN

\* Neither source can use up more than what the other left of the two budgets
\* (axum.rs 288-301, notify.rs 231-245).
BudgetsAreShared == read <= MaxBytes /\ Len(entries) <= MaxFields

\* The fields of an input as one set, whatever their order and their source.
FieldsOf(s) == {input[s][i] : i \in {i \in DOMAIN input[s] : input[s][i] \in Fields}}
AllFields == FieldsOf("query") \cup FieldsOf("form")

Meaning == {<<f.key, f.value>> : f \in {f \in AllFields : f.value # ""}}

\* What was accepted is what the sender meant: the accepted parameters are the
\* non-empty fields of the input, none lost, none added, and independent of the
\* order of the fields and of the source each one came in
\* (notify.rs 103-136, 308-338).
AcceptedIsMeant ==
    accepted => {<<k, params[k]>> : k \in DOMAIN params} = Meaning

\* No key has two values, in one source or across both, and none occurs twice
\* in one source.
Unambiguous ==
    /\ \A f, g \in AllFields : f.key = g.key => f = g
    /\ \A s \in Sources : \A i, j \in DOMAIN input[s] :
          input[s][i] \in Fields /\ input[s][i] = input[s][j] => i = j

NumFields(s) == Cardinality({i \in DOMAIN input[s] : input[s][i] # Blank})

Sound ==
    /\ Len(input.query) + Len(input.form) <= MaxBytes
    /\ body = "form" \/ (body = "other" /\ input.form = <<>>)
    /\ NumFields("query") + NumFields("form") <= MaxFields
    /\ \A s \in Sources : \A i \in DOMAIN input[s] : input[s][i] # Malformed
    /\ Unambiguous

\* Exactly the sound callbacks are accepted: an ambiguous, malformed, oversized
\* or partial one never is, and none is turned away for how its fields are
\* ordered or spread over the two sources (axum.rs 288-321, notify.rs 103-136,
\* 226-247, 308-338).
SoundIsAccepted == pc = "done" => (accepted <=> Sound)

=============================================================================
