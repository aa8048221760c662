--------------------------- MODULE Reading_proofs ---------------------------
(***************************************************************************)
(* Proofs about what is read from outside within a limit: the answer of an *)
(* attempt (Transport, for any limit, chunk sizes and statuses) and the    *)
(* fields of a callback (NotifyParse, for any fields, inputs and budgets). *)
(***************************************************************************)

EXTENDS Transport, NotifyParse, FiniteSetTheorems, TLAPS

-----------------------------------------------------------------------------
(* Transport *)

\* What an attempt has while its body is read: all that arrived is in memory
\* and within the limit, and so is what the head declared.
ReadingInv ==
    phase = "body" =>
        /\ ~custom /\ ~broke /\ result = NoError
        /\ buffer = wire /\ wire <= Limit
        /\ declared # Unknown => declared <= Limit

\* What it has when the body is returned. A transport of the application
\* declares nothing, and what it returns may be of any size.
ReturnedInv ==
    phase = "returned" =>
        /\ ~broke /\ result = NoError
        /\ buffer = wire
        /\ status \in 200..299
        /\ declared # Unknown => declared = wire
        /\ ~custom => wire <= Limit

FreshInv ==
    phase = "head" =>
        /\ status = 0 /\ declared = Unknown /\ wire = 0 /\ buffer = 0
        /\ ~broke /\ result = NoError

IInv ==
    /\ TypeOK
    /\ FreshInv /\ ReadingInv /\ ReturnedInv
    /\ BufferWithinLimit /\ ParsedWithinLimit /\ JudgedAsAWhole /\ NothingMissing

LEMMA ErrorsOfAnAttempt ==
    /\ PlainError("ResponseTooLarge") \in Error
    /\ PlainError("ResponseTooLarge") # NoError
    /\ \A kind \in TransportErrorKinds : TransportError(kind) \in Error /\ TransportError(kind) # NoError
    /\ \A s \in Nat : HttpError(s) \in Error /\ HttpError(s) # NoError
BY DEF PlainError, TransportError, HttpError, NoError, Error, Variants, TransportErrorKinds

LEMMA InitIInv == Init => IInv
<1> SUFFICES ASSUME Init PROVE IInv
  OBVIOUS
<1>1. 0 \in 0 .. MaxWire /\ 0 <= Limit
  BY LimitAssumption, MaxWireAssumption
<1>2. TypeOK
  BY <1>1 DEF Init, TypeOK
<1>3. FreshInv /\ ReadingInv /\ ReturnedInv
  BY DEF Init, FreshInv, ReadingInv, ReturnedInv
<1>4. BufferWithinLimit /\ ParsedWithinLimit /\ JudgedAsAWhole /\ NothingMissing
  BY <1>1 DEF Init, BufferWithinLimit, ParsedWithinLimit, JudgedAsAWhole, NothingMissing
<1>5. QED
  BY <1>2, <1>3, <1>4 DEF IInv

\* An attempt that ends before a head arrived.
LEMMA FailsStep ==
    ASSUME IInv, FailsBeforeHead \/ CustomFails
    PROVE  IInv'
<1>1. PICK kind \in TransportErrorKinds : EndWith(TransportError(kind))
  BY DEF FailsBeforeHead, CustomFails
<1>2. phase = "head" /\ UNCHANGED <<custom, status, declared, wire, buffer, broke>>
  BY DEF FailsBeforeHead, CustomFails
<1>3. QED
  BY <1>1, <1>2, ErrorsOfAnAttempt
     DEF IInv, TypeOK, FreshInv, ReadingInv, ReturnedInv, BufferWithinLimit, ParsedWithinLimit,
         JudgedAsAWhole, NothingMissing, EndWith

LEMMA HeadStep ==
    ASSUME IInv, NEW s \in Statuses, NEW length \in Lengths \cup {Unknown}, ResponseHead(s, length)
    PROVE  IInv'
<1>1. s \in Nat \ {0}
  BY TransportStatusesAssumption
<1>2. CASE length # Unknown /\ length > Limit
  <2>1. result' = PlainError("ResponseTooLarge") /\ phase' = "done"
    BY <1>2 DEF ResponseHead, EndWith
  <2>2. Arrival' = "oversized"
    BY <1>2 DEF Arrival, ResponseHead, IInv, FreshInv
  <2>3. result' \in Error /\ result' # NoError
    BY <2>1, ErrorsOfAnAttempt
  <2>4. /\ status' = s /\ declared' = length
        /\ UNCHANGED <<custom, wire, buffer, broke>>
    BY DEF ResponseHead
  <2>5. TypeOK'
    BY <2>1, <2>3, <2>4 DEF IInv, TypeOK
  <2>6. JudgedAsAWhole'
    BY <2>1, <2>2 DEF JudgedAsAWhole, ReadOutcome
  <2>7. QED
    BY <2>1, <2>3, <2>4, <2>5, <2>6
       DEF IInv, FreshInv, ReadingInv, ReturnedInv, BufferWithinLimit, ParsedWithinLimit,
           NothingMissing
<1>3. CASE ~(length # Unknown /\ length > Limit)
  <2>1. length # Unknown => length <= Limit
    BY <1>3, LimitAssumption, LengthsAssumption
  <2>2. /\ phase = "head" /\ phase' = "body" /\ ~custom /\ status' = s /\ declared' = length
        /\ UNCHANGED <<custom, wire, buffer, broke, result>>
    BY <1>3 DEF ResponseHead
  <2>3. wire = 0 /\ buffer = 0 /\ ~broke /\ result = NoError /\ 0 <= Limit
    BY <2>2, LimitAssumption DEF IInv, FreshInv
  <2>4. TypeOK'
    BY <2>2 DEF IInv, TypeOK
  <2>5. ReadingInv'
    BY <2>1, <2>2, <2>3 DEF ReadingInv
  <2>6. QED
    BY <2>2, <2>3, <2>4, <2>5
       DEF IInv, FreshInv, ReturnedInv, BufferWithinLimit, ParsedWithinLimit, JudgedAsAWhole,
           NothingMissing
<1>4. QED
  BY <1>2, <1>3

LEMMA ChunkStep ==
    ASSUME IInv, NEW size \in ChunkSizes, Chunk(size)
    PROVE  IInv'
<1>1. size \in Nat \ {0} /\ wire \in Nat /\ buffer \in Nat /\ Limit \in Nat /\ MaxWire \in Nat
  BY ChunkSizesAssumption, LimitAssumption, MaxWireAssumption DEF IInv, TypeOK
<1>2. /\ phase = "body" /\ wire' = wire + size /\ wire' <= MaxWire
      /\ UNCHANGED <<custom, status, declared, broke>>
  BY DEF Chunk, Deliverable
<1>3. ~custom /\ ~broke /\ result = NoError /\ buffer = wire /\ wire <= Limit
  BY <1>2 DEF IInv, ReadingInv
<1>4. CASE buffer + size > Limit
  <2>1. result' = PlainError("ResponseTooLarge") /\ phase' = "done" /\ buffer' = buffer
    BY <1>4 DEF Chunk, EndWith
  <2>2. wire' > Limit
    BY <1>1, <1>2, <1>3, <1>4
  <2>3. Arrival' = "oversized"
    BY <1>2, <1>3, <2>2 DEF Arrival
  <2>4. result' \in Error /\ result' # NoError
    BY <2>1, ErrorsOfAnAttempt
  <2>5. wire' \in 0 .. MaxWire
    BY <1>1, <1>2
  <2>6. TypeOK'
    BY <1>2, <2>1, <2>4, <2>5 DEF IInv, TypeOK
  <2>7. JudgedAsAWhole'
    BY <2>1, <2>3 DEF JudgedAsAWhole, ReadOutcome
  <2>8. QED
    BY <1>2, <2>1, <2>4, <2>6, <2>7
       DEF IInv, FreshInv, ReadingInv, ReturnedInv, BufferWithinLimit, ParsedWithinLimit,
           NothingMissing
<1>5. CASE ~(buffer + size > Limit)
  <2>1. buffer' = buffer + size /\ UNCHANGED <<phase, result>>
    BY <1>5 DEF Chunk
  <2>2. buffer' = wire' /\ wire' <= Limit
    BY <1>1, <1>2, <1>3, <1>5, <2>1
  <2>3. buffer' \in 0 .. MaxWire /\ wire' \in 0 .. MaxWire
    BY <1>1, <1>2, <2>1, <2>2
  <2>4. TypeOK'
    BY <1>2, <2>1, <2>3 DEF IInv, TypeOK
  <2>5. ReadingInv'
    BY <1>2, <1>3, <2>1, <2>2 DEF IInv, ReadingInv
  <2>6. QED
    BY <1>2, <1>3, <2>1, <2>2, <2>4, <2>5
       DEF IInv, FreshInv, ReturnedInv, BufferWithinLimit, ParsedWithinLimit, JudgedAsAWhole,
           NothingMissing
<1>6. QED
  BY <1>4, <1>5

\* How an attempt ends that read its body: whole, broken, or held up.
LEMMA EndOfBodyStep ==
    ASSUME IInv, EndOfBody
    PROVE  IInv'
<1>1. /\ phase = "body" /\ ~custom /\ ~broke /\ result = NoError /\ buffer = wire /\ wire <= Limit
      /\ declared # Unknown => declared = wire
      /\ UNCHANGED <<custom, status, declared, wire, buffer, broke>>
  BY DEF EndOfBody, IInv, ReadingInv
<1>2. CASE status \in 200..299
  BY <1>1, <1>2
     DEF IInv, TypeOK, FreshInv, ReadingInv, ReturnedInv, BufferWithinLimit, ParsedWithinLimit,
         JudgedAsAWhole, NothingMissing, EndOfBody
<1>3. CASE status \notin 200..299
  <2>1. phase' = "done" /\ result' = HttpError(status)
    BY <1>3 DEF EndOfBody, EndWith
  <2>2. status \in Nat
    BY TransportStatusesAssumption DEF IInv, TypeOK
  <2>3. Limit \in Nat /\ wire \in Nat
    BY LimitAssumption, MaxWireAssumption DEF IInv, TypeOK
  <2>4. Arrival' = "whole"
    BY <1>1, <2>3 DEF Arrival
  <2>5. HttpError(status) = ReadOutcome(status, "whole")
    BY <1>3 DEF ReadOutcome
  <2>6. HttpError(status) \in Error /\ HttpError(status) # NoError
    BY <2>2, ErrorsOfAnAttempt
  <2>7. JudgedAsAWhole'
    BY <1>1, <2>1, <2>4, <2>5 DEF JudgedAsAWhole
  <2>8. QED
    BY <1>1, <2>1, <2>6, <2>7
       DEF IInv, TypeOK, FreshInv, ReadingInv, ReturnedInv, BufferWithinLimit, ParsedWithinLimit,
           NothingMissing
<1>4. QED
  BY <1>2, <1>3

LEMMA BodyFailsStep ==
    ASSUME IInv, BodyFails
    PROVE  IInv'
<1>1. PICK kind \in {"Body", "Timeout"} : EndWith(TransportError(kind))
  BY DEF BodyFails
<1>2. /\ phase = "body" /\ broke' /\ buffer <= Limit /\ wire <= Limit
      /\ declared # Unknown => declared <= Limit
      /\ UNCHANGED <<custom, status, declared, wire, buffer>>
  BY DEF BodyFails, IInv, ReadingInv
<1>3. Limit \in Nat /\ wire \in Nat /\ (declared # Unknown => declared \in Nat)
  BY LimitAssumption, MaxWireAssumption, LengthsAssumption DEF IInv, TypeOK
<1>4. Arrival' = "broken"
  BY <1>2, <1>3 DEF Arrival
<1>5. ReadOutcome(status, "broken") = TransportError("Body")
  BY DEF ReadOutcome
<1>6. TransportError(kind) \in Error /\ TransportError(kind) # NoError
  BY ErrorsOfAnAttempt DEF TransportErrorKinds
<1>7. result' = TransportError(kind) /\ phase' = "done"
  BY <1>1 DEF EndWith
<1>8. JudgedAsAWhole'
  BY <1>2, <1>4, <1>5, <1>7 DEF JudgedAsAWhole
<1>9. broke' \in BOOLEAN
  BY DEF BodyFails
<1>10. QED
  BY <1>2, <1>6, <1>7, <1>8, <1>9
     DEF IInv, TypeOK, FreshInv, ReadingInv, ReturnedInv, BufferWithinLimit, ParsedWithinLimit,
         NothingMissing

LEMMA CustomReturnsStep ==
    ASSUME IInv, NEW s \in Statuses, NEW size \in 0 .. MaxWire, CustomReturns(s, size)
    PROVE  IInv'
BY DEF CustomReturns, IInv, TypeOK, FreshInv, ReadingInv, ReturnedInv, BufferWithinLimit,
       ParsedWithinLimit, JudgedAsAWhole, NothingMissing

LEMMA FinishStep ==
    ASSUME IInv, Finish
    PROVE  IInv'
<1>1. /\ phase = "returned" /\ ~broke /\ buffer = wire /\ status \in 200..299
      /\ declared # Unknown => declared = wire
      /\ UNCHANGED <<custom, status, declared, wire, buffer, broke>>
  BY DEF Finish, IInv, ReturnedInv
<1>2. Limit \in Nat /\ wire \in Nat
  BY LimitAssumption, MaxWireAssumption DEF IInv, TypeOK
<1>3. CASE buffer > Limit
  <2>1. phase' = "done" /\ result' = PlainError("ResponseTooLarge")
    BY <1>3 DEF Finish, EndWith
  <2>2. Arrival' = "oversized"
    BY <1>1, <1>3 DEF Arrival
  <2>3. QED
    BY <1>1, <2>1, <2>2, ErrorsOfAnAttempt
       DEF IInv, TypeOK, FreshInv, ReadingInv, ReturnedInv, BufferWithinLimit, ParsedWithinLimit,
           JudgedAsAWhole, NothingMissing, ReadOutcome
<1>4. CASE ~(buffer > Limit)
  <2>1. phase' = "done" /\ result' = NoError
    BY <1>4 DEF Finish, EndWith
  <2>2. Arrival' = "whole" /\ buffer <= Limit
    BY <1>1, <1>2, <1>4 DEF Arrival
  <2>3. ReadOutcome(status, "whole") = NoError
    BY <1>1 DEF ReadOutcome
  <2>4. JudgedAsAWhole'
    BY <1>1, <2>1, <2>2, <2>3 DEF JudgedAsAWhole
  <2>5. QED
    BY <1>1, <2>1, <2>2, <2>4
       DEF IInv, TypeOK, FreshInv, ReadingInv, ReturnedInv, BufferWithinLimit, ParsedWithinLimit,
           NothingMissing
<1>5. QED
  BY <1>3, <1>4

LEMMA NextIInv == IInv /\ [Next]_vars => IInv'
<1> SUFFICES ASSUME IInv, [Next]_vars PROVE IInv'
  OBVIOUS
<1>1. CASE FailsBeforeHead \/ CustomFails
  BY <1>1, FailsStep
<1>2. ASSUME NEW s \in Statuses, NEW length \in Lengths \cup {Unknown}, ResponseHead(s, length) PROVE IInv'
  BY <1>2, HeadStep
<1>3. CASE Reading
  BY <1>3, ChunkStep DEF Reading
<1>4. CASE EndOfBody
  BY <1>4, EndOfBodyStep
<1>5. CASE BodyFails
  BY <1>5, BodyFailsStep
<1>6. ASSUME NEW s \in Statuses, NEW size \in 0 .. MaxWire, CustomReturns(s, size) PROVE IInv'
  BY <1>6, CustomReturnsStep
<1>7. CASE Finish
  BY <1>7, FinishStep
<1>8. CASE UNCHANGED vars
  BY <1>8 DEF vars, IInv, TypeOK, FreshInv, ReadingInv, ReturnedInv, BufferWithinLimit,
              ParsedWithinLimit, JudgedAsAWhole, NothingMissing, Arrival
<1>9. QED
  BY <1>1, <1>2, <1>3, <1>4, <1>5, <1>6, <1>7, <1>8 DEF Next

LEMMA InvariantHolds == Spec => []IInv
BY InitIInv, NextIInv, PTL DEF Spec

\* The variables keep their types.
THEOREM TypeCorrect == Spec => []TypeOK
<1>1. IInv => TypeOK
  BY DEF IInv
<1>2. QED
  BY <1>1, InvariantHolds, PTL

\* The built-in transport never holds more than the limit, and no body beyond
\* it is parsed, whichever transport returned it (transport.rs 126-146,
\* client.rs 483-487).
THEOREM LimitIsKept == Spec => [](BufferWithinLimit /\ ParsedWithinLimit)
<1>1. IInv => BufferWithinLimit /\ ParsedWithinLimit
  BY DEF IInv
<1>2. QED
  BY <1>1, InvariantHolds, PTL

\* However the answer is cut into chunks, its verdict is the one on the whole
\* answer (transport.rs 121-152).
THEOREM ChunksDoNotMatter == Spec => []JudgedAsAWhole
<1>1. IInv => JudgedAsAWhole
  BY DEF IInv
<1>2. QED
  BY <1>1, InvariantHolds, PTL

\* A part of an answer is never taken for the whole (transport.rs 134-151).
THEOREM NothingIsMissing == Spec => []NothingMissing
<1>1. IInv => NothingMissing
  BY DEF IInv
<1>2. QED
  BY <1>1, InvariantHolds, PTL

-----------------------------------------------------------------------------
(* NotifyParse *)

InputTyped == input \in [query : Seq(Pairs), form : Seq(Pairs)]

\* The positions of either source that have been parsed, and the pairs in them.
Parsed ==
    [s \in Sources |-> IF s = source THEN 1 .. at - 1
                       ELSE IF source = "query" THEN {} ELSE 1 .. Len(input[s])]

Present == [s \in Sources |-> {i \in Parsed[s] : input[s][i] # Blank}]

FieldOf(entry) == [kind |-> "field", key |-> entry.key, value |-> entry.value]

\* An entry comes from the position pos gives it, and from no other.
ComeFrom(pos) ==
    /\ pos \in [DOMAIN entries -> Nat]
    /\ \A s \in Sources : \A e \in DOMAIN entries :
           entries[e].source = s => pos[e] \in Parsed[s] /\ input[s][pos[e]] = FieldOf(entries[e])
    /\ \A e, f \in DOMAIN entries : entries[e].source = entries[f].source /\ pos[e] = pos[f] => e = f
    /\ \A s \in Sources : \A i \in Parsed[s] :
           input[s][i] \in Fields => \E e \in DOMAIN entries : entries[e].source = s /\ pos[e] = i

EntriesStand ==
    pc # "done" =>
        /\ \A s \in Sources : \A i \in Parsed[s] : input[s][i] # Malformed
        /\ Len(entries) = Cardinality(Present["query"]) + Cardinality(Present["form"])
        /\ \E pos : ComeFrom(pos)

Places ==
    /\ pc \in {"query", "body", "type"} => source = "query" /\ at = 1 /\ entries = <<>>
    /\ pc = "query" => read = 0
    /\ pc = "body" => read = Len(input.query)
    /\ pc \in {"type", "parse", "canonicalize"} =>
           read = Len(input.query) + Len(input.form) /\ body # "broken"
    /\ pc \in {"parse", "canonicalize"} => body = "form" \/ input.form = <<>>
    /\ at <= Len(input[source]) + 1
    /\ pc = "canonicalize" => source = "form" /\ at = Len(input.form) + 1
    /\ accepted => pc = "done"

\* The inductive invariant of NotifyParse: the entries stand one to one for the
\* fields parsed so far, and no pair parsed so far is malformed.
ParseInv ==
    /\ ParseTypeOK /\ InputTyped
    /\ Places /\ BudgetsAreShared /\ EntriesStand
    /\ AcceptedIsMeant /\ SoundIsAccepted

-----------------------------------------------------------------------------
LEMMA PairsDiffer ==
    /\ Blank # Malformed /\ Blank \notin Fields /\ Malformed \notin Fields
    /\ Pairs = Fields \cup {Blank, Malformed}
BY DEF Blank, Malformed, Fields, Pairs

LEMMA InputFacts ==
    ASSUME InputTyped, NEW s \in Sources
    PROVE  /\ input[s] \in Seq(Pairs) /\ Len(input[s]) \in Nat /\ DOMAIN input[s] = 1 .. Len(input[s])
           /\ \A i \in DOMAIN input[s] : input[s][i] \in Pairs
BY DEF InputTyped, Sources

LEMMA EntryFacts ==
    ASSUME ParseTypeOK
    PROVE  /\ Len(entries) \in Nat /\ DOMAIN entries = 1 .. Len(entries)
           /\ \A e \in DOMAIN entries : /\ entries[e].key \in Keys /\ entries[e].source \in Sources
                                       /\ entries[e].value \in Values \cup {""}
<1> DEFINE R == [key : Keys, value : Values \cup {""}, source : Sources]
<1>1. entries \in Seq(R)
  BY DEF ParseTypeOK
<1> HIDE DEF R
<1>2. /\ Len(entries) \in Nat /\ DOMAIN entries = 1 .. Len(entries)
      /\ \A e \in DOMAIN entries : entries[e] \in R
  BY <1>1
<1>3. QED
  BY <1>2 DEF R

LEMMA InitParse == ParseInit => ParseInv
<1> SUFFICES ASSUME ParseInit PROVE ParseInv
  OBVIOUS
<1>1. InputTyped
  <2>1. PICK q \in SeqsUpTo(Pairs, QueryPairs), f \in SeqsUpTo(Pairs, FormPairs) : input = [query |-> q, form |-> f]
    BY DEF ParseInit
  <2>2. ASSUME NEW n, NEW t \in SeqsUpTo(Pairs, n) PROVE t \in Seq(Pairs)
    <3>1. PICK m \in 0 .. n : t \in [1 .. m -> Pairs]
      BY DEF SeqsUpTo
    <3>2. m \in Nat
      BY <3>1
    <3>3. QED
      BY <3>1, <3>2
  <2>3. QED
    BY <2>1, <2>2 DEF InputTyped
<1>2. /\ body \in {"form", "other", "broken"} /\ pc = "query" /\ read = 0 /\ source = "query" /\ at = 1
      /\ entries = <<>> /\ params = NoParams /\ accepted = FALSE
  BY DEF ParseInit
<1>3. Len(entries) = 0 /\ DOMAIN entries = {}
  BY <1>2
<1>4. ParseTypeOK
  <2>1. DOMAIN params = {}
    BY <1>2 DEF NoParams
  <2>2. entries \in Seq([key : Keys, value : Values \cup {""}, source : Sources])
    BY <1>2
  <2>3. DOMAIN params \subseteq Keys /\ \A k \in DOMAIN params : params[k] \in Values
    BY <2>1
  <2>4. accepted \in BOOLEAN
    BY <1>2
  <2>5. QED
    BY <1>2, <2>2, <2>3, <2>4 DEF ParseTypeOK, Sources
<1>5. Places
  BY <1>1, <1>2, InputFacts DEF Places, Sources
<1>6. BudgetsAreShared
  BY <1>2, <1>3, LimitsAssumption DEF BudgetsAreShared
<1>7. EntriesStand
  <2>1. \A s \in Sources : Parsed[s] = {} /\ Present[s] = {}
    BY <1>2 DEF Parsed, Present, Sources
  <2>2. Present["query"] = {} /\ Present["form"] = {}
    BY <2>1 DEF Sources
  <2>3. ComeFrom([e \in DOMAIN entries |-> 0])
    BY <1>3, <2>1 DEF ComeFrom
  <2>4. \E pos : ComeFrom(pos)
    BY <2>3
  <2>5. Len(entries) = Cardinality(Present["query"]) + Cardinality(Present["form"])
    <3>1. Cardinality({}) = 0
      BY FS_EmptySet
    <3>2. Cardinality(Present["query"]) = 0 /\ Cardinality(Present["form"]) = 0
      BY <2>2, <3>1
    <3>3. QED
      BY <1>3, <3>2
  <2>6. \A s \in Sources : \A i \in Parsed[s] : input[s][i] # Malformed
    BY <2>1
  <2>7. QED
    BY <2>4, <2>5, <2>6 DEF EntriesStand
<1>8. QED
  BY <1>1, <1>2, <1>4, <1>5, <1>6, <1>7 DEF ParseInv, AcceptedIsMeant, SoundIsAccepted

\* Of a callback that is turned away no more is claimed than that it is not sound.
LEMMA RejectStep ==
    ASSUME ParseInv, pc # "done", pc' = "done", ~Sound, UNCHANGED <<input, body, params, accepted, source, entries>>,
           at' <= Len(input[source]) + 1, at' \in Nat \ {0}, read' \in Nat, read' <= MaxBytes
    PROVE  ParseInv'
<1>1. ~accepted
  BY DEF ParseInv, Places
<1>2. ~Sound'
  <2>1. /\ FieldsOf("query")' = FieldsOf("query") /\ FieldsOf("form")' = FieldsOf("form")
        /\ NumFields("query")' = NumFields("query") /\ NumFields("form")' = NumFields("form")
    BY DEF FieldsOf, NumFields
  <2>2. Unambiguous' <=> Unambiguous
    BY <2>1 DEF Unambiguous, AllFields
  <2>3. QED
    BY <2>1, <2>2 DEF Sound
<1>3. ParseTypeOK' /\ InputTyped'
  BY DEF ParseInv, ParseTypeOK, InputTyped
<1>4. Places'
  BY <1>1 DEF Places
<1>5. QED
  BY <1>1, <1>2, <1>3, <1>4 DEF ParseInv, EntriesStand, BudgetsAreShared, AcceptedIsMeant, SoundIsAccepted

\* Steps that go on without parsing anything.
LEMMA SameParsed ==
    ASSUME EntriesStand, pc # "done", UNCHANGED <<input, entries>>,
           Parsed' = Parsed
    PROVE  EntriesStand'
<1>1. \A s \in Sources : Present'[s] = Present[s]
  BY DEF Present
<1>2. Present'["query"] = Present["query"] /\ Present'["form"] = Present["form"]
  BY <1>1 DEF Sources
<1>3. \A pos : ComeFrom(pos) => ComeFrom(pos)'
  BY DEF ComeFrom
<1>4. QED
  BY <1>2, <1>3 DEF EntriesStand

LEMMA SamePlace ==
    ASSUME UNCHANGED <<input, source, at>>
    PROVE  Parsed' = Parsed
BY DEF Parsed

\* More than the budget of bytes is not sound.
LEMMA Oversized ==
    ASSUME InputTyped, Len(input.query) > MaxBytes \/ Len(input.form) > MaxBytes - Len(input.query)
    PROVE  ~Sound
<1> DEFINE q == Len(input.query)
           f == Len(input.form)
<1>1. q \in Nat /\ f \in Nat /\ MaxBytes \in Nat /\ (q > MaxBytes \/ f > MaxBytes - q)
  BY LimitsAssumption DEF InputTyped
<1>2. Sound => q + f <= MaxBytes
  BY DEF Sound
<1> HIDE DEF q, f
<1>3. QED
  BY <1>1, <1>2

LEMMA ReadQueryStep == ParseInv /\ ReadQuery => ParseInv'
<1> SUFFICES ASSUME ParseInv, ReadQuery PROVE ParseInv'
  OBVIOUS
<1>1. /\ pc = "query" /\ source = "query" /\ at = 1 /\ read = 0
      /\ UNCHANGED <<input, body, source, at, entries, params, accepted>>
  BY DEF ReadQuery, ParseInv, Places, Reject, GoTo
<1>2. Len(input.query) \in Nat /\ Len(input.form) \in Nat /\ MaxBytes \in Nat
  BY LimitsAssumption DEF ParseInv, InputTyped
<1>3. CASE Len(input.query) > MaxBytes
  <2>1. pc' = "done" /\ read' = read
    BY <1>3 DEF ReadQuery, Reject
  <2>2. ~Sound
    BY <1>3, Oversized DEF ParseInv
  <2>3. QED
    BY <1>1, <1>2, <2>1, <2>2, RejectStep DEF ParseInv, Places
<1>4. CASE ~(Len(input.query) > MaxBytes)
  <2>1. pc' = "body" /\ read' = Len(input.query)
    BY <1>4 DEF ReadQuery, GoTo
  <2>2. ParseTypeOK' /\ InputTyped'
    BY <1>1, <1>2, <2>1 DEF ParseInv, ParseTypeOK, InputTyped
  <2>3. Places' /\ BudgetsAreShared'
    BY <1>1, <1>2, <1>4, <2>1 DEF ParseInv, Places, BudgetsAreShared
  <2>4. EntriesStand'
    BY <1>1, SameParsed, SamePlace DEF ParseInv
  <2>5. QED
    BY <1>1, <2>1, <2>2, <2>3, <2>4 DEF ParseInv, Places, AcceptedIsMeant, SoundIsAccepted
<1>5. QED
  BY <1>3, <1>4

LEMMA ReadBodyStep == ParseInv /\ ReadBody => ParseInv'
<1> SUFFICES ASSUME ParseInv, ReadBody PROVE ParseInv'
  OBVIOUS
<1>1. /\ pc = "body" /\ source = "query" /\ at = 1 /\ read = Len(input.query) /\ read <= MaxBytes
      /\ UNCHANGED <<input, body, source, at, entries, params, accepted>>
  BY DEF ReadBody, ParseInv, Places, Reject, GoTo, BudgetsAreShared
<1>2. Len(input.query) \in Nat /\ Len(input.form) \in Nat /\ MaxBytes \in Nat
  BY LimitsAssumption DEF ParseInv, InputTyped
<1>3. CASE body = "broken" \/ Len(input.form) > MaxBytes - read
  <2>1. pc' = "done" /\ read' = read
    BY <1>3 DEF ReadBody, Reject
  <2>2. ~Sound
    <3>1. body = "broken" => ~Sound
      BY DEF Sound
    <3>2. QED
      BY <1>1, <1>3, <3>1, Oversized DEF ParseInv
  <2>3. QED
    BY <1>1, <1>2, <2>1, <2>2, RejectStep DEF ParseInv, Places
<1>4. CASE ~(body = "broken" \/ Len(input.form) > MaxBytes - read)
  <2>1. pc' = "type" /\ read' = read + Len(input.form)
    BY <1>4 DEF ReadBody, GoTo
  <2>2. /\ read' \in Nat /\ read' <= MaxBytes
        /\ read' = Len(input.query) + Len(input.form) /\ body # "broken"
    <3> DEFINE q == Len(input.query)
               f == Len(input.form)
    <3>1. q \in Nat /\ f \in Nat /\ MaxBytes \in Nat /\ ~(f > MaxBytes - q) /\ read' = q + f
      BY <1>1, <1>2, <1>4, <2>1
    <3> HIDE DEF q, f
    <3>2. read' \in Nat /\ read' <= MaxBytes /\ read' = q + f
      BY <3>1
    <3>3. QED
      BY <1>4, <3>2 DEF q, f
  <2>3. ParseTypeOK' /\ InputTyped'
    BY <1>1, <2>1, <2>2 DEF ParseInv, ParseTypeOK, InputTyped
  <2>4. Places' /\ BudgetsAreShared'
    BY <1>1, <2>1, <2>2 DEF ParseInv, Places, BudgetsAreShared
  <2>5. EntriesStand'
    BY <1>1, SameParsed, SamePlace DEF ParseInv
  <2>6. QED
    BY <1>1, <2>1, <2>3, <2>4, <2>5 DEF ParseInv, Places, AcceptedIsMeant, SoundIsAccepted
<1>5. QED
  BY <1>3, <1>4

LEMMA CheckTypeStep == ParseInv /\ CheckType => ParseInv'
<1> SUFFICES ASSUME ParseInv, CheckType PROVE ParseInv'
  OBVIOUS
<1>1. /\ pc = "type" /\ source = "query" /\ at = 1
      /\ UNCHANGED <<input, body, read, source, at, entries, params, accepted>>
  BY DEF CheckType, ParseInv, Places, Reject, GoTo
<1>2. CASE input.form # <<>> /\ body # "form"
  <2>1. pc' = "done"
    BY <1>2 DEF CheckType, Reject
  <2>2. ~Sound
    BY <1>2 DEF Sound
  <2>3. QED
    BY <1>1, <2>1, <2>2, RejectStep DEF ParseInv, Places, ParseTypeOK, BudgetsAreShared
<1>3. CASE ~(input.form # <<>> /\ body # "form")
  <2>1. pc' = "parse"
    BY <1>3 DEF CheckType, GoTo
  <2>2. ParseTypeOK' /\ InputTyped'
    BY <1>1, <2>1 DEF ParseInv, ParseTypeOK, InputTyped
  <2>3. Places' /\ BudgetsAreShared'
    BY <1>1, <1>3, <2>1 DEF ParseInv, Places, BudgetsAreShared
  <2>4. EntriesStand'
    BY <1>1, SameParsed, SamePlace DEF ParseInv
  <2>5. QED
    BY <1>1, <2>1, <2>2, <2>3, <2>4 DEF ParseInv, Places, AcceptedIsMeant, SoundIsAccepted
<1>4. QED
  BY <1>2, <1>3

-----------------------------------------------------------------------------
(* parse_source *)

NonBlank == [s \in Sources |-> {i \in DOMAIN input[s] : input[s][i] # Blank}]

\* What is parsed is part of the input, and finite.
LEMMA ParsedFinite ==
    ASSUME ParseTypeOK, InputTyped, at <= Len(input[source]) + 1, NEW s \in Sources
    PROVE  /\ Parsed[s] \subseteq DOMAIN input[s] /\ Present[s] \subseteq NonBlank[s]
           /\ IsFiniteSet(Present[s]) /\ IsFiniteSet(NonBlank[s])
           /\ Cardinality(Present[s]) \in Nat /\ Cardinality(NonBlank[s]) \in Nat
           /\ Cardinality(Present[s]) <= Cardinality(NonBlank[s])
<1>1. Len(input[s]) \in Nat /\ DOMAIN input[s] = 1 .. Len(input[s]) /\ at \in Nat /\ Len(input[source]) \in Nat
  BY InputFacts DEF ParseTypeOK
<1>2. Parsed[s] \subseteq DOMAIN input[s]
  BY <1>1 DEF Parsed
<1>3. Present[s] \subseteq NonBlank[s]
  BY <1>2 DEF Present, NonBlank
<1>4. IsFiniteSet(1 .. Len(input[s]))
  <2>1. 1 \in Int /\ Len(input[s]) \in Int
    BY <1>1
  <2>2. QED
    BY <2>1, FS_Interval
<1>5. IsFiniteSet(NonBlank[s])
  <2>1. NonBlank[s] \in SUBSET (1 .. Len(input[s]))
    BY <1>1 DEF NonBlank
  <2>2. QED
    BY <1>4, <2>1, FS_Subset
<1>6. IsFiniteSet(Present[s]) /\ Cardinality(Present[s]) <= Cardinality(NonBlank[s])
  <2>1. Present[s] \in SUBSET NonBlank[s]
    BY <1>3
  <2>2. QED
    BY <1>5, <2>1, FS_Subset
<1>7. QED
  BY <1>2, <1>3, <1>5, <1>6, FS_CardinalityType

\* What a step over one pair adds to what is parsed.
LEMMA ParsedGrows ==
    ASSUME ParseTypeOK, UNCHANGED <<input, source>>, at' = at + 1
    PROVE  /\ Parsed'[source] = Parsed[source] \cup {at} /\ at \notin Parsed[source]
           /\ \A s \in Sources : s # source => Parsed'[s] = Parsed[s]
<1>1. at \in Nat \ {0}
  BY DEF ParseTypeOK
<1>2. 1 .. (at + 1) - 1 = (1 .. at - 1) \cup {at} /\ at \notin 1 .. at - 1
  BY <1>1
<1>3. QED
  BY <1>2 DEF Parsed, ParseTypeOK

\* A pair beyond the budget of fields, counted over both sources.
LEMMA TooManyFields ==
    ASSUME ParseInv, pc # "done", at <= Len(input[source]), input[source][at] # Blank, Len(entries) >= MaxFields
    PROVE  ~Sound
<1>1. /\ source \in Sources /\ at \in Nat \ {0} /\ Len(entries) \in Nat /\ MaxFields \in Nat
      /\ at \in DOMAIN input[source]
  <2>1. source \in Sources /\ at \in Nat \ {0} /\ InputTyped
    BY DEF ParseInv, ParseTypeOK
  <2>2. Len(entries) \in Nat /\ MaxFields \in Nat
    BY EntryFacts, LimitsAssumption DEF ParseInv
  <2>3. Len(input[source]) \in Nat /\ DOMAIN input[source] = 1 .. Len(input[source])
    BY <2>1, InputFacts
  <2>4. QED
    BY <2>1, <2>2, <2>3
<1>2. /\ Len(entries) = Cardinality(Present["query"]) + Cardinality(Present["form"])
  BY DEF ParseInv, EntriesStand
<1>3. Cardinality(Present[source]) + 1 <= Cardinality(NonBlank[source])
  <2>1. at \notin Present[source]
    BY <1>1 DEF Present, Parsed
  <2>2. Present[source] \cup {at} \in SUBSET NonBlank[source]
    BY <1>1, ParsedFinite DEF ParseInv, Places, NonBlank
  <2>3. IsFiniteSet(Present[source]) /\ IsFiniteSet(NonBlank[source])
    BY <1>1, ParsedFinite DEF ParseInv, Places
  <2>4. Cardinality(Present[source] \cup {at}) = Cardinality(Present[source]) + 1
    BY <2>1, <2>3, FS_AddElement
  <2>5. QED
    BY <2>2, <2>3, <2>4, FS_Subset
<1>4. \A s \in Sources : /\ Cardinality(Present[s]) <= Cardinality(NonBlank[s])
                        /\ Cardinality(Present[s]) \in Nat /\ Cardinality(NonBlank[s]) \in Nat
  BY ParsedFinite DEF ParseInv, Places
<1>5. Cardinality(NonBlank["query"]) + Cardinality(NonBlank["form"]) > MaxFields
  BY <1>1, <1>2, <1>3, <1>4 DEF Sources
<1>6. NumFields("query") = Cardinality(NonBlank["query"]) /\ NumFields("form") = Cardinality(NonBlank["form"])
  BY DEF NumFields, NonBlank, Sources
<1>7. Sound => Cardinality(NonBlank["query"]) + Cardinality(NonBlank["form"]) <= MaxFields
  BY <1>6 DEF Sound
<1>8. QED
  BY <1>1, <1>4, <1>5, <1>7 DEF Sources

LEMMA BlankPair ==
    ASSUME ParseInv, ParsePair, input[source][at] = Blank
    PROVE  EntriesStand'
<1>1. /\ pc = "parse" /\ at' = at + 1 /\ UNCHANGED <<input, source, entries>> /\ source \in Sources
      /\ Parsed'[source] = Parsed[source] \cup {at} /\ \A s \in Sources : s # source => Parsed'[s] = Parsed[s]
  BY PairsDiffer, ParsedGrows DEF ParsePair, ParseInv, ParseTypeOK, Reject
<1>2. \A s \in Sources : Present'[s] = Present[s]
  BY <1>1 DEF Present
<1>3. Present'["query"] = Present["query"] /\ Present'["form"] = Present["form"]
  BY <1>2 DEF Sources
<1>4. \A s \in Sources : \A i \in Parsed'[s] : input[s][i] # Malformed
  BY <1>1, PairsDiffer DEF ParseInv, EntriesStand
<1>5. PICK pos : ComeFrom(pos)
  BY <1>1 DEF ParseInv, EntriesStand
<1>6. \A s \in Sources : \A e \in DOMAIN entries : entries[e].source = s => pos[e] \in Parsed'[s]
  <2>1. \A s \in Sources : Parsed[s] \subseteq Parsed'[s]
    BY <1>1
  <2>2. QED
    BY <1>5, <2>1 DEF ComeFrom
<1>7. \A s \in Sources : \A i \in Parsed'[s] :
          input[s][i] \in Fields => \E e \in DOMAIN entries : entries[e].source = s /\ pos[e] = i
  BY <1>1, <1>5, PairsDiffer DEF ComeFrom
<1>8. ComeFrom(pos)'
  BY <1>1, <1>5, <1>6, <1>7 DEF ComeFrom
<1>9. QED
  BY <1>1, <1>3, <1>4, <1>8 DEF ParseInv, EntriesStand

LEMMA FieldPair ==
    ASSUME ParseInv, ParsePair, input[source][at] \in Fields, pc' = "parse"
    PROVE  EntriesStand' /\ Len(entries') = Len(entries) + 1
<1> DEFINE pair  == input[source][at]
           entry == [key |-> pair.key, value |-> pair.value, source |-> source]
           n     == Len(entries)
<1>1. /\ pc = "parse" /\ at' = at + 1 /\ UNCHANGED <<input, source>> /\ source \in Sources
      /\ at \in Nat \ {0}
      /\ entries' = Append(entries, entry)
  BY PairsDiffer DEF ParsePair, ParseInv, ParseTypeOK, Reject
<1>2. /\ Parsed'[source] = Parsed[source] \cup {at} /\ at \notin Parsed[source]
      /\ \A s \in Sources : s # source => Parsed'[s] = Parsed[s]
  BY <1>1, ParsedGrows DEF ParseInv
<1>3. /\ n \in Nat /\ DOMAIN entries = 1 .. n /\ DOMAIN entries' = 1 .. n + 1 /\ Len(entries') = n + 1
      /\ entries'[n + 1] = entry /\ \A e \in 1 .. n : entries'[e] = entries[e]
  <2> DEFINE R == [key : Keys, value : Values \cup {""}, source : Sources]
  <2>1. entries \in Seq(R)
    BY DEF ParseInv, ParseTypeOK
  <2>2. entry \in R
    <3>1. PICK p \in Fields : p = pair
      OBVIOUS
    <3>2. p.key \in Keys /\ p.value \in Values \cup {""}
      BY <3>1 DEF Fields
    <3>3. QED
      BY <1>1, <3>1, <3>2
  <2> HIDE DEF entry, R
  <2>3. QED
    BY <1>1, <2>1, <2>2
<1>4. FieldOf(entry) = pair
  BY DEF FieldOf, Fields
<1>5. PICK pos : ComeFrom(pos)
  BY <1>1 DEF ParseInv, EntriesStand
<1>6. \A e \in 1 .. n : entries[e].source \in Sources
  BY <1>3, EntryFacts DEF ParseInv
<1>6a. PICK later : later = [e \in 1 .. n + 1 |-> IF e <= n THEN pos[e] ELSE at]
  OBVIOUS
<1>7. later[n + 1] = at /\ \A e \in 1 .. n : later[e] = pos[e]
  BY <1>3, <1>6a
<1>8. later \in [DOMAIN entries' -> Nat]
  BY <1>1, <1>3, <1>5, <1>6a DEF ComeFrom
<1>9. entry.source = source
  OBVIOUS
<1> HIDE DEF entry, n
<1>10. \A s \in Sources : \A e \in DOMAIN entries' :
           entries'[e].source = s => later[e] \in Parsed'[s] /\ input[s][later[e]] = FieldOf(entries'[e])
  <2> SUFFICES ASSUME NEW s \in Sources, NEW e \in 1 .. n + 1, entries'[e].source = s
               PROVE  later[e] \in Parsed'[s] /\ input[s][later[e]] = FieldOf(entries'[e])
    BY <1>3
  <2>1. CASE e \in 1 .. n
    <3>1. entries'[e] = entries[e] /\ later[e] = pos[e] /\ e \in DOMAIN entries
      BY <1>3, <1>7, <2>1
    <3>2. pos[e] \in Parsed[s] /\ input[s][pos[e]] = FieldOf(entries[e])
      BY <1>5, <3>1 DEF ComeFrom
    <3>3. Parsed[s] \subseteq Parsed'[s]
      BY <1>2
    <3>4. QED
      BY <3>1, <3>2, <3>3
  <2>2. CASE e = n + 1
    <3>1. s = source /\ later[e] = at /\ entries'[e] = entry
      BY <1>3, <1>7, <1>9, <2>2
    <3>2. QED
      BY <1>2, <1>4, <3>1
  <2>3. QED
    BY <1>3, <2>1, <2>2
<1>11. \A e, f \in DOMAIN entries' : entries'[e].source = entries'[f].source /\ later[e] = later[f] => e = f
  <2>1. \A e, f \in 1 .. n : entries'[e].source = entries'[f].source /\ later[e] = later[f] => e = f
    BY <1>3, <1>5, <1>7 DEF ComeFrom
  <2>2. \A e \in 1 .. n : entries'[e].source = entries'[n + 1].source => later[e] # later[n + 1]
    <3> SUFFICES ASSUME NEW e \in 1 .. n, entries'[e].source = entries'[n + 1].source
                 PROVE  later[e] # later[n + 1]
      OBVIOUS
    <3>1. entries[e].source = source /\ later[e] = pos[e] /\ later[n + 1] = at
      BY <1>3, <1>7, <1>9
    <3>2. pos[e] \in Parsed[source]
      BY <1>1, <1>3, <1>5, <3>1 DEF ComeFrom
    <3>3. QED
      BY <1>2, <3>1, <3>2
  <2>3. \A e \in 1 .. n + 1 : e \in 1 .. n \/ e = n + 1
    BY <1>3
  <2>4. QED
    BY <1>3, <2>1, <2>2, <2>3, Zenon
<1>12. \A s \in Sources : \A i \in Parsed'[s] :
           input[s][i] \in Fields => \E e \in DOMAIN entries' : entries'[e].source = s /\ later[e] = i
  <2> SUFFICES ASSUME NEW s \in Sources, NEW i \in Parsed'[s], input[s][i] \in Fields
               PROVE  \E e \in DOMAIN entries' : entries'[e].source = s /\ later[e] = i
    OBVIOUS
  <2>1. CASE s = source /\ i = at
    <3>1. n + 1 \in DOMAIN entries'
      BY <1>3
    <3>2. QED
      BY <1>3, <1>7, <1>9, <2>1, <3>1
  <2>2. CASE ~(s = source /\ i = at)
    <3>1. i \in Parsed[s]
      <4>1. CASE s = source
        BY <1>2, <2>2, <4>1
      <4>2. CASE s # source
        BY <1>2, <4>2
      <4>3. QED
        BY <4>1, <4>2
    <3>2. PICK e \in 1 .. n : entries[e].source = s /\ pos[e] = i
      BY <1>3, <1>5, <3>1 DEF ComeFrom
    <3>3. e \in DOMAIN entries'
      BY <1>3
    <3>4. QED
      BY <1>3, <1>7, <3>2, <3>3
  <2>3. QED
    BY <2>1, <2>2
<1>13. ComeFrom(later)'
  BY <1>1, <1>8, <1>10, <1>11, <1>12 DEF ComeFrom
<1>14. Len(entries') = Cardinality(Present'["query"]) + Cardinality(Present'["form"])
  <2>1. Present'[source] = Present[source] \cup {at} /\ at \notin Present[source]
    BY <1>1, <1>2, PairsDiffer DEF Present
  <2>2. \A s \in Sources : s # source => Present'[s] = Present[s]
    BY <1>1, <1>2 DEF Present
  <2>3. \A s \in Sources : IsFiniteSet(Present[s]) /\ Cardinality(Present[s]) \in Nat
    BY ParsedFinite DEF ParseInv, Places
  <2>4. Cardinality(Present'[source]) = Cardinality(Present[source]) + 1
    BY <1>1, <2>1, <2>3, FS_AddElement
  <2>5. n = Cardinality(Present["query"]) + Cardinality(Present["form"])
    BY <1>1 DEF ParseInv, EntriesStand, n
  <2>6. CASE source = "query"
    <3>1. Cardinality(Present'["query"]) = Cardinality(Present["query"]) + 1 /\ Present'["form"] = Present["form"]
      <4>1. "form" \in Sources /\ "form" # source
        BY <2>6 DEF Sources
      <4>2. Present'["form"] = Present["form"]
        BY <2>2, <4>1
      <4>3. Present'["query"] = Present'[source] /\ Present["query"] = Present[source]
        BY <2>6
      <4>4. QED
        BY <2>4, <4>2, <4>3
    <3>2. Cardinality(Present["query"]) \in Nat /\ Cardinality(Present["form"]) \in Nat
      BY <2>3 DEF Sources
    <3>3. QED
      BY <1>3, <2>5, <3>1, <3>2
  <2>7. CASE source = "form"
    <3>1. Cardinality(Present'["form"]) = Cardinality(Present["form"]) + 1 /\ Present'["query"] = Present["query"]
      <4>1. "query" \in Sources /\ "query" # source
        BY <2>7 DEF Sources
      <4>2. Present'["query"] = Present["query"]
        BY <2>2, <4>1
      <4>3. Present'["form"] = Present'[source] /\ Present["form"] = Present[source]
        BY <2>7
      <4>4. QED
        BY <2>4, <4>2, <4>3
    <3>2. Cardinality(Present["query"]) \in Nat /\ Cardinality(Present["form"]) \in Nat
      BY <2>3 DEF Sources
    <3>3. QED
      BY <1>3, <2>5, <3>1, <3>2
  <2>8. QED
    BY <1>1, <2>6, <2>7 DEF Sources
<1>15. \A s \in Sources : \A i \in Parsed'[s] : input[s][i] # Malformed
  BY <1>1, <1>2, PairsDiffer DEF ParseInv, EntriesStand
<1>16. EntriesStand'
  BY <1>1, <1>13, <1>14, <1>15 DEF EntriesStand
<1>17. QED
  BY <1>3, <1>16 DEF n


LEMMA ParsePairStep == ParseInv /\ ParsePair => ParseInv'
<1> SUFFICES ASSUME ParseInv, ParsePair PROVE ParseInv'
  OBVIOUS
<1> DEFINE pair == input[source][at]
<1>1. /\ pc = "parse" /\ at <= Len(input[source]) /\ at' = at + 1
      /\ UNCHANGED <<input, body, read, source, params, accepted>>
  BY DEF ParsePair, Reject
<1>2. /\ source \in Sources /\ at \in Nat \ {0} /\ read \in Nat /\ read <= MaxBytes
      /\ Len(input[source]) \in Nat /\ at \in DOMAIN input[source] /\ pair \in Pairs
  <2>1. source \in Sources /\ at \in Nat \ {0} /\ read \in Nat /\ InputTyped /\ read <= MaxBytes
    BY DEF ParseInv, ParseTypeOK, BudgetsAreShared
  <2>2. /\ Len(input[source]) \in Nat /\ DOMAIN input[source] = 1 .. Len(input[source])
        /\ \A i \in DOMAIN input[source] : input[source][i] \in Pairs
    BY <2>1, InputFacts
  <2>3. at \in DOMAIN input[source]
    BY <1>1, <2>1, <2>2
  <2>4. QED
    BY <2>1, <2>2, <2>3
<1>3. at' <= Len(input[source]) + 1 /\ at' \in Nat \ {0}
  BY <1>1, <1>2
<1>4. CASE pair = Blank
  <2>1. UNCHANGED <<entries, pc>>
    BY <1>4, PairsDiffer DEF ParsePair
  <2>2. ParseTypeOK' /\ InputTyped'
    BY <1>1, <1>3, <2>1 DEF ParseInv, ParseTypeOK, InputTyped
  <2>3. Places' /\ BudgetsAreShared'
    BY <1>1, <1>3, <2>1 DEF ParseInv, Places, BudgetsAreShared
  <2>4. EntriesStand'
    BY <1>4, BlankPair
  <2>5. QED
    BY <1>1, <2>1, <2>2, <2>3, <2>4 DEF ParseInv, Places, AcceptedIsMeant, SoundIsAccepted
<1>5. CASE pair # Blank /\ (Len(entries) >= MaxFields \/ pair = Malformed) /\ Reject /\ UNCHANGED entries
  <2>1. pc' = "done"
    BY <1>5 DEF Reject
  <2>2. ~Sound
    <3>1. pair = Malformed => ~Sound
      BY <1>2 DEF Sound
    <3>2. Len(entries) >= MaxFields => ~Sound
      BY <1>1, <1>5, TooManyFields
    <3>3. QED
      BY <1>5, <3>1, <3>2
  <2>3. pc # "done" /\ read' = read /\ entries' = entries
    BY <1>1, <1>5
  <2>4. QED
    BY <1>1, <1>2, <1>3, <2>1, <2>2, <2>3, RejectStep
<1> DEFINE entry == [key |-> pair.key, value |-> pair.value, source |-> source]
<1>6. CASE pair \in Fields /\ Len(entries) < MaxFields /\ entries' = Append(entries, entry) /\ pc' = pc
  <2>1. EntriesStand' /\ Len(entries') = Len(entries) + 1
    BY <1>1, <1>6, FieldPair
  <2>2. Len(entries') <= MaxFields
    <3>1. Len(entries) \in Nat /\ MaxFields \in Nat
      BY EntryFacts, LimitsAssumption DEF ParseInv
    <3>2. QED
      BY <1>6, <2>1, <3>1
  <2>3. entries' \in Seq([key : Keys, value : Values \cup {""}, source : Sources])
    <3> DEFINE R == [key : Keys, value : Values \cup {""}, source : Sources]
    <3>1. entries \in Seq(R)
      BY DEF ParseInv, ParseTypeOK
    <3>2. entry \in R
      <4>1. PICK p \in Fields : p = pair
        BY <1>6
      <4>2. p.key \in Keys /\ p.value \in Values \cup {""}
        BY <4>1 DEF Fields
      <4>3. QED
        BY <1>2, <4>1, <4>2
    <3> HIDE DEF entry, R
    <3>3. entries' \in Seq(R)
      BY <1>6, <3>1, <3>2
    <3>4. QED
      BY <3>3 DEF R
  <2>4. ParseTypeOK' /\ InputTyped'
    BY <1>1, <1>3, <1>6, <2>3 DEF ParseInv, ParseTypeOK, InputTyped
  <2>5. Places' /\ BudgetsAreShared'
    BY <1>1, <1>2, <1>3, <1>6, <2>2 DEF ParseInv, Places, BudgetsAreShared
  <2>6. QED
    BY <1>1, <1>6, <2>1, <2>4, <2>5 DEF ParseInv, Places, AcceptedIsMeant, SoundIsAccepted
<1>7. QED
  BY <1>4, <1>5, <1>6 DEF ParsePair

LEMMA NextSourceStep == ParseInv /\ NextSource => ParseInv'
<1> SUFFICES ASSUME ParseInv, NextSource PROVE ParseInv'
  OBVIOUS
<1>1. /\ pc = "parse" /\ at > Len(input[source])
      /\ UNCHANGED <<input, body, read, entries, params, accepted>>
  BY DEF NextSource, GoTo
<1>2. /\ source \in Sources /\ at \in Nat \ {0} /\ Len(input[source]) \in Nat /\ at = Len(input[source]) + 1
  <2>1. source \in Sources /\ at \in Nat \ {0} /\ InputTyped /\ at <= Len(input[source]) + 1
    BY DEF ParseInv, ParseTypeOK, Places
  <2>2. Len(input[source]) \in Nat
    BY <2>1, InputFacts
  <2>3. QED
    BY <1>1, <2>1, <2>2
<1>3. CASE source = "query"
  <2>1. source' = "form" /\ at' = 1 /\ pc' = pc
    BY <1>3 DEF NextSource
  <2>2. Len(input.query) \in Nat /\ Len(input.form) \in Nat /\ at = Len(input.query) + 1
    <3>1. InputTyped
      BY DEF ParseInv
    <3>2. Len(input.query) \in Nat /\ Len(input.form) \in Nat
      BY <3>1 DEF InputTyped
    <3>3. input[source] = input.query
      BY <1>3
    <3>4. QED
      BY <1>2, <3>2, <3>3
  <2>3. Parsed' = Parsed
    <3>1. 1 .. at' - 1 = {}
      BY <2>1
    <3>2. 1 .. at - 1 = 1 .. Len(input.query)
      <4> DEFINE q == Len(input.query)
      <4>1. q \in Nat /\ at = q + 1
        BY <2>2
      <4> HIDE DEF q
      <4>2. at - 1 = q
        BY <4>1
      <4>3. QED
        BY <4>2 DEF q
    <3>3. QED
      BY <1>1, <1>3, <2>1, <3>1, <3>2 DEF Parsed, Sources
  <2>4. EntriesStand'
    BY <1>1, <2>3, SameParsed DEF ParseInv
  <2>5. ParseTypeOK' /\ InputTyped'
    <3>1. at' \in Nat \ {0} /\ source' \in Sources
      BY <2>1 DEF Sources
    <3>2. QED
      BY <1>1, <2>1, <3>1 DEF ParseInv, ParseTypeOK, InputTyped
  <2>6. Places' /\ BudgetsAreShared'
    <3>1. at' <= Len(input'[source']) + 1
      <4> DEFINE f == Len(input.form)
      <4>1. f \in Nat /\ at' = 1 /\ Len(input'[source']) = f
        BY <1>1, <2>1, <2>2
      <4> HIDE DEF f
      <4>2. QED
        BY <4>1
    <3>2. QED
      BY <1>1, <2>1, <3>1 DEF ParseInv, Places, BudgetsAreShared
  <2>7. QED
    BY <1>1, <2>1, <2>4, <2>5, <2>6 DEF ParseInv, Places, AcceptedIsMeant, SoundIsAccepted
<1>4. CASE source # "query"
  <2>1. pc' = "canonicalize" /\ UNCHANGED <<source, at>> /\ source = "form"
    BY <1>2, <1>4 DEF NextSource, GoTo, Sources
  <2>2. EntriesStand'
    BY <1>1, <2>1, SamePlace, SameParsed DEF ParseInv
  <2>3. ParseTypeOK' /\ InputTyped'
    BY <1>1, <2>1 DEF ParseInv, ParseTypeOK, InputTyped
  <2>4. Places' /\ BudgetsAreShared'
    <3>1. at = Len(input.form) + 1
      BY <1>2, <2>1
    <3>2. QED
      BY <1>1, <2>1, <3>1 DEF ParseInv, Places, BudgetsAreShared
  <2>5. QED
    BY <1>1, <2>1, <2>2, <2>3, <2>4 DEF ParseInv, Places, AcceptedIsMeant, SoundIsAccepted
<1>5. QED
  BY <1>3, <1>4

-----------------------------------------------------------------------------
(* canonicalize *)

\* When all is parsed every field of the input has its entry.
AllCome(pos) ==
    /\ \A e \in DOMAIN entries : \A s \in Sources :
          entries[e].source = s => pos[e] \in DOMAIN input[s] /\ input[s][pos[e]] = FieldOf(entries[e])
    /\ \A e, f \in DOMAIN entries : entries[e].source = entries[f].source /\ pos[e] = pos[f] => e = f
    /\ \A s \in Sources : \A i \in DOMAIN input[s] :
          input[s][i] \in Fields => \E e \in DOMAIN entries : entries[e].source = s /\ pos[e] = i

LEMMA AllParsed ==
    ASSUME ParseInv, pc = "canonicalize"
    PROVE  /\ \A s \in Sources : Parsed[s] = DOMAIN input[s]
           /\ \E pos : AllCome(pos)
<1>1. source = "form" /\ at = Len(input.form) + 1 /\ InputTyped
  BY DEF ParseInv, Places
<1>2. \A s \in Sources : Parsed[s] = DOMAIN input[s]
  <2>1. \A s \in Sources : DOMAIN input[s] = 1 .. Len(input[s])
    BY <1>1, InputFacts
  <2>2. 1 .. at - 1 = 1 .. Len(input.form)
    <3> DEFINE q == Len(input.form)
    <3>1. q \in Nat /\ at = q + 1
      BY <1>1 DEF InputTyped
    <3> HIDE DEF q
    <3>2. at - 1 = q
      BY <3>1
    <3>3. QED
      BY <3>2 DEF q
  <2>3. QED
    BY <1>1, <2>1, <2>2 DEF Parsed, Sources
<1>3. PICK pos : ComeFrom(pos)
  BY DEF ParseInv, EntriesStand
<1>4. AllCome(pos)
  BY <1>2, <1>3 DEF ComeFrom, AllCome
<1>5. QED
  BY <1>2, <1>4

\* The fields of the input are those of the entries.
LEMMA EntriesAreFields ==
    ASSUME ParseInv, NEW pos, AllCome(pos)
    PROVE  /\ \A e \in DOMAIN entries : FieldOf(entries[e]) \in AllFields /\ FieldOf(entries[e]) \in Fields
           /\ \A f \in AllFields : \E e \in DOMAIN entries : f = FieldOf(entries[e])
<1>1. \A e \in DOMAIN entries : FieldOf(entries[e]) \in AllFields /\ FieldOf(entries[e]) \in Fields
  <2> SUFFICES ASSUME NEW e \in DOMAIN entries
               PROVE  FieldOf(entries[e]) \in AllFields /\ FieldOf(entries[e]) \in Fields
    OBVIOUS
  <2>1. FieldOf(entries[e]) \in Fields
    BY EntryFacts DEF ParseInv, FieldOf, Fields
  <2>2. PICK s \in Sources : entries[e].source = s
    BY EntryFacts DEF ParseInv
  <2>3. pos[e] \in DOMAIN input[s] /\ input[s][pos[e]] = FieldOf(entries[e])
    BY <2>2 DEF AllCome
  <2>4. FieldOf(entries[e]) \in FieldsOf(s)
    BY <2>1, <2>3 DEF FieldsOf
  <2>5. QED
    BY <2>1, <2>4 DEF AllFields, Sources
<1>2. \A f \in AllFields : \E e \in DOMAIN entries : f = FieldOf(entries[e])
  <2> SUFFICES ASSUME NEW f \in AllFields PROVE \E e \in DOMAIN entries : f = FieldOf(entries[e])
    OBVIOUS
  <2>1. PICK s \in Sources : f \in FieldsOf(s)
    BY DEF AllFields, Sources
  <2>2. PICK i \in DOMAIN input[s] : input[s][i] \in Fields /\ f = input[s][i]
    BY <2>1 DEF FieldsOf
  <2>3. PICK e \in DOMAIN entries : entries[e].source = s /\ pos[e] = i
    BY <2>2 DEF AllCome
  <2>4. QED
    BY <2>2, <2>3 DEF AllCome
<1>3. QED
  BY <1>1, <1>2

LEMMA FieldOfFacts ==
    ASSUME NEW e, NEW f
    PROVE  /\ FieldOf(e).key = e.key /\ FieldOf(e).value = e.value
           /\ e.key = f.key /\ e.value = f.value => FieldOf(e) = FieldOf(f)
BY DEF FieldOf

\* canonicalize finds what is ambiguous, and nothing else.
LEMMA AmbiguousIsSeen ==
    ASSUME ParseInv, NEW pos, AllCome(pos)
    PROVE  Unambiguous <=> ~Duplicated /\ ~Conflicting
<1>0. DOMAIN entries = 1 .. Len(entries) /\ Len(entries) \in Nat
  BY EntryFacts DEF ParseInv
<1>1. ASSUME Unambiguous, Conflicting PROVE FALSE
  <2>1. PICK e, f \in DOMAIN entries : entries[e].key = entries[f].key /\ entries[e].value # entries[f].value
    BY <1>1 DEF Conflicting
  <2>2. FieldOf(entries[e]) = FieldOf(entries[f])
    BY <1>1, <2>1, EntriesAreFields, FieldOfFacts DEF Unambiguous
  <2>3. QED
    BY <2>1, <2>2, FieldOfFacts
<1>2. ASSUME Unambiguous, Duplicated PROVE FALSE
  <2>1. PICK e, f \in DOMAIN entries :
            e < f /\ entries[e].source = entries[f].source /\ entries[e].key = entries[f].key
    BY <1>2 DEF Duplicated
  <2>2. FieldOf(entries[e]) = FieldOf(entries[f])
    BY <1>2, <2>1, EntriesAreFields, FieldOfFacts DEF Unambiguous
  <2>3. PICK s \in Sources : entries[e].source = s
    BY EntryFacts DEF ParseInv
  <2>4. /\ pos[e] \in DOMAIN input[s] /\ input[s][pos[e]] = FieldOf(entries[e])
        /\ pos[f] \in DOMAIN input[s] /\ input[s][pos[f]] = FieldOf(entries[f])
    BY <2>1, <2>3 DEF AllCome
  <2>5. pos[e] = pos[f]
    BY <1>2, <2>2, <2>4, EntriesAreFields DEF Unambiguous
  <2>6. e = f
    BY <2>1, <2>5 DEF AllCome
  <2>7. QED
    BY <1>0, <2>1, <2>6
<1>3. ASSUME ~Duplicated, ~Conflicting PROVE Unambiguous
  <2>1. ASSUME NEW f \in AllFields, NEW g \in AllFields, f.key = g.key PROVE f = g
    <3>1. PICK d, e \in DOMAIN entries : f = FieldOf(entries[d]) /\ g = FieldOf(entries[e])
      BY EntriesAreFields
    <3>2. entries[d].key = entries[e].key
      BY <2>1, <3>1, FieldOfFacts
    <3>3. entries[d].value = entries[e].value
      BY <1>3, <3>2 DEF Conflicting
    <3>4. QED
      BY <3>1, <3>2, <3>3, FieldOfFacts
  <2>2. ASSUME NEW s \in Sources, NEW i \in DOMAIN input[s], NEW j \in DOMAIN input[s],
               input[s][i] \in Fields, input[s][i] = input[s][j]
        PROVE  i = j
    <3>1. PICK d, e \in DOMAIN entries :
              /\ entries[d].source = s /\ pos[d] = i
              /\ entries[e].source = s /\ pos[e] = j
      BY <2>2 DEF AllCome
    <3>2. FieldOf(entries[d]) = FieldOf(entries[e])
      BY <2>2, <3>1 DEF AllCome
    <3>3. entries[d].key = entries[e].key
      BY <3>2, FieldOfFacts
    <3>4. ~(d < e) /\ ~(e < d)
      BY <1>3, <3>1, <3>3 DEF Duplicated
    <3>5. d = e
      BY <1>0, <3>4
    <3>6. QED
      BY <3>1, <3>5
  <2>3. QED
    BY <2>1, <2>2 DEF Unambiguous
<1>4. QED
  BY <1>1, <1>2, <1>3

\* Once all is parsed, soundness hangs on the ambiguity alone.
LEMMA SoundWhenParsed ==
    ASSUME ParseInv, pc = "canonicalize"
    PROVE  Sound <=> Unambiguous
<1>1. /\ Len(input.query) + Len(input.form) <= MaxBytes
      /\ body = "form" \/ (body = "other" /\ input.form = <<>>)
  <2>1. read = Len(input.query) + Len(input.form) /\ read <= MaxBytes
    BY DEF ParseInv, Places, BudgetsAreShared
  <2>2. body # "broken" /\ (body = "form" \/ input.form = <<>>) /\ body \in {"form", "other", "broken"}
    BY DEF ParseInv, Places, ParseTypeOK
  <2>3. QED
    BY <2>1, <2>2
<1>2. \A s \in Sources : Parsed[s] = DOMAIN input[s]
  BY AllParsed
<1>3. \A s \in Sources : NumFields(s) = Cardinality(Present[s])
  BY <1>2 DEF NumFields, Present
<1>4. NumFields("query") + NumFields("form") <= MaxFields
  <2>1. Len(entries) = Cardinality(Present["query"]) + Cardinality(Present["form"]) /\ Len(entries) <= MaxFields
    BY DEF ParseInv, EntriesStand, BudgetsAreShared
  <2>2. NumFields("query") = Cardinality(Present["query"]) /\ NumFields("form") = Cardinality(Present["form"])
    BY <1>3 DEF Sources
  <2>3. QED
    BY <2>1, <2>2
<1>5. \A s \in Sources : \A i \in DOMAIN input[s] : input[s][i] # Malformed
  BY <1>2 DEF ParseInv, EntriesStand
<1>6. QED
  BY <1>1, <1>4, <1>5 DEF Sound

\* The canonical parameters are the non-empty fields.
LEMMA CanonicalMeaning ==
    ASSUME ParseInv, NEW pos, AllCome(pos), ~Conflicting, NEW p, p = [k \in NonEmptyKeys |-> ValueOf(k)]
    PROVE  /\ {<<k, p[k]>> : k \in DOMAIN p} = Meaning
           /\ DOMAIN p \subseteq Keys /\ \A k \in DOMAIN p : p[k] \in Values
<1>1. \A e \in DOMAIN entries : ValueOf(entries[e].key) = entries[e].value
  BY DEF ValueOf, Conflicting
<1>2. \A k \in DOMAIN p : \E e \in DOMAIN entries :
          k = entries[e].key /\ p[k] = entries[e].value /\ entries[e].value # ""
  BY <1>1 DEF NonEmptyKeys
<1>3. \A e \in DOMAIN entries : entries[e].value # "" => entries[e].key \in DOMAIN p /\ p[entries[e].key] = entries[e].value
  BY <1>1 DEF NonEmptyKeys
<1>4. DOMAIN p \subseteq Keys /\ \A k \in DOMAIN p : p[k] \in Values
  BY <1>2, EntryFacts DEF ParseInv
<1>5. ASSUME NEW k \in DOMAIN p PROVE <<k, p[k]>> \in Meaning
  <2>1. PICK e \in DOMAIN entries : k = entries[e].key /\ p[k] = entries[e].value /\ entries[e].value # ""
    BY <1>2
  <2>2. PICK f \in AllFields : f = FieldOf(entries[e])
    BY EntriesAreFields
  <2>3. f.key = k /\ f.value = p[k] /\ f.value # ""
    BY <2>1, <2>2, FieldOfFacts
  <2>4. QED
    BY <2>3 DEF Meaning
<1>6. ASSUME NEW m \in Meaning PROVE m \in {<<k, p[k]>> : k \in DOMAIN p}
  <2>1. PICK f \in AllFields : f.value # "" /\ m = <<f.key, f.value>>
    BY DEF Meaning
  <2>2. PICK e \in DOMAIN entries : f = FieldOf(entries[e])
    BY EntriesAreFields
  <2>3. f.key = entries[e].key /\ f.value = entries[e].value
    BY <2>2, FieldOfFacts
  <2>4. QED
    BY <1>3, <2>1, <2>3
<1>7. QED
  BY <1>4, <1>5, <1>6

LEMMA CanonicalizeStep == ParseInv /\ Canonicalize => ParseInv'
<1> SUFFICES ASSUME ParseInv, Canonicalize PROVE ParseInv'
  OBVIOUS
<1>1. pc = "canonicalize" /\ pc' = "done" /\ UNCHANGED <<input, body, read, source, at, entries>>
  BY DEF Canonicalize
<1>2. PICK pos : AllCome(pos)
  BY <1>1, AllParsed
<1>3. Sound <=> ~(Duplicated \/ Conflicting)
  BY <1>1, <1>2, AmbiguousIsSeen, SoundWhenParsed
<1>4. CASE Duplicated \/ Conflicting
  <2>1. ~Sound /\ UNCHANGED <<params, accepted>>
    BY <1>3, <1>4 DEF Canonicalize
  <2>2. at <= Len(input[source]) + 1 /\ at \in Nat \ {0} /\ read \in Nat /\ read <= MaxBytes
    BY DEF ParseInv, Places, ParseTypeOK, BudgetsAreShared
  <2>3. QED
    BY <1>1, <2>1, <2>2, RejectStep
<1>5. CASE ~(Duplicated \/ Conflicting)
  <2>1. accepted' = TRUE /\ params' = [k \in NonEmptyKeys |-> ValueOf(k)]
    BY <1>5 DEF Canonicalize
  <2>2. PICK p : p = params'
    OBVIOUS
  <2>3. /\ {<<k, p[k]>> : k \in DOMAIN p} = Meaning
        /\ DOMAIN p \subseteq Keys /\ \A k \in DOMAIN p : p[k] \in Values
    BY <1>2, <1>5, <2>1, <2>2, CanonicalMeaning
  <2>4. ParseTypeOK' /\ InputTyped'
    BY <1>1, <2>1, <2>2, <2>3 DEF ParseInv, ParseTypeOK, InputTyped
  <2>5. Places' /\ BudgetsAreShared' /\ EntriesStand'
    BY <1>1 DEF ParseInv, Places, BudgetsAreShared, EntriesStand
  <2>6. AcceptedIsMeant'
    <3>1. FieldsOf("query")' = FieldsOf("query") /\ FieldsOf("form")' = FieldsOf("form")
      BY <1>1 DEF FieldsOf
    <3>2. Meaning' = Meaning
      BY <3>1 DEF Meaning, AllFields
    <3>3. QED
      BY <2>2, <2>3, <3>2 DEF AcceptedIsMeant
  <2>7. SoundIsAccepted'
    <3>1. Sound
      BY <1>3, <1>5
    <3>2. /\ FieldsOf("query")' = FieldsOf("query") /\ FieldsOf("form")' = FieldsOf("form")
          /\ NumFields("query")' = NumFields("query") /\ NumFields("form")' = NumFields("form")
      BY <1>1 DEF FieldsOf, NumFields
    <3>3. Unambiguous' <=> Unambiguous
      BY <1>1, <3>2 DEF Unambiguous, AllFields
    <3>4. Sound'
      BY <1>1, <3>1, <3>2, <3>3 DEF Sound
    <3>5. QED
      BY <2>1, <3>4 DEF SoundIsAccepted
  <2>8. QED
    BY <2>4, <2>5, <2>6, <2>7 DEF ParseInv
<1>6. QED
  BY <1>4, <1>5

LEMMA NextParse == ParseInv /\ [ParseNext]_parseVars => ParseInv'
<1> SUFFICES ASSUME ParseInv, [ParseNext]_parseVars PROVE ParseInv'
  OBVIOUS
<1>1. CASE ReadQuery
  BY <1>1, ReadQueryStep
<1>2. CASE ReadBody
  BY <1>2, ReadBodyStep
<1>3. CASE CheckType
  BY <1>3, CheckTypeStep
<1>4. CASE ParsePair
  BY <1>4, ParsePairStep
<1>5. CASE NextSource
  BY <1>5, NextSourceStep
<1>6. CASE Canonicalize
  BY <1>6, CanonicalizeStep
<1>7. CASE UNCHANGED parseVars
  <2> USE <1>7 DEF parseVars
  <2>1. ParseTypeOK' /\ InputTyped' /\ Places' /\ BudgetsAreShared'
    BY DEF ParseInv, ParseTypeOK, InputTyped, Places, BudgetsAreShared
  <2>2. EntriesStand'
    <3>1. Parsed' = Parsed
      BY SamePlace
    <3>2. CASE pc # "done"
      BY <3>1, <3>2, SameParsed DEF ParseInv
    <3>3. CASE pc = "done"
      BY <3>3 DEF EntriesStand
    <3>4. QED
      BY <3>2, <3>3
  <2>3. /\ FieldsOf("query")' = FieldsOf("query") /\ FieldsOf("form")' = FieldsOf("form")
        /\ NumFields("query")' = NumFields("query") /\ NumFields("form")' = NumFields("form")
    BY DEF FieldsOf, NumFields
  <2>4. AcceptedIsMeant'
    BY <2>3 DEF ParseInv, AcceptedIsMeant, Meaning, AllFields
  <2>5. Unambiguous' <=> Unambiguous
    BY <2>3 DEF Unambiguous, AllFields
  <2>6. SoundIsAccepted'
    BY <2>3, <2>5 DEF ParseInv, SoundIsAccepted, Sound
  <2>7. QED
    BY <2>1, <2>2, <2>4, <2>6 DEF ParseInv
<1>8. QED
  BY <1>1, <1>2, <1>3, <1>4, <1>5, <1>6, <1>7 DEF ParseNext

LEMMA ParseInvariant == ParseSpec => []ParseInv
BY InitParse, NextParse, PTL DEF ParseSpec

\* The state of the parser has its type; its entries are fields, its canonical
\* parameters non-empty values (notify.rs 103-136, 226-247).
THEOREM ParseTypeCorrect == ParseSpec => []ParseTypeOK
<1>1. ParseInv => ParseTypeOK
  BY DEF ParseInv
<1>2. QED
  BY <1>1, ParseInvariant, PTL

\* For any budgets, the query and the form share them: together they never take
\* in more bytes or more fields (axum.rs 288-301, notify.rs 231-245).
THEOREM BudgetsHold == ParseSpec => []BudgetsAreShared
<1>1. ParseInv => BudgetsAreShared
  BY DEF ParseInv
<1>2. QED
  BY <1>1, ParseInvariant, PTL

\* Whatever the order of the fields and the source of each, the parameters
\* accepted are the non-empty fields sent, all of them and no other
\* (notify.rs 103-136, 308-338).
THEOREM MeaningIsKept == ParseSpec => []AcceptedIsMeant
<1>1. ParseInv => AcceptedIsMeant
  BY DEF ParseInv
<1>2. QED
  BY <1>1, ParseInvariant, PTL

\* A callback is accepted exactly when it is within both budgets, well formed
\* and unambiguous, for inputs of any length (axum.rs 288-321, notify.rs
\* 103-136, 226-247, 308-338).
THEOREM ExactlySoundIsAccepted == ParseSpec => []SoundIsAccepted
<1>1. ParseInv => SoundIsAccepted
  BY DEF ParseInv
<1>2. QED
  BY <1>1, ParseInvariant, PTL

=============================================================================
