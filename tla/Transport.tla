----------------------------- MODULE Transport ------------------------------
(***************************************************************************)
(* One attempt as the transport sees it: the answer's head arrives, its    *)
(* body follows in chunks, and read_response decides how much of it is     *)
(* read and what the attempt ends with; finish of the client then checks   *)
(* the size of the body once more, because the transport may be one the    *)
(* application wrote. Sizes are counted in abstract units.                 *)
(*                                                                         *)
(* The server and the connection are external: the head may declare a      *)
(* content length or not, a declared length is what the HTTP layer then    *)
(* delivers or else fails, and an undeclared body may go on for ever.      *)
(***************************************************************************)

EXTENDS Errors

CONSTANTS
    Limit,      \* HttpConfig::max_response_body_bytes
    Lengths,    \* content lengths a head may declare
    ChunkSizes, \* sizes of the chunks a body arrives in
    MaxWire,    \* bound: units of a body looked at
    Statuses,   \* HTTP statuses
    Unknown     \* no content length

ASSUME LimitAssumption == Limit \in Nat \ {0}
ASSUME LengthsAssumption == Lengths \subseteq Nat /\ Unknown \notin Lengths
ASSUME ChunkSizesAssumption == ChunkSizes \subseteq Nat \ {0}
ASSUME MaxWireAssumption == MaxWire \in Nat /\ MaxWire > Limit
ASSUME TransportStatusesAssumption == Statuses \subseteq Nat \ {0}

VARIABLES
    custom,    \* the transport is the application's own
    phase,     \* "head", "body", "returned" to the client, "done"
    status,    \* of the answer, 0 before its head is there
    declared,  \* its content length
    wire,      \* units of the body the connection has delivered
    buffer,    \* units of the body held in memory
    broke,     \* the body broke off
    result     \* error of the attempt, NoError if its body goes to parse_json

vars == <<custom, phase, status, declared, wire, buffer, broke, result>>

Init ==
    /\ custom \in BOOLEAN
    /\ phase = "head"
    /\ status = 0
    /\ declared = Unknown
    /\ wire = 0
    /\ buffer = 0
    /\ broke = FALSE
    /\ result = NoError

EndWith(e) == phase' = "done" /\ result' = e

-----------------------------------------------------------------------------
(* The built-in transport *)

\* No head arrives: send() fails.
FailsBeforeHead ==
    /\ phase = "head"
    /\ ~custom
    /\ \E kind \in TransportErrorKinds \ {"Body"} : EndWith(TransportError(kind))
    /\ UNCHANGED <<custom, status, declared, wire, buffer, broke>>

\* Fault: a body of exactly the limit is refused.
HeadAtLimit(s, length) ==
    /\ phase = "head"
    /\ ~custom
    /\ status' = s
    /\ declared' = length
    /\ IF length # Unknown /\ length >= Limit
       THEN EndWith(PlainError("ResponseTooLarge"))
       ELSE phase' = "body" /\ UNCHANGED result
    /\ UNCHANGED <<custom, wire, buffer, broke>>

\* The head arrives. A declared length beyond the limit ends the attempt
\* before anything of the body is read, whatever the status.
ResponseHead(s, length) ==
    /\ phase = "head"
    /\ ~custom
    /\ status' = s
    /\ declared' = length
    /\ IF length # Unknown /\ length > Limit
       THEN EndWith(PlainError("ResponseTooLarge"))
       ELSE phase' = "body" /\ UNCHANGED result
    /\ UNCHANGED <<custom, wire, buffer, broke>>

\* The HTTP layer delivers no more than was declared.
Deliverable(size) ==
    /\ wire + size <= MaxWire
    /\ declared # Unknown => wire + size <= declared

\* Fault: the limit is applied to each chunk by itself.
ChunkAlone(size) ==
    /\ phase = "body"
    /\ Deliverable(size)
    /\ wire' = wire + size
    /\ IF size > Limit
       THEN EndWith(PlainError("ResponseTooLarge")) /\ UNCHANGED buffer
       ELSE buffer' = buffer + size /\ UNCHANGED <<phase, result>>
    /\ UNCHANGED <<custom, status, declared, broke>>

\* Fault: a chunk replaces the buffer.
ChunkReplaces(size) ==
    /\ phase = "body"
    /\ Deliverable(size)
    /\ wire' = wire + size
    /\ IF size > Limit
       THEN EndWith(PlainError("ResponseTooLarge")) /\ UNCHANGED buffer
       ELSE buffer' = size /\ UNCHANGED <<phase, result>>
    /\ UNCHANGED <<custom, status, declared, broke>>

\* A chunk arrives. It is dropped, with the attempt, if it would take the
\* buffer beyond the limit.
Chunk(size) ==
    /\ phase = "body"
    /\ Deliverable(size)
    /\ wire' = wire + size
    /\ IF buffer + size > Limit
       THEN EndWith(PlainError("ResponseTooLarge")) /\ UNCHANGED buffer
       ELSE buffer' = buffer + size /\ UNCHANGED <<phase, result>>
    /\ UNCHANGED <<custom, status, declared, broke>>

\* The body is complete; only now does the status count.
EndOfBody ==
    /\ phase = "body"
    /\ declared # Unknown => wire = declared
    /\ IF status \in 200..299
       THEN phase' = "returned" /\ UNCHANGED result
       ELSE EndWith(HttpError(status))
    /\ UNCHANGED <<custom, status, declared, wire, buffer, broke>>

\* The body breaks off, or the timeout of the attempt expires while it is read.
BodyFails ==
    /\ phase = "body"
    /\ broke' = TRUE
    /\ \E kind \in {"Body", "Timeout"} : EndWith(TransportError(kind))
    /\ UNCHANGED <<custom, status, declared, wire, buffer>>

-----------------------------------------------------------------------------
(* A transport of the application, and the client *)

\* A transport of the application hands over a body of a 2xx answer, of any
\* size: nothing forces it to observe the limit.
CustomReturns(s, size) ==
    /\ phase = "head"
    /\ custom
    /\ s \in 200..299
    /\ status' = s
    /\ wire' = size
    /\ buffer' = size
    /\ phase' = "returned"
    /\ UNCHANGED <<custom, declared, broke, result>>

CustomFails ==
    /\ phase = "head"
    /\ custom
    /\ \E kind \in TransportErrorKinds : EndWith(TransportError(kind))
    /\ UNCHANGED <<custom, status, declared, wire, buffer, broke>>

\* finish: the size is checked again before the body is parsed.
Finish ==
    /\ phase = "returned"
    /\ EndWith(IF buffer > Limit THEN PlainError("ResponseTooLarge") ELSE NoError)
    /\ UNCHANGED <<custom, status, declared, wire, buffer, broke>>

-----------------------------------------------------------------------------

Reading == \E size \in ChunkSizes : Chunk(size)

Next ==
    \/ FailsBeforeHead
    \/ \E s \in Statuses, length \in Lengths \cup {Unknown} : ResponseHead(s, length)
    \/ Reading \/ EndOfBody \/ BodyFails
    \/ \E s \in Statuses, size \in 0 .. MaxWire : CustomReturns(s, size)
    \/ CustomFails
    \/ Finish

Spec == Init /\ [][Next]_vars

\* A server that sends without end: chunks keep coming, the end of a body of
\* declared length is noticed, and the client goes on with what it was given.
\* No timeout is assumed.
Flood ==
    /\ WF_vars(Reading)
    /\ WF_vars(declared # Unknown /\ EndOfBody)
    /\ WF_vars(Finish)

FloodSpec == Spec /\ Flood

-----------------------------------------------------------------------------
(* Properties *)

TypeOK ==
    /\ custom \in BOOLEAN
    /\ phase \in {"head", "body", "returned", "done"}
    /\ status \in Statuses \cup {0}
    /\ declared \in Lengths \cup {Unknown}
    /\ wire \in 0 .. MaxWire
    /\ buffer \in 0 .. MaxWire
    /\ broke \in BOOLEAN
    /\ result \in Error \cup {NoError}

\* The built-in transport never holds more than the limit of a body, however
\* its chunks are cut and whatever length was declared (transport.rs 126-146).
BufferWithinLimit == ~custom => buffer <= Limit

\* No body beyond the limit is parsed, whichever transport returned it
\* (client.rs 483-487).
ParsedWithinLimit == phase = "done" /\ result = NoError => buffer <= Limit

\* What an answer arrived as.
Arrival ==
    CASE (declared # Unknown /\ declared > Limit) \/ wire > Limit -> "oversized"
      [] broke -> "broken"
      [] OTHER -> "whole"

\* Chunk by chunk, an answer is judged as if it were seen at once, the way
\* GatewayCall judges it: by its size, then its integrity, then its status; a
\* timeout while its body is read is the one thing that may come first
\* (transport.rs 121-152).
JudgedAsAWhole ==
    phase = "done" /\ status # 0 /\ result # TransportError("Timeout")
        => result = ReadOutcome(status, Arrival)

\* Success is never reported on a part of the answer: every unit declared was
\* received and kept (transport.rs 134-151).
NothingMissing ==
    phase = "done" /\ result = NoError /\ declared # Unknown => buffer = declared /\ buffer = wire

\* An endless body cannot hold the call: the limit ends it even if no timeout
\* does (transport.rs 140-146).
EndlessBodiesStop == phase = "body" ~> phase = "done"

=============================================================================
