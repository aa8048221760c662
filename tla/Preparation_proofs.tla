------------------------- MODULE Preparation_proofs -------------------------
(***************************************************************************)
(* Proofs about what an application prepares before it pays: the client it *)
(* builds (ClientSettings, for any texts and quantities it may be given)   *)
(* and the numbers of its orders (OrderNumber, for any width of the counter*)
(* and any modulus up to it, any threads and any clock).                   *)
(***************************************************************************)

EXTENDS OrderNumber, ClientSettings, WellFoundedInduction, TLAPS

\* Every non-empty set of naturals has a least element.
LEMMA LeastNatural ==
    ASSUME NEW S, S # {}, S \subseteq Nat
    PROVE  \E i \in S : \A j \in S : i <= j
<1>1. PICK i \in S : \A j \in S : <<j, i>> \notin OpToRel(<, Nat)
  BY WFMin, NatLessThanWellFounded, Zenon
<1>2. ASSUME NEW j \in S PROVE ~(j < i)
  BY <1>1, Zenon DEF OpToRel
<1>3. QED
  BY <1>2

-----------------------------------------------------------------------------
(* ORDER NUMBERS *)

(***************************************************************************)
(* Remainders.                                                             *)
(***************************************************************************)

LEMMA Division ==
    ASSUME NEW m \in Nat \ {0}, NEW x \in Nat
    PROVE  x % m \in 0 .. m - 1 /\ \E q \in Nat : x = m * q + (x % m)
<1>1. x % m \in 0 .. m - 1 /\ x \div m \in Nat /\ x = m * (x \div m) + (x % m)
  OBVIOUS
<1>2. QED
  BY <1>1

LEMMA BetweenMultiples ==
    ASSUME NEW m \in Nat \ {0}, NEW q \in Int, NEW e \in Int, 0 < e, e < m
    PROVE  e # m * q
<1>1. CASE q <= 0
  <2>1. m * q <= 0
    BY <1>1
  <2>2. QED
    BY <2>1
<1>2. CASE q >= 1
  <2>1. m * q >= m
    BY <1>2
  <2>2. QED
    BY <2>1
<1>3. QED
  BY <1>1, <1>2

\* A distance that is no multiple of the modulus changes the remainder.
LEMMA RemaindersDiffer ==
    ASSUME NEW m \in Nat \ {0}, NEW x \in Nat, NEW y \in Nat, NEW q \in Nat, NEW e \in Nat,
           0 < e, e < m, y = x + (q * m + e)
    PROVE  y % m # x % m
<1> SUFFICES ASSUME y % m = x % m PROVE FALSE
  OBVIOUS
<1>1. PICK r \in Nat : r = x % m
  BY Division
<1>2. PICK xq \in Nat : x = m * xq + r
  BY <1>1, Division
<1>3. PICK yq \in Nat : y = m * yq + r
  <2>1. PICK k \in Nat : y = m * k + (y % m)
    BY Division
  <2>2. QED
    BY <1>1, <2>1
<1>4. e = m * (yq - xq - q)
  <2>1. e = m * yq - m * xq - m * q
    BY <1>2, <1>3
  <2>2. m * (yq - xq - q) = m * yq - m * xq - m * q
    OBVIOUS
  <2>3. QED
    BY <2>1, <2>2
<1>5. yq - xq - q \in Int
  OBVIOUS
<1>6. QED
  BY <1>4, <1>5, BetweenMultiples

\* The last digits of a number tell its sequence value.
LEMMA NumbersTellSequence ==
    ASSUME NEW t \in Nat, NEW u \in Nat, NEW r \in 0 .. Modulus - 1, NEW s \in 0 .. Modulus - 1,
           Number(t, r) = Number(u, s)
    PROVE  r = s
<1>1. Modulus \in Nat \ {0}
  BY WidthAssumption
<1>2. t * Modulus + r = u * Modulus + s
  BY DEF Number
<1>3. Modulus * (t - u) = s - r
  <2>1. Modulus * (t - u) = t * Modulus - u * Modulus
    BY <1>1
  <2>2. t * Modulus - u * Modulus = s - r
    BY <1>1, <1>2
  <2>3. QED
    BY <2>1, <2>2
<1>4. Modulus * (u - t) = r - s
  BY <1>1, <1>3
<1>5. CASE r < s
  BY <1>1, <1>3, <1>5, BetweenMultiples
<1>6. CASE s < r
  BY <1>1, <1>4, <1>6, BetweenMultiples
<1>7. QED
  BY <1>1, <1>5, <1>6

LEMMA SafeDrawsBounds == SafeDraws \in 1 .. Modulus /\ SafeDraws <= Width
<1>1. Modulus \in Nat \ {0} /\ Width \in Nat /\ Modulus <= Width
  BY WidthAssumption
<1>2. Width % Modulus \in 0 .. Modulus - 1
  BY <1>1, Division
<1>3. QED
  BY <1>1, <1>2 DEF SafeDraws

\* What a counter that is c now was the given number of draws ago.
Behind(c, draws) == IF c >= draws THEN c - draws ELSE c + Width - draws

LEMMA BehindRange ==
    ASSUME counter \in 0 .. Width - 1, NEW a \in 1 .. SafeDraws
    PROVE  Behind(counter, a) \in 0 .. Width - 1
BY SafeDrawsBounds, WidthAssumption DEF Behind

\* The values that the sequence had within SafeDraws draws differ, also if the
\* counter has wrapped between them.
LEMMA SequenceDiffers ==
    ASSUME counter \in 0 .. Width - 1,
           NEW a \in 1 .. SafeDraws, NEW b \in 1 .. SafeDraws, b < a
    PROVE  Sequence(Behind(counter, a)) # Sequence(Behind(counter, b))
<1>1. /\ Modulus \in Nat \ {0} /\ Width \in Nat /\ Modulus <= Width
      /\ SafeDraws \in 1 .. Modulus /\ counter \in Nat /\ a \in Nat /\ b \in Nat
  BY WidthAssumption, SafeDrawsBounds
<1>2. Behind(counter, a) \in Nat /\ Behind(counter, b) \in Nat
  BY <1>1, BehindRange
<1>3. a - b \in Nat /\ 0 < a - b /\ a - b < SafeDraws /\ a - b < Modulus
  BY <1>1
<1>4. CASE counter >= a \/ counter < b
  <2>1. Behind(counter, b) = Behind(counter, a) + (0 * Modulus + (a - b))
    BY <1>1, <1>4 DEF Behind
  <2>2. Behind(counter, b) % Modulus # Behind(counter, a) % Modulus
    BY <1>1, <1>2, <1>3, <2>1, RemaindersDiffer
  <2>3. QED
    BY <2>2 DEF Sequence
<1>5. CASE counter < a /\ counter >= b
  <2>1. Behind(counter, a) = Behind(counter, b) + (Width - (a - b))
    BY <1>1, <1>5 DEF Behind
  <2>2. PICK q \in Nat, e \in Nat : 0 < e /\ e < Modulus /\ Width - (a - b) = q * Modulus + e
    <3>1. PICK k \in Nat : Width = Modulus * k + (Width % Modulus)
      BY <1>1, Division
    <3>2. CASE Width % Modulus = 0
      <4>1. Width = Modulus * k
        BY <1>1, <3>1, <3>2
      <4>2. k # 0
        BY <1>1, <4>1
      <4>3. k - 1 \in Nat /\ (k - 1) * Modulus = Modulus * k - Modulus
        BY <1>1, <4>2
      <4>4. Width - (a - b) = (k - 1) * Modulus + (Modulus - (a - b))
        BY <1>1, <4>1, <4>3
      <4>5. Modulus - (a - b) \in Nat /\ 0 < Modulus - (a - b) /\ Modulus - (a - b) < Modulus
        BY <1>1, <1>3
      <4>6. QED
        BY <4>3, <4>4, <4>5
    <3>3. CASE Width % Modulus # 0
      <4>1. SafeDraws = Width % Modulus
        BY <3>3 DEF SafeDraws
      <4>2. SafeDraws < Modulus
        BY <1>1, <4>1, Division
      <4>3. Width - (a - b) = k * Modulus + (SafeDraws - (a - b))
        BY <1>1, <3>1, <4>1
      <4>4. SafeDraws - (a - b) \in Nat /\ 0 < SafeDraws - (a - b) /\ SafeDraws - (a - b) < Modulus
        BY <1>1, <1>3, <4>2
      <4>5. QED
        BY <4>3, <4>4
    <3>4. QED
      BY <3>2, <3>3
  <2>3. Behind(counter, a) % Modulus # Behind(counter, b) % Modulus
    BY <1>1, <1>2, <2>1, <2>2, RemaindersDiffer
  <2>4. QED
    BY <2>3 DEF Sequence
<1>6. QED
  BY <1>1, <1>4, <1>5

(***************************************************************************)
(* The inductive invariant: the numbers kept are those of the last draws.  *)
(***************************************************************************)

Made(k) == \E time \in Nat : recent[k] = Number(time, Sequence(Behind(counter, Len(recent) + 1 - k)))

NumbersAreMade == NumberTypeOK /\ \A k \in DOMAIN recent : Made(k)

\* The numbers made from different values of the sequence differ.
LEMMA MadeDiffer == NumbersAreMade => RecentDiffer
<1> SUFFICES ASSUME NumbersAreMade, NEW i \in DOMAIN recent, NEW j \in DOMAIN recent, i # j,
                    recent[i] = recent[j]
             PROVE  FALSE
  BY DEF RecentDiffer
<1>1. /\ recent \in Seq(Nat) /\ Len(recent) \in Nat /\ DOMAIN recent = 1 .. Len(recent)
      /\ Len(recent) <= SafeDraws /\ counter \in 0 .. Width - 1
  BY DEF NumbersAreMade, NumberTypeOK
<1> DEFINE a == Len(recent) + 1 - i
           b == Len(recent) + 1 - j
<1>2. a \in 1 .. SafeDraws /\ b \in 1 .. SafeDraws /\ a # b
  BY <1>1, SafeDrawsBounds
<1>3. PICK t \in Nat : recent[i] = Number(t, Sequence(Behind(counter, a)))
  BY DEF NumbersAreMade, Made
<1>4. PICK u \in Nat : recent[j] = Number(u, Sequence(Behind(counter, b)))
  BY DEF NumbersAreMade, Made
<1> HIDE DEF a, b
<1>5. Sequence(Behind(counter, a)) \in 0 .. Modulus - 1 /\ Sequence(Behind(counter, b)) \in 0 .. Modulus - 1
  <2>1. Behind(counter, a) \in Nat /\ Behind(counter, b) \in Nat
    BY <1>1, <1>2, BehindRange, WidthAssumption
  <2>2. QED
    BY <2>1, WidthAssumption, Division DEF Sequence
<1>6. Sequence(Behind(counter, a)) = Sequence(Behind(counter, b))
  BY <1>3, <1>4, <1>5, NumbersTellSequence
<1>7. a < b \/ b < a
  BY <1>2, SafeDrawsBounds
<1>8. QED
  BY <1>1, <1>2, <1>6, <1>7, SequenceDiffers

LEMMA InitNumbers == NumberInit => NumbersAreMade
<1> SUFFICES ASSUME NumberInit PROVE NumbersAreMade
  OBVIOUS
<1>1. 0 \in 0 .. Width - 1 /\ 0 <= SafeDraws
  BY WidthAssumption, SafeDrawsBounds
<1>2. recent = <<>> /\ recent \in Seq(Nat) /\ Len(recent) = 0 /\ DOMAIN recent = {}
  BY DEF NumberInit
<1>3. QED
  BY <1>1, <1>2 DEF NumberInit, NumbersAreMade, NumberTypeOK

\* A draw makes every earlier one a draw older.
LEMMA DrawAges ==
    ASSUME counter \in 0 .. Width - 1, counter' = Successor, NEW d \in 0 .. Width - 1
    PROVE  /\ counter' \in 0 .. Width - 1
           /\ Behind(counter', d + 1) = Behind(counter, d)
           /\ Behind(counter', 1) = counter
BY WidthAssumption DEF Behind, Successor

LEMMA DrawStep ==
    ASSUME NumbersAreMade, NEW t \in Threads, NEW prefix, Draw(t, prefix)
    PROVE  NumbersAreMade'
<1> DEFINE new == Number(nanos[t], Sequence(counter))
           longer == Append(recent, new)
<1>1. /\ recent \in Seq(Nat) /\ Len(recent) \in Nat /\ DOMAIN recent = 1 .. Len(recent)
      /\ Len(recent) <= SafeDraws
      /\ counter \in 0 .. Width - 1 /\ counter' = Successor /\ recent' = Latest(longer)
  BY DEF NumbersAreMade, NumberTypeOK, Draw
<1>2. Modulus \in Nat \ {0} /\ Width \in Nat /\ SafeDraws \in Nat /\ SafeDraws <= Width
  BY WidthAssumption, SafeDrawsBounds
<1>3. nanos[t] \in Nat
  BY ClockAssumption DEF NumbersAreMade, NumberTypeOK, Draw
<1>4. new \in Nat
  <2>1. Sequence(counter) \in Nat
    BY <1>1, <1>2, Division DEF Sequence
  <2>2. nanos[t] * Modulus \in Nat
    BY <1>2, <1>3
  <2>3. QED
    BY <2>1, <2>2 DEF Number
<1>5. Behind(counter', 1) = counter /\ \A d \in 0 .. Width - 1 : Behind(counter', d + 1) = Behind(counter, d)
  BY <1>1, DrawAges
<1> HIDE DEF new
<1>6. /\ longer \in Seq(Nat) /\ Len(longer) = Len(recent) + 1
      /\ longer[Len(recent) + 1] = new
      /\ \A k \in 1 .. Len(recent) : longer[k] = recent[k]
  BY <1>1, <1>4
<1> HIDE DEF longer
<1>7. \A k \in 1 .. Len(longer) :
         Len(longer) + 1 - k <= SafeDraws =>
         \E time \in Nat : longer[k] = Number(time, Sequence(Behind(counter', Len(longer) + 1 - k)))
  <2> SUFFICES ASSUME NEW k \in 1 .. Len(longer), Len(longer) + 1 - k <= SafeDraws
               PROVE  \E time \in Nat : longer[k] = Number(time, Sequence(Behind(counter', Len(longer) + 1 - k)))
    OBVIOUS
  <2>1. CASE k = Len(longer)
    <3>1. Len(longer) + 1 - k = 1
      BY <1>1, <1>6, <2>1
    <3>2. longer[k] = new
      BY <1>6, <2>1
    <3>3. QED
      BY <1>3, <1>5, <3>1, <3>2 DEF new
  <2>2. CASE k # Len(longer)
    <3>1. k \in DOMAIN recent /\ longer[k] = recent[k]
      BY <1>1, <1>6, <2>2
    <3>2. PICK time \in Nat : recent[k] = Number(time, Sequence(Behind(counter, Len(recent) + 1 - k)))
      BY <3>1 DEF NumbersAreMade, Made
    <3>3. Len(recent) + 1 - k \in 0 .. Width - 1
      <4>1. k \in 1 .. Len(recent) /\ Len(recent) + 1 - k < SafeDraws
        BY <1>1, <1>2, <1>6, <3>1
      <4>2. QED
        BY <1>1, <1>2, <4>1
    <3>4. Behind(counter', (Len(recent) + 1 - k) + 1) = Behind(counter, Len(recent) + 1 - k)
      BY <1>5, <3>3
    <3>5. (Len(recent) + 1 - k) + 1 = Len(longer) + 1 - k
      BY <1>1, <1>6
    <3>6. QED
      BY <3>1, <3>2, <3>4, <3>5
  <2>3. QED
    BY <2>1, <2>2
<1>8. /\ recent' \in Seq(Nat) /\ Len(recent') <= SafeDraws
      /\ \A k \in DOMAIN recent' :
            \E time \in Nat : recent'[k] = Number(time, Sequence(Behind(counter', Len(recent') + 1 - k)))
  <2>1. CASE Len(longer) > SafeDraws
    <3>1. recent' = Tail(longer) /\ Len(longer) = SafeDraws + 1 /\ longer # <<>>
      BY <1>1, <1>2, <1>6, <2>1 DEF Latest
    <3>2. /\ Tail(longer) \in Seq(Nat) /\ Len(Tail(longer)) = Len(longer) - 1
          /\ \A k \in 1 .. Len(longer) - 1 : Tail(longer)[k] = longer[k + 1]
      BY <1>1, <1>6, <3>1
    <3>3. DOMAIN recent' = 1 .. Len(longer) - 1
      BY <3>1, <3>2
    <3>4. ASSUME NEW k \in 1 .. Len(longer) - 1
          PROVE  \E time \in Nat : recent'[k] = Number(time, Sequence(Behind(counter', Len(recent') + 1 - k)))
      <4>1. k + 1 \in 1 .. Len(longer) /\ Len(longer) + 1 - (k + 1) = Len(recent') + 1 - k
        BY <1>1, <1>6, <3>1, <3>2
      <4>2. recent'[k] = longer[k + 1]
        BY <3>1, <3>2
      <4>3. Len(longer) + 1 - (k + 1) <= SafeDraws
        BY <1>1, <1>2, <1>6, <3>1
      <4>4. QED
        BY <1>7, <4>1, <4>2, <4>3
    <3>5. recent' \in Seq(Nat) /\ Len(recent') <= SafeDraws
      BY <1>2, <3>1, <3>2
    <3>6. QED
      BY <3>3, <3>4, <3>5
  <2>2. CASE ~(Len(longer) > SafeDraws)
    <3>1. recent' = longer /\ Len(longer) <= SafeDraws
      BY <1>1, <1>2, <1>6, <2>2 DEF Latest
    <3>2. DOMAIN longer = 1 .. Len(longer) /\ Len(longer) \in Nat
      BY <1>6
    <3>3. \A k \in 1 .. Len(longer) : Len(longer) + 1 - k <= SafeDraws
      BY <1>2, <3>1, <3>2
    <3>4. QED
      BY <1>6, <1>7, <3>1, <3>2, <3>3
  <2>3. QED
    BY <2>1, <2>2
<1>9. NumberTypeOK'
  <2>1. counter' \in 0 .. Width - 1
    BY <1>1, <1>2, DrawAges
  <2>2. QED
    BY <1>8, <2>1 DEF NumbersAreMade, NumberTypeOK, Draw
<1>10. QED
  BY <1>8, <1>9 DEF NumbersAreMade, Made

LEMMA NextNumbers == NumbersAreMade /\ [NumberNext]_numberVars => NumbersAreMade'
<1> SUFFICES ASSUME NumbersAreMade, [NumberNext]_numberVars PROVE NumbersAreMade'
  OBVIOUS
<1>1. ASSUME NEW time \in -1 .. MaxClock, SetClock(time) PROVE NumbersAreMade'
  BY <1>1 DEF SetClock, NumbersAreMade, NumberTypeOK, Made, Behind
<1>2. ASSUME NEW t \in Threads, ReadClock(t) PROVE NumbersAreMade'
  <2>1. clock >= 0 => clock \in 0 .. MaxClock
    BY ClockAssumption DEF NumbersAreMade, NumberTypeOK
  <2>2. clock \in Int
    BY ClockAssumption DEF NumbersAreMade, NumberTypeOK
  <2>3. UNCHANGED <<clock, counter, recent>>
    BY <1>2 DEF ReadClock
  <2>4. NumberTypeOK'
    BY <1>2, <2>1, <2>2, <2>3 DEF ReadClock, NumbersAreMade, NumberTypeOK
  <2>5. QED
    BY <2>3, <2>4 DEF NumbersAreMade, Made, Behind
<1>3. ASSUME NEW t \in Threads, NEW prefix \in DOMAIN Prefixes, Draw(t, prefix) PROVE NumbersAreMade'
  BY <1>3, DrawStep
<1>4. CASE UNCHANGED numberVars
  BY <1>4 DEF numberVars, NumbersAreMade, NumberTypeOK, Made, Behind
<1>5. QED
  BY <1>1, <1>2, <1>3, <1>4 DEF NumberNext

LEMMA NumbersInvariant == NumberSpec => []NumbersAreMade
BY InitNumbers, NextNumbers, PTL DEF NumberSpec

\* The variables keep their types; the counter never leaves its integer type.
THEOREM NumbersTypeCorrect == NumberSpec => []NumberTypeOK
<1>1. NumbersAreMade => NumberTypeOK
  BY DEF NumbersAreMade
<1>2. QED
  BY <1>1, NumbersInvariant, PTL

\* Any SafeDraws successive order numbers differ, for every width of the counter
\* and every modulus up to it, whatever the clock does and whichever threads
\* drew them (order.rs 238-253).
THEOREM NumbersDiffer == NumberSpec => []RecentDiffer
BY NumbersInvariant, MadeDiffer, PTL

-----------------------------------------------------------------------------
(* CLIENT SETTINGS *)

(***************************************************************************)
(* Lists of checks: the first error is "none" if and only if all pass.     *)
(***************************************************************************)

\* What the checks are about, without their order.
Passes(checks) == \A i \in DOMAIN checks : ~checks[i].fails

CheckErrors ==
    {"timeout", "max_response_body_bytes", "connect_timeout", "connect_timeout of a supplied client",
     "INVALID_PID", "INVALID_KEY", "INVALID_API_URL", "INSECURE_API_URL",
     "INVALID_NOTIFY_URL", "INSECURE_NOTIFY_URL", "INVALID_RETURN_URL", "INSECURE_RETURN_URL",
     "CALLBACK_URL_TOO_LONG", "MISSING_NOTIFY_URL"}

OneOfChecks == [fails : BOOLEAN, error : CheckErrors]

Checks == Seq(OneOfChecks)

\* The first error is "none" if and only if no check fails.
LEMMA FirstErrorIsNone ==
    ASSUME NEW checks \in Checks
    PROVE  FirstError(checks) = "none" <=> Passes(checks)
<1> DEFINE failing == {i \in DOMAIN checks : checks[i].fails}
<1>1. DOMAIN checks = 1 .. Len(checks) /\ Len(checks) \in Nat
  BY DEF Checks
<1>2. \A i \in DOMAIN checks : checks[i].fails \in BOOLEAN /\ checks[i].error \in CheckErrors
  <2>1. \A i \in DOMAIN checks : checks[i] \in OneOfChecks
    BY <1>1 DEF Checks
  <2>2. QED
    BY <2>1 DEF OneOfChecks
<1>3. CASE failing = {}
  <2>1. FirstError(checks) = "none"
    BY <1>3 DEF FirstError
  <2>2. Passes(checks)
    BY <1>3 DEF Passes
  <2>3. QED
    BY <2>1, <2>2
<1>4. CASE failing # {}
  <2>1. failing \subseteq Nat
    BY <1>1
  <2>2. Min(failing) \in failing
    BY <1>4, <2>1, LeastNatural DEF Min
  <2>3. FirstError(checks) = checks[Min(failing)].error
    BY <1>4 DEF FirstError
  <2>4. "none" \notin CheckErrors
    BY DEF CheckErrors
  <2>5. QED
    BY <1>2, <2>2, <2>3, <2>4 DEF Passes
<1>5. QED
  BY <1>3, <1>4

LEMMA JoinedChecks ==
    ASSUME NEW c \in Checks, NEW d \in Checks
    PROVE  /\ c \o d \in Checks
           /\ Passes(c \o d) <=> Passes(c) /\ Passes(d)
<1>1. /\ c \o d \in Checks
      /\ DOMAIN c = 1 .. Len(c) /\ DOMAIN d = 1 .. Len(d) /\ DOMAIN (c \o d) = 1 .. Len(c) + Len(d)
      /\ Len(c) \in Nat /\ Len(d) \in Nat
      /\ \A i \in 1 .. Len(c) + Len(d) : (c \o d)[i] = IF i <= Len(c) THEN c[i] ELSE d[i - Len(c)]
  BY DEF Checks
<1>2. ASSUME Passes(c \o d) PROVE Passes(c) /\ Passes(d)
  <2>1. \A i \in 1 .. Len(c) : (c \o d)[i] = c[i]
    BY <1>1
  <2>2. \A i \in 1 .. Len(d) : Len(c) + i \in DOMAIN (c \o d) /\ (c \o d)[Len(c) + i] = d[i]
    BY <1>1
  <2>3. \A i \in 1 .. Len(c) : ~c[i].fails
    BY <1>1, <1>2, <2>1 DEF Passes
  <2>4. \A i \in 1 .. Len(d) : ~d[i].fails
    BY <1>1, <1>2, <2>2 DEF Passes
  <2>5. QED
    BY <1>1, <2>3, <2>4 DEF Passes
<1>3. ASSUME Passes(c), Passes(d) PROVE Passes(c \o d)
  BY <1>1, <1>3 DEF Passes
<1>4. QED
  BY <1>1, <1>2, <1>3

LEMMA OneCheck ==
    ASSUME NEW b1 \in BOOLEAN, NEW e1 \in CheckErrors
    PROVE  LET c == <<Check(b1, e1)>> IN c \in Checks /\ (Passes(c) <=> ~b1)
BY DEF Checks, OneOfChecks, Check, Passes

LEMMA TwoChecks ==
    ASSUME NEW b1 \in BOOLEAN, NEW e1 \in CheckErrors, NEW b2 \in BOOLEAN, NEW e2 \in CheckErrors
    PROVE  LET c == <<Check(b1, e1), Check(b2, e2)>>
           IN  c \in Checks /\ (Passes(c) <=> ~b1 /\ ~b2)
BY DEF Checks, OneOfChecks, Check, Passes

LEMMA ThreeChecks ==
    ASSUME NEW b1 \in BOOLEAN, NEW e1 \in CheckErrors, NEW b2 \in BOOLEAN, NEW e2 \in CheckErrors,
           NEW b3 \in BOOLEAN, NEW e3 \in CheckErrors
    PROVE  LET c == <<Check(b1, e1), Check(b2, e2), Check(b3, e3)>>
           IN  c \in Checks /\ (Passes(c) <=> ~b1 /\ ~b2 /\ ~b3)
BY DEF Checks, OneOfChecks, Check, Passes

\* What build checks and what it comes to.
LEMMA NamesOfErrors ==
    /\ "timeout" \in CheckErrors /\ "max_response_body_bytes" \in CheckErrors
    /\ "connect_timeout" \in CheckErrors /\ "connect_timeout of a supplied client" \in CheckErrors
    /\ "INVALID_PID" \in CheckErrors /\ "INVALID_KEY" \in CheckErrors
    /\ "INVALID_API_URL" \in CheckErrors /\ "INSECURE_API_URL" \in CheckErrors
    /\ "INVALID_NOTIFY_URL" \in CheckErrors /\ "INSECURE_NOTIFY_URL" \in CheckErrors
    /\ "INVALID_RETURN_URL" \in CheckErrors /\ "INSECURE_RETURN_URL" \in CheckErrors
    /\ "CALLBACK_URL_TOO_LONG" \in CheckErrors /\ "MISSING_NOTIFY_URL" \in CheckErrors
BY DEF CheckErrors

LEMMA HttpChecksFail ==
    ASSUME NEW s
    PROVE  /\ HttpChecks(s) \in Checks
           /\ Passes(HttpChecks(s)) <=>
                  /\ s.timeout # "zero" /\ s.max_response_body_bytes # "zero" /\ s.connect_timeout # "zero"
<1>1. PICK b1 \in BOOLEAN, b2 \in BOOLEAN, b3 \in BOOLEAN :
           /\ b1 <=> s.timeout = "zero"
           /\ b2 <=> s.max_response_body_bytes = "zero"
           /\ b3 <=> s.connect_timeout = "zero"
  OBVIOUS
<1> DEFINE c == <<Check(b1, "timeout"), Check(b2, "max_response_body_bytes"), Check(b3, "connect_timeout")>>
<1>2. HttpChecks(s) = c
  BY <1>1, Zenon DEF HttpChecks
<1>3. c \in Checks /\ (Passes(c) <=> ~b1 /\ ~b2 /\ ~b3)
  <2>1. "timeout" \in CheckErrors /\ "max_response_body_bytes" \in CheckErrors /\ "connect_timeout" \in CheckErrors
    BY NamesOfErrors
  <2>2. QED
    BY <2>1, ThreeChecks, ZenonT(60)
<1> HIDE DEF c
<1>4. QED
  BY <1>1, <1>2, <1>3

LEMMA DefaultChecksFail ==
    ASSUME NEW url, NEW allow, NEW e1 \in CheckErrors, NEW e2 \in CheckErrors
    PROVE  LET c == DefaultChecks(url, allow, e1, e2)
           IN  /\ c \in Checks
               /\ Passes(c) <=> (url = "unset" \/ WellFormed(url)) /\ ~Insecure(url, allow)
BY TwoChecks DEF DefaultChecks, WellFormed, Insecure

ConfigFits(s) ==
    /\ s.pid # "zero" /\ s.key # "empty"
    /\ s.api_base_url # "malformed" /\ ~Insecure(s.api_base_url, s.allow_insecure_http)
    /\ s.notify_url = "unset" \/ WellFormed(s.notify_url)
    /\ ~Insecure(s.notify_url, s.allow_insecure_callback_http)
    /\ s.return_url = "unset" \/ WellFormed(s.return_url)
    /\ ~Insecure(s.return_url, s.allow_insecure_callback_http)

LEMMA ConfigChecksFail ==
    ASSUME NEW s
    PROVE  /\ ConfigChecks(s) \in Checks
           /\ Passes(ConfigChecks(s)) <=> ConfigFits(s)
<1> DEFINE c1 == <<Check(s.pid = "zero", "INVALID_PID"), Check(s.key = "empty", "INVALID_KEY")>>
           c2 == GatewayChecks(s)
           c3 == DefaultChecks(s.notify_url, s.allow_insecure_callback_http, "INVALID_NOTIFY_URL", "INSECURE_NOTIFY_URL")
           c4 == DefaultChecks(s.return_url, s.allow_insecure_callback_http, "INVALID_RETURN_URL", "INSECURE_RETURN_URL")
<1>1. c1 \in Checks /\ (Passes(c1) <=> s.pid # "zero" /\ s.key # "empty")
  <2>1. (s.pid = "zero") \in BOOLEAN /\ (s.key = "empty") \in BOOLEAN
    OBVIOUS
  <2>2. QED
    BY <2>1, NamesOfErrors, TwoChecks, Zenon
<1>2. /\ c2 \in Checks
      /\ Passes(c2) <=> s.api_base_url # "malformed" /\ ~Insecure(s.api_base_url, s.allow_insecure_http)
  <2>1. /\ (s.api_base_url = "malformed") \in BOOLEAN
        /\ Insecure(s.api_base_url, s.allow_insecure_http) \in BOOLEAN
    BY DEF Insecure
  <2>2. QED
    BY <2>1, NamesOfErrors, TwoChecks, Zenon DEF GatewayChecks
<1>3. /\ c3 \in Checks
      /\ Passes(c3) <=> /\ s.notify_url = "unset" \/ WellFormed(s.notify_url)
                        /\ ~Insecure(s.notify_url, s.allow_insecure_callback_http)
  BY NamesOfErrors, DefaultChecksFail, Zenon
<1>4. /\ c4 \in Checks
      /\ Passes(c4) <=> /\ s.return_url = "unset" \/ WellFormed(s.return_url)
                        /\ ~Insecure(s.return_url, s.allow_insecure_callback_http)
  BY NamesOfErrors, DefaultChecksFail, Zenon
<1>5. ConfigChecks(s) = ((c1 \o c2) \o c3) \o c4
  BY DEF ConfigChecks
<1> HIDE DEF c1, c2, c3, c4
<1>6. c1 \o c2 \in Checks /\ (Passes(c1 \o c2) <=> Passes(c1) /\ Passes(c2))
  BY <1>1, <1>2, JoinedChecks
<1>7. /\ (c1 \o c2) \o c3 \in Checks
      /\ Passes((c1 \o c2) \o c3) <=> Passes(c1 \o c2) /\ Passes(c3)
  BY <1>3, <1>6, JoinedChecks
<1>8. /\ ConfigChecks(s) \in Checks
      /\ Passes(ConfigChecks(s)) <=> Passes((c1 \o c2) \o c3) /\ Passes(c4)
  BY <1>4, <1>5, <1>7, JoinedChecks
<1>9. QED
  BY <1>1, <1>2, <1>3, <1>4, <1>6, <1>7, <1>8 DEF ConfigFits

BuildFits(s) ==
    /\ ~Unappliable(s)
    /\ s.timeout # "zero" /\ s.max_response_body_bytes # "zero" /\ s.connect_timeout # "zero"
    /\ ConfigFits(s)

\* build makes a client of exactly the settings that fit together.
LEMMA BuildAcceptsWhatFits ==
    ASSUME NEW s
    PROVE  FirstError(BuildChecks(s)) = "none" <=> BuildFits(s)
<1> DEFINE c1 == <<Check(Unappliable(s), "connect_timeout of a supplied client")>>
           c2 == HttpChecks(s)
           c3 == ConfigChecks(s)
<1>1. c1 \in Checks /\ (Passes(c1) <=> ~Unappliable(s))
  BY OneCheck DEF CheckErrors, Unappliable
<1>2. BuildChecks(s) = (c1 \o c2) \o c3
  BY DEF BuildChecks
<1> HIDE DEF c1
<1>3. c1 \o c2 \in Checks /\ (Passes(c1 \o c2) <=> Passes(c1) /\ Passes(c2))
  BY <1>1, HttpChecksFail, JoinedChecks
<1>4. /\ BuildChecks(s) \in Checks
      /\ Passes(BuildChecks(s)) <=> Passes(c1 \o c2) /\ Passes(c3)
  BY <1>2, <1>3, ConfigChecksFail, JoinedChecks
<1>5. Passes(BuildChecks(s)) <=> BuildFits(s)
  BY <1>1, <1>3, <1>4, HttpChecksFail, ConfigChecksFail DEF BuildFits
<1>6. QED
  BY <1>4, <1>5, FirstErrorIsNone

\* What payments check and what it comes to.
LEMMA OverrideChecksFail ==
    ASSUME NEW url, NEW e \in CheckErrors
    PROVE  /\ OverrideChecks(url, e) \in Checks
           /\ Passes(OverrideChecks(url, e)) <=> url # "long" /\ (url \in NoOverride \/ WellFormed(url))
<1>1. (url = "long") \in BOOLEAN /\ (url \notin NoOverride /\ ~WellFormed(url)) \in BOOLEAN
  BY DEF WellFormed
<1>2. QED
  BY <1>1, NamesOfErrors, TwoChecks, Zenon DEF OverrideChecks

LEMMA ResolvedChecksFail ==
    ASSUME NEW url, NEW e1 \in CheckErrors, NEW e2 \in CheckErrors
    PROVE  /\ ResolvedChecks(url, e1, e2) \in Checks
           /\ Passes(ResolvedChecks(url, e1, e2)) <=>
                  /\ url # "long" /\ (url = "unset" \/ WellFormed(url))
                  /\ ~Insecure(url, client.allow_insecure_callback_http)
<1>1. /\ (url = "long") \in BOOLEAN /\ (url # "unset" /\ ~WellFormed(url)) \in BOOLEAN
      /\ Insecure(url, client.allow_insecure_callback_http) \in BOOLEAN
  BY DEF WellFormed, Insecure
<1>2. PICK b1 \in BOOLEAN, b2 \in BOOLEAN, b3 \in BOOLEAN :
           /\ b1 = (url = "long")
           /\ b2 = (url # "unset" /\ ~WellFormed(url))
           /\ b3 = Insecure(url, client.allow_insecure_callback_http)
  BY <1>1, Zenon
<1> DEFINE c == <<Check(b1, "CALLBACK_URL_TOO_LONG"), Check(b2, e1), Check(b3, e2)>>
<1>3. ResolvedChecks(url, e1, e2) = c
  BY <1>2, Zenon DEF ResolvedChecks
<1>4. c \in Checks /\ (Passes(c) <=> ~b1 /\ ~b2 /\ ~b3)
  <2>1. "CALLBACK_URL_TOO_LONG" \in CheckErrors
    BY NamesOfErrors
  <2>2. QED
    BY <2>1, ThreeChecks, ZenonT(60)
<1> HIDE DEF c
<1>5. QED
  BY <1>1, <1>2, <1>3, <1>4

\* What is sent, if the payment brings the one URL and the client has the other.
Notify(override) == FirstNonBlank(override, client.notify_url)
Return(override) == FirstNonBlank(override, client.return_url)

PayChecks(n, r) ==
    OverrideChecks(n, "INVALID_NOTIFY_URL")
    \o OverrideChecks(r, "INVALID_RETURN_URL")
    \o <<Check(Notify(n) = "unset", "MISSING_NOTIFY_URL")>>
    \o ResolvedChecks(Notify(n), "INVALID_NOTIFY_URL", "INSECURE_NOTIFY_URL")
    \o ResolvedChecks(Return(r), "INVALID_RETURN_URL", "INSECURE_RETURN_URL")

OverrideFits(url) == url # "long" /\ (url \in NoOverride \/ WellFormed(url))

ResolvedFits(url) ==
    url # "long" /\ (url = "unset" \/ WellFormed(url)) /\ ~Insecure(url, client.allow_insecure_callback_http)

\* A payment is sent exactly when each of its callback URLs fits.
LEMMA PayAcceptsWhatFits ==
    ASSUME NEW n, NEW r
    PROVE  FirstError(PayChecks(n, r)) = "none" <=>
               /\ OverrideFits(n) /\ OverrideFits(r)
               /\ Notify(n) # "unset" /\ ResolvedFits(Notify(n)) /\ ResolvedFits(Return(r))
<1> DEFINE c1 == OverrideChecks(n, "INVALID_NOTIFY_URL")
           c2 == OverrideChecks(r, "INVALID_RETURN_URL")
           c3 == <<Check(Notify(n) = "unset", "MISSING_NOTIFY_URL")>>
           c4 == ResolvedChecks(Notify(n), "INVALID_NOTIFY_URL", "INSECURE_NOTIFY_URL")
           c5 == ResolvedChecks(Return(r), "INVALID_RETURN_URL", "INSECURE_RETURN_URL")
<1>1. c1 \in Checks /\ (Passes(c1) <=> OverrideFits(n))
  BY NamesOfErrors, OverrideChecksFail, Zenon DEF OverrideFits
<1>2. c2 \in Checks /\ (Passes(c2) <=> OverrideFits(r))
  BY NamesOfErrors, OverrideChecksFail, Zenon DEF OverrideFits
<1>3. c3 \in Checks /\ (Passes(c3) <=> ~(Notify(n) = "unset"))
  <2>1. (Notify(n) = "unset") \in BOOLEAN
    OBVIOUS
  <2>2. QED
    BY <2>1, NamesOfErrors, OneCheck, Zenon
<1>4. c4 \in Checks /\ (Passes(c4) <=> ResolvedFits(Notify(n)))
  BY NamesOfErrors, ResolvedChecksFail, Zenon DEF ResolvedFits
<1>5. c5 \in Checks /\ (Passes(c5) <=> ResolvedFits(Return(r)))
  BY NamesOfErrors, ResolvedChecksFail, Zenon DEF ResolvedFits
<1>6. PayChecks(n, r) = (((c1 \o c2) \o c3) \o c4) \o c5
  BY Zenon DEF PayChecks
<1> HIDE DEF c1, c2, c3, c4, c5
<1>7. c1 \o c2 \in Checks /\ (Passes(c1 \o c2) <=> Passes(c1) /\ Passes(c2))
  BY <1>1, <1>2, JoinedChecks
<1>8. (c1 \o c2) \o c3 \in Checks /\ (Passes((c1 \o c2) \o c3) <=> Passes(c1 \o c2) /\ Passes(c3))
  BY <1>3, <1>7, JoinedChecks
<1>9. /\ ((c1 \o c2) \o c3) \o c4 \in Checks
      /\ Passes(((c1 \o c2) \o c3) \o c4) <=> Passes((c1 \o c2) \o c3) /\ Passes(c4)
  BY <1>4, <1>8, JoinedChecks
<1>10. /\ PayChecks(n, r) \in Checks
       /\ Passes(PayChecks(n, r)) <=> Passes(((c1 \o c2) \o c3) \o c4) /\ Passes(c5)
  BY <1>5, <1>6, <1>9, JoinedChecks
<1>11. FirstError(PayChecks(n, r)) = "none" <=> Passes(PayChecks(n, r))
  BY <1>10, FirstErrorIsNone
<1>12. QED
  BY <1>1, <1>2, <1>3, <1>4, <1>5, <1>7, <1>8, <1>9, <1>10, <1>11, Zenon

\* A payment in terms of what its URLs have to be.
LEMMA PayStep ==
    ASSUME NEW n, NEW r, Pay(n, r)
    PROVE  /\ stage = "built"
           /\ request' = [overrides |-> <<n, r>>, error |-> FirstError(PayChecks(n, r)),
                          notify_url |-> Notify(n), return_url |-> Return(r)]
           /\ UNCHANGED <<stage, position, settings, asked, refusal, client>>
BY Zenon DEF Pay, PayChecks, Notify, Return

(***************************************************************************)
(* The inductive invariant of ClientSettings: until it is refused the      *)
(* builder holds exactly what was asked of it, and nothing about variables *)
(* whose turn has not come; a client is made of settings that fit.         *)
(***************************************************************************)
UntoldYet ==
    /\ stage = "start" => position = 1 /\ settings = Defaults /\ asked = Defaults
    /\ stage = "reading" =>
           /\ position <= Len(EnvVariables)
           /\ position <= 1 => asked.pid = "unset"
           /\ position <= 2 => asked.key = "unset"
           /\ position <= 3 => asked.api_base_url = "unset"

KeptAsAsked == stage # "refused" => settings = asked

MadeOfWhatFits == stage = "built" => client = ClientOf(settings) /\ BuildFits(settings)

SettingsInv ==
    /\ TypeOK
    /\ UntoldYet /\ KeptAsAsked /\ MadeOfWhatFits
    /\ RefusedForAReason /\ CallbacksFollowPolicy /\ FitPaymentsAreSent

\* The fields, one by one.
LEMMA FieldsListed ==
    Fields = {"pid", "key", "api_base_url", "notify_url", "return_url", "allow_insecure_http",
              "allow_insecure_callback_http", "timeout", "connect_timeout", "max_response_body_bytes",
              "transport", "reqwest_client"}
BY DEF Fields, Values

LEMMA ValuesListed ==
    /\ Values["pid"] = {"zero", "valid"} /\ Values["key"] = {"empty", "valid"}
    /\ Values["api_base_url"] = {"https", "http", "malformed"}
    /\ Values["notify_url"] = CallbackTexts /\ Values["return_url"] = CallbackTexts
    /\ Values["allow_insecure_http"] = {"yes", "no"}
    /\ Values["allow_insecure_callback_http"] = {"yes", "no"}
    /\ Values["timeout"] = Quantities /\ Values["connect_timeout"] = Quantities
    /\ Values["max_response_body_bytes"] = Quantities
    /\ Values["transport"] = {"custom"} /\ Values["reqwest_client"] = {"supplied"}
BY DEF Values

LEMMA DefaultsListed ==
    /\ DOMAIN Defaults = Fields
    /\ Defaults["allow_insecure_http"] = "no" /\ Defaults["allow_insecure_callback_http"] = "no"
    /\ Defaults["timeout"] = "default" /\ Defaults["max_response_body_bytes"] = "default"
    /\ \A f \in {"pid", "key", "api_base_url", "notify_url", "return_url", "connect_timeout",
                 "transport", "reqwest_client"} : Defaults[f] = "unset"
BY FieldsListed DEF Defaults

\* No text of a variable that says nothing is one of its values.
LEMMA ReadingsDiffer ==
    \A f \in Fields : Values[f] \cap {"absent", "notUnicode", "unparsable", "unusable", "unset"} = {}
<1>1. CallbackTexts \cap {"absent", "notUnicode", "unparsable", "unusable", "unset"} = {}
  BY TextsAssumption DEF Urls
<1>2. Quantities \cap {"absent", "notUnicode", "unparsable", "unusable", "unset"} = {}
  BY QuantitiesAssumption
<1>3. QED
  BY <1>1, <1>2, FieldsListed, ValuesListed

LEMMA VariablesListed ==
    /\ Len(EnvVariables) = 10
    /\ \A p \in 1 .. 10 :
           /\ EnvVariables[p].field \in Fields
           /\ EnvVariables[p].reader \in {"required", "optional", "typed"}
           /\ EnvVariables[p].reader = "required" <=> p <= 3
           /\ p > 3 => EnvVariables[p].field \notin Identity
    /\ EnvVariables[1].field = "pid" /\ EnvVariables[2].field = "key"
    /\ EnvVariables[3].field = "api_base_url"
<1>1. \A p \in 1 .. 10 : \/ p = 1 \/ p = 2 \/ p = 3 \/ p = 4 \/ p = 5
                         \/ p = 6 \/ p = 7 \/ p = 8 \/ p = 9 \/ p = 10
  OBVIOUS
<1>2. QED
  BY <1>1, FieldsListed DEF EnvVariables, Identity

\* Nothing has been asked of a client that there is not.
LEMMA NoRequestYet == request = NoRequest => CallbacksFollowPolicy /\ FitPaymentsAreSent
<1> SUFFICES ASSUME request = NoRequest PROVE CallbacksFollowPolicy /\ FitPaymentsAreSent
  OBVIOUS
<1>1. request.error = "no request"
  BY DEF NoRequest
<1>2. QED
  BY <1>1 DEF CallbacksFollowPolicy, FitPaymentsAreSent

LEMMA InitSettings == Init => SettingsInv
<1> SUFFICES ASSUME Init PROVE SettingsInv
  OBVIOUS
<1>1. TypeOK
  BY FieldsListed, DefaultsListed, VariablesListed DEF Init, TypeOK, NoClient
<1>2. QED
  BY <1>1, NoRequestYet
     DEF Init, SettingsInv, UntoldYet, KeptAsAsked, MadeOfWhatFits, RefusedForAReason

LEMMA NewStep ==
    ASSUME SettingsInv, NEW pid \in Values.pid, NEW key \in Values.key, NEW url \in Values.api_base_url,
           New(pid, key, url)
    PROVE  SettingsInv'
<1>1. settings = Defaults /\ asked = Defaults /\ position = 1
  BY DEF New, SettingsInv, UntoldYet
<1>2. stage' = "building" /\ asked' = settings' /\ UNCHANGED <<position, refusal, client, request>>
  BY DEF New
<1>3. request' = NoRequest /\ client' = NoClient /\ refusal' = "none"
  BY <1>2 DEF New, SettingsInv, TypeOK
<1>4. /\ DOMAIN settings' = Fields
      /\ \A f \in Fields : settings'[f] \in Values[f] \union {Defaults[f]}
  BY <1>1, FieldsListed, DefaultsListed DEF New
<1>5. TypeOK'
  BY <1>1, <1>2, <1>3, <1>4, VariablesListed DEF TypeOK
<1>6. (CallbacksFollowPolicy /\ FitPaymentsAreSent)'
  BY <1>3 DEF NoRequest, CallbacksFollowPolicy, FitPaymentsAreSent
<1>7. QED
  BY <1>2, <1>5, <1>6 DEF SettingsInv, UntoldYet, KeptAsAsked, MadeOfWhatFits, RefusedForAReason

LEMMA FromEnvStep == SettingsInv /\ FromEnv => SettingsInv'
<1> SUFFICES ASSUME SettingsInv, FromEnv PROVE SettingsInv'
  OBVIOUS
<1>1. position = 1 /\ asked = Defaults /\ settings = asked
  BY DEF FromEnv, SettingsInv, UntoldYet
<1>2. stage = "start" /\ stage' = "reading" /\ UNCHANGED <<position, settings, asked, refusal, client, request>>
  BY DEF FromEnv
<1>3. request' = NoRequest
  BY <1>2 DEF SettingsInv, TypeOK
<1>4. TypeOK'
  BY <1>2 DEF SettingsInv, TypeOK
<1>5. (CallbacksFollowPolicy /\ FitPaymentsAreSent)'
  BY <1>3 DEF NoRequest, CallbacksFollowPolicy, FitPaymentsAreSent
<1>6. UntoldYet'
  BY <1>1, <1>2, VariablesListed, DefaultsListed DEF UntoldYet
<1>7. QED
  BY <1>1, <1>2, <1>4, <1>5, <1>6 DEF SettingsInv, KeptAsAsked, MadeOfWhatFits, RefusedForAReason

LEMMA SetStep ==
    ASSUME SettingsInv, NEW f \in Fields \ Identity, NEW value \in Values[f], Set(f, value)
    PROVE  SettingsInv'
<1>1. stage = "building" /\ UNCHANGED <<stage, position, refusal, client, request>>
  BY DEF Set
<1>2. settings = asked /\ settings' = [settings EXCEPT ![f] = value] /\ asked' = settings'
  BY DEF Set, Ask, SettingsInv, KeptAsAsked
<1>3. request' = NoRequest
  BY <1>1 DEF SettingsInv, TypeOK
<1>4. TypeOK'
  BY <1>1, <1>2 DEF SettingsInv, TypeOK
<1>5. (CallbacksFollowPolicy /\ FitPaymentsAreSent)'
  BY <1>3 DEF NoRequest, CallbacksFollowPolicy, FitPaymentsAreSent
<1>6. QED
  BY <1>1, <1>2, <1>4, <1>5
     DEF SettingsInv, UntoldYet, KeptAsAsked, MadeOfWhatFits, RefusedForAReason

\* Of a variable that has its turn: what is said of it, and what is kept.
Said(p, reading) ==
    LET f == EnvVariables[p].field
    IN  IF reading \in NoText
        THEN IF reading = "absent" \/ EnvVariables[p].reader = "optional" THEN asked[f] ELSE "unusable"
        ELSE reading

Kept(p, reading) ==
    IF reading \in NoText \union {"unparsable"} THEN settings[EnvVariables[p].field] ELSE reading

LEMMA ReadVariableStep ==
    ASSUME SettingsInv, NEW reading, ReadVariable(reading)
    PROVE  SettingsInv'
<1> DEFINE variable == EnvVariables[position]
           f        == variable.field
<1>1. /\ stage = "reading" /\ position \in 1 .. 10 /\ settings = asked
      /\ reading \in Readings(variable)
      /\ position' = position + 1 /\ UNCHANGED <<client, request>>
      /\ asked' = [asked EXCEPT ![f] = Said(position, reading)]
      /\ settings' = [settings EXCEPT ![f] = Kept(position, reading)]
  BY VariablesListed DEF ReadVariable, Ask, Said, Kept, SettingsInv, UntoldYet, KeptAsAsked, TypeOK
<1>2. /\ f \in Fields /\ variable.reader \in {"required", "optional", "typed"}
      /\ variable.reader = "required" <=> position <= 3
      /\ position > 3 => f \notin Identity
      /\ position = 1 => f = "pid"
      /\ position = 2 => f = "key"
      /\ position = 3 => f = "api_base_url"
  BY <1>1, VariablesListed
<1>3. request' = NoRequest /\ client' = NoClient
  BY <1>1 DEF SettingsInv, TypeOK
<1>4. reading \in NoText \/ reading = "unparsable" \/ reading \in Values[f]
  BY <1>1 DEF Readings
<1>5. asked[f] \in Values[f] \union {Defaults[f]} /\ settings[f] \in Values[f] \union {Defaults[f]}
  BY <1>1, <1>2 DEF SettingsInv, TypeOK
<1>6. /\ Said(position, reading) \in Values[f] \union {Defaults[f], "unusable", "unparsable"}
      /\ Kept(position, reading) \in Values[f] \union {Defaults[f]}
  BY <1>4, <1>5 DEF Said, Kept
<1>7. /\ DOMAIN settings' = Fields /\ DOMAIN asked' = Fields
      /\ \A g \in Fields : /\ settings'[g] \in Values[g] \union {Defaults[g]}
                          /\ asked'[g] \in Values[g] \union {Defaults[g], "unusable", "unparsable"}
  <2>1. DOMAIN settings = Fields /\ DOMAIN asked = Fields
    BY DEF SettingsInv, TypeOK
  <2>2. \A g \in Fields : /\ settings[g] \in Values[g] \union {Defaults[g]}
                         /\ asked[g] \in Values[g] \union {Defaults[g], "unusable", "unparsable"}
    BY DEF SettingsInv, TypeOK
  <2> HIDE DEF variable, f
  <2>3. QED
    BY <1>1, <1>6, <2>1, <2>2
<1>8. (CallbacksFollowPolicy /\ FitPaymentsAreSent)'
  BY <1>3 DEF NoRequest, CallbacksFollowPolicy, FitPaymentsAreSent
<1>9. position' \in 1 .. Len(EnvVariables) + 1
  BY <1>1, VariablesListed
<1>10. CASE Fails(variable, reading)
  <2>1. stage' = "refused" /\ refusal' = "environment"
    BY <1>10 DEF ReadVariable
  <2>2. TypeOK'
    BY <1>3, <1>7, <1>9, <2>1 DEF TypeOK
  <2>3. ~Sound'
    <3>1. f \in DOMAIN asked
      BY <1>2 DEF SettingsInv, TypeOK
    <3>2. asked'[f] = Said(position, reading)
      BY <1>1, <3>1
    <3>3. CASE asked'[f] \in {"unusable", "unparsable"}
      BY <1>2, <3>3 DEF Sound
    <3>4. CASE asked'[f] \notin {"unusable", "unparsable"}
      <4>1. reading = "absent" /\ variable.reader = "required" /\ asked'[f] = asked[f]
        BY <1>2, <1>10, <3>2, <3>4 DEF Fails, Said, NoText
      <4>2. asked'.pid = "unset" \/ asked'.key = "unset" \/ asked'.api_base_url = "unset"
        BY <1>1, <1>2, <4>1 DEF SettingsInv, UntoldYet
      <4>3. QED
        BY <4>2 DEF Sound
    <3>5. QED
      BY <3>3, <3>4
  <2>4. QED
    BY <1>8, <2>1, <2>2, <2>3
       DEF SettingsInv, UntoldYet, KeptAsAsked, MadeOfWhatFits, RefusedForAReason
<1>11. CASE ~Fails(variable, reading)
  <2>1. /\ stage' = IF position = 10 THEN "building" ELSE "reading"
        /\ UNCHANGED refusal
    BY <1>11, VariablesListed DEF ReadVariable
  <2>2. TypeOK'
    BY <1>1, <1>3, <1>7, <1>9, <2>1 DEF SettingsInv, TypeOK
  <2>3. Said(position, reading) = Kept(position, reading)
    BY <1>1, <1>2, <1>11 DEF Said, Kept, Fails, NoText
  <2>4. KeptAsAsked'
    BY <1>1, <2>3 DEF KeptAsAsked
  <2>5. UntoldYet'
    <3>1. position' <= 2 => f = "pid"
      BY <1>1, <1>2
    <3>2. position' <= 3 => f \in {"pid", "key"}
      BY <1>1, <1>2
    <3>3. /\ position' <= 2 => asked'.key = "unset"
          /\ position' <= 3 => asked'.api_base_url = "unset"
      BY <1>1, <3>1, <3>2 DEF SettingsInv, UntoldYet
    <3>4. ~(position' <= 1) /\ (stage' = "reading" => position' <= 10)
      BY <1>1, <2>1
    <3>5. stage' # "start" /\ Len(EnvVariables) = 10
      BY <2>1, VariablesListed
    <3>6. QED
      BY <3>3, <3>4, <3>5 DEF UntoldYet
  <2>6. QED
    BY <1>8, <2>1, <2>2, <2>4, <2>5 DEF SettingsInv, MadeOfWhatFits, RefusedForAReason
<1>12. QED
  BY <1>10, <1>11

\* Sound settings fit together.
LEMMA SoundFits ==
    ASSUME TypeOK, Sound
    PROVE  BuildFits(asked)
<1>1. \A f \in Fields : asked[f] # "zero"
  BY DEF Sound
<1>2. asked.allow_insecure_http \in {"yes", "no", "unusable", "unparsable"}
  BY FieldsListed, ValuesListed, DefaultsListed DEF TypeOK
<1>3. QED
  BY <1>1, FieldsListed DEF Sound, BuildFits, ConfigFits, Unappliable, Insecure, WellFormed

LEMMA BuildStep == SettingsInv /\ Build => SettingsInv'
<1> SUFFICES ASSUME SettingsInv, Build PROVE SettingsInv'
  OBVIOUS
<1>1. /\ stage = "building" /\ settings = asked
      /\ refusal' = FirstError(BuildChecks(settings))
      /\ UNCHANGED <<position, settings, asked, request>>
  BY DEF Build, SettingsInv, KeptAsAsked
<1>2. request' = NoRequest /\ client = NoClient
  BY <1>1 DEF SettingsInv, TypeOK
<1>3. (CallbacksFollowPolicy /\ FitPaymentsAreSent)'
  BY <1>2 DEF NoRequest, CallbacksFollowPolicy, FitPaymentsAreSent
<1>4. CASE refusal' = "none"
  <2>1. stage' = "built" /\ client' = ClientOf(settings)
    BY <1>4 DEF Build
  <2>2. client' # NoClient
    BY <2>1 DEF ClientOf, NoClient
  <2>3. TypeOK'
    BY <1>1, <1>2, <1>4, <2>1, <2>2 DEF SettingsInv, TypeOK
  <2>4. BuildFits(settings)
    BY <1>1, <1>4, BuildAcceptsWhatFits
  <2>5. BuildFits(settings')
    BY <1>1, <2>4
  <2>6. MadeOfWhatFits'
    BY <1>1, <2>1, <2>5 DEF MadeOfWhatFits
  <2>7. QED
    BY <1>1, <1>3, <2>1, <2>3, <2>6 DEF SettingsInv, UntoldYet, KeptAsAsked, RefusedForAReason
<1>5. CASE refusal' # "none"
  <2>1. stage' = "refused" /\ UNCHANGED client
    BY <1>5 DEF Build
  <2>2. TypeOK'
    BY <1>1, <1>2, <1>5, <2>1 DEF SettingsInv, TypeOK
  <2>3. ~Sound
    BY <1>1, <1>5, BuildAcceptsWhatFits, SoundFits DEF SettingsInv
  <2>4. ~Sound'
    BY <1>1, <2>3 DEF Sound
  <2>5. QED
    BY <1>3, <2>1, <2>2, <2>4 DEF SettingsInv, UntoldYet, KeptAsAsked, MadeOfWhatFits, RefusedForAReason
<1>6. QED
  BY <1>4, <1>5

LEMMA BuildFailsStep == SettingsInv /\ BuildFails => SettingsInv'
<1> SUFFICES ASSUME SettingsInv, BuildFails PROVE SettingsInv'
  OBVIOUS
<1>1. /\ stage = "building" /\ stage' = "refused" /\ refusal' = "transport"
      /\ UNCHANGED <<position, settings, asked, client, request>>
  BY DEF BuildFails
<1>2. request' = NoRequest
  BY <1>1 DEF SettingsInv, TypeOK
<1>3. (CallbacksFollowPolicy /\ FitPaymentsAreSent)'
  BY <1>2 DEF NoRequest, CallbacksFollowPolicy, FitPaymentsAreSent
<1>4. TypeOK'
  BY <1>1 DEF SettingsInv, TypeOK
<1>5. QED
  BY <1>1, <1>3, <1>4 DEF SettingsInv, UntoldYet, KeptAsAsked, MadeOfWhatFits, RefusedForAReason

\* A payment holds its URLs to what the caller asked for.
LEMMA PayKeepsInv ==
    ASSUME SettingsInv, NEW n, NEW r, Pay(n, r)
    PROVE  SettingsInv'
<1>1. /\ stage = "built" /\ settings = asked /\ client = ClientOf(asked)
      /\ request' = [overrides |-> <<n, r>>, error |-> FirstError(PayChecks(n, r)),
                     notify_url |-> Notify(n), return_url |-> Return(r)]
      /\ UNCHANGED <<stage, position, settings, asked, refusal, client>>
  BY PayStep DEF SettingsInv, KeptAsAsked, MadeOfWhatFits
<1>2. /\ client.notify_url = asked.notify_url /\ client.return_url = asked.return_url
      /\ client.allow_insecure_callback_http = asked.allow_insecure_callback_http
  BY <1>1 DEF ClientOf
<1>3. asked.allow_insecure_callback_http \in {"yes", "no"}
  <2>1. settings["allow_insecure_callback_http"] \in {"yes", "no"}
    BY FieldsListed, ValuesListed, DefaultsListed DEF SettingsInv, TypeOK
  <2>2. QED
    BY <1>1, <2>1
<1>4. request'.error = "none" <=>
          /\ OverrideFits(n) /\ OverrideFits(r)
          /\ Notify(n) # "unset" /\ ResolvedFits(Notify(n)) /\ ResolvedFits(Return(r))
  BY <1>1, PayAcceptsWhatFits
<1>5. \A url : Fit(url) <=> url # "unset" /\ ResolvedFits(url)
  BY <1>2, <1>3 DEF Fit, ResolvedFits, WellFormed, Insecure
<1>6. \A url : Fit(url)' <=> Fit(url)
  BY <1>1 DEF Fit
<1>7. CallbacksFollowPolicy'
  <2>1. request'.notify_url = Notify(n) /\ request'.return_url = Return(r)
    BY <1>1
  <2>2. QED
    BY <1>4, <1>5, <1>6, <2>1 DEF CallbacksFollowPolicy
<1>8. FitPaymentsAreSent'
  <2>1. /\ request'.overrides = <<n, r>> /\ request'.notify_url = Notify(n) /\ request'.return_url = Return(r)
    BY <1>1
  <2>2. /\ Notify(n) = IF n \in NoOverride THEN asked.notify_url ELSE n
        /\ Return(r) = IF r \in NoOverride THEN asked.return_url ELSE r
    BY <1>2 DEF Notify, Return, FirstNonBlank
  <2>3. ASSUME Fit(Notify(n)), Return(r) = "unset" \/ Fit(Return(r))
        PROVE  request'.error = "none"
    <3>1. ResolvedFits("unset")
      BY DEF ResolvedFits, WellFormed, Insecure
    <3>2. OverrideFits(n) /\ OverrideFits(r)
      BY <1>5, <2>2, <2>3 DEF OverrideFits, ResolvedFits, NoOverride
    <3>3. QED
      BY <1>4, <1>5, <2>3, <3>1, <3>2
  <2>4. asked' = asked
    BY <1>1
  <2>5. QED
    BY <1>6, <2>1, <2>2, <2>3, <2>4 DEF FitPaymentsAreSent
<1>9. TypeOK'
  BY <1>1 DEF SettingsInv, TypeOK
<1>10. QED
  BY <1>1, <1>7, <1>8, <1>9
     DEF SettingsInv, UntoldYet, KeptAsAsked, MadeOfWhatFits, RefusedForAReason

LEMMA NextSettings == SettingsInv /\ [Next]_vars => SettingsInv'
<1> SUFFICES ASSUME SettingsInv, [Next]_vars PROVE SettingsInv'
  OBVIOUS
<1>1. CASE UNCHANGED vars
  BY <1>1 DEF vars, SettingsInv, TypeOK, UntoldYet, KeptAsAsked, MadeOfWhatFits, RefusedForAReason, Sound,
              CallbacksFollowPolicy, FitPaymentsAreSent, Fit
<1>2. CASE Next
  BY <1>2, NewStep, FromEnvStep, ReadVariableStep, SetStep, BuildStep, BuildFailsStep, PayKeepsInv DEF Next
<1>3. QED
  BY <1>1, <1>2

LEMMA SettingsInvariant == Spec => []SettingsInv
BY InitSettings, NextSettings, PTL DEF Spec

\* Every setting keeps its type, and there is a client exactly when build made one.
THEOREM SettingsTypeCorrect == Spec => []TypeOK
<1>1. SettingsInv => TypeOK
  BY DEF SettingsInv
<1>2. QED
  BY <1>1, SettingsInvariant, PTL

\* Whatever the order and the source of the settings, the last word on each is in
\* force in a client that is built; only a custom transport, which replaces both,
\* leaves a connect timeout and a supplied reqwest client without effect
\* (client.rs 634-676, 697-750, protocol.rs 160).
THEOREM ClientsDoAsAsked == Spec => []AskedIsInForce
<1>1. SettingsInv => AskedIsInForce
  <2> SUFFICES ASSUME SettingsInv, stage = "built" PROVE AskedIsInForce
    BY DEF AskedIsInForce
  <2>1. client = ClientOf(asked) /\ BuildFits(asked) /\ settings = asked
    BY DEF SettingsInv, KeptAsAsked, MadeOfWhatFits
  <2>2. /\ client.pid = asked.pid /\ client.key = asked.key
        /\ client.api_base_url = asked.api_base_url
        /\ client.allow_insecure_http = asked.allow_insecure_http
        /\ client.notify_url = asked.notify_url /\ client.return_url = asked.return_url
        /\ client.allow_insecure_callback_http = asked.allow_insecure_callback_http
        /\ client.timeout = asked.timeout
        /\ client.max_response_body_bytes = asked.max_response_body_bytes
        /\ client.connect_timeout =
               IF TransportOf(asked) = "built-in" THEN asked.connect_timeout ELSE "unset"
        /\ client.transport = TransportOf(asked)
    BY <2>1 DEF ClientOf
  <2>3. \A f \in Fields \ {"connect_timeout", "transport", "reqwest_client"} :
           client[f] = asked[f]
    BY <2>2, FieldsListed
  <2>4. client.connect_timeout = asked.connect_timeout \/ asked.transport = "custom"
    BY <2>1, <2>2 DEF TransportOf, BuildFits, Unappliable
  <2>5. asked.allow_insecure_http \in {"yes", "no"}
    <3>1. settings["allow_insecure_http"] \in {"yes", "no"}
      BY FieldsListed, ValuesListed, DefaultsListed DEF SettingsInv, TypeOK
    <3>2. QED
      BY <2>1, <3>1
  <2>6. client.api_base_url = "http" => asked.allow_insecure_http = "yes"
    BY <2>1, <2>2, <2>5 DEF BuildFits, ConfigFits, Insecure
  <2>7. /\ asked.transport = "custom" => client.transport = "custom"
        /\ asked.reqwest_client = "supplied" =>
              client.transport = "supplied" \/ asked.transport = "custom"
        /\ client.transport # "built-in" =>
              asked.transport = "custom" \/ asked.reqwest_client = "supplied"
    BY <2>2 DEF TransportOf
  <2>8. QED
    BY <2>1, <2>2, <2>3, <2>4, <2>6, <2>7 DEF AskedIsInForce, BuildFits
<1>2. QED
  BY <1>1, SettingsInvariant, PTL

\* Settings are refused for what was asked and never for the order in which it
\* was (client.rs 713-750, config.rs 98-147).
THEOREM RefusalsHaveReasons == Spec => []RefusedForAReason
<1>1. SettingsInv => RefusedForAReason
  BY DEF SettingsInv
<1>2. QED
  BY <1>1, SettingsInvariant, PTL

\* No payment is sent with a callback URL the policy forbids, wherever the URL
\* comes from (payment.rs 73-92, protocol.rs 224).
THEOREM PolicyIsKept == Spec => []CallbacksFollowPolicy
<1>1. SettingsInv => CallbacksFollowPolicy
  BY DEF SettingsInv
<1>2. QED
  BY <1>1, SettingsInvariant, PTL

\* The policy turns away no other payment: one whose URLs fit is sent, and with
\* those (payment.rs 56-64).
THEOREM NoOtherPaymentIsRefused == Spec => []FitPaymentsAreSent
<1>1. SettingsInv => FitPaymentsAreSent
  BY DEF SettingsInv
<1>2. QED
  BY <1>1, SettingsInvariant, PTL

=============================================================================
