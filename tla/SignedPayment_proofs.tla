------------------------ MODULE SignedPayment_proofs -----------------------
(***************************************************************************)
(* Proofs about SignedPayment, for any keys and pids, any texts and names, *)
(* any number of alterations on the way: what the joined text tells of the *)
(* fields it was joined from, what an accepted notification says, and that *)
(* requests arrive as they were signed.                                    *)
(***************************************************************************)

EXTENDS SignedPayment, SequenceTheorems, WellFoundedInduction, TLAPS

(***************************************************************************)
(* The joined text.                                                        *)
(***************************************************************************)

\* A set of naturals has a least one.
LEMMA LeastNatural ==
    ASSUME NEW S, S # {}, S \subseteq Nat
    PROVE  \E i \in S : \A j \in S : i <= j
<1>1. PICK i \in S : \A j \in S : <<j, i>> \notin OpToRel(<, Nat)
  BY WFMin, NatLessThanWellFounded, Zenon
<1>2. ASSUME NEW j \in S PROVE ~(j < i)
  BY <1>1, Zenon DEF OpToRel
<1>3. QED
  BY <1>2

\* Joining pair by pair is a function: one for n pairs extends to one more.
LEMMA JoiningExists ==
    ASSUME NEW params, NEW N \in Nat
    PROVE  \E text : text = [n \in 0 .. N |->
                                IF n = 0 THEN <<>> ELSE text[n - 1] \o Pair(params, Names[n])]
<1> DEFINE Joins(text, m) ==
       text = [n \in 0 .. m |-> IF n = 0 THEN <<>> ELSE text[n - 1] \o Pair(params, Names[n])]
           S == {m \in Nat : ~ \E text : Joins(text, m)}
<1> SUFFICES ASSUME S # {} PROVE FALSE
  OBVIOUS
<1>1. PICK m \in S : \A k \in S : m <= k
  BY LeastNatural
<1>2. Joins([n \in 0 .. 0 |-> <<>>], 0)
  OBVIOUS
<1>3. m \in Nat /\ m # 0
  BY <1>2
<1>4. PICK f : Joins(f, m - 1)
  <2>1. m - 1 \in Nat /\ ~(m <= m - 1)
    BY <1>3
  <2>2. m - 1 \notin S
    BY <1>1, <2>1
  <2> HIDE DEF Joins
  <2>3. QED
    BY <2>1, <2>2
<1> DEFINE g == [n \in 0 .. m |-> IF n = m THEN f[m - 1] \o Pair(params, Names[m]) ELSE f[n]]
<1>5. Joins(g, m)
  <2>1. ASSUME NEW n \in 0 .. m
        PROVE  g[n] = IF n = 0 THEN <<>> ELSE g[n - 1] \o Pair(params, Names[n])
    <3>1. CASE n = m
      <4>1. m \in 0 .. m /\ m - 1 \in 0 .. m /\ m - 1 # m
        BY <1>3
      <4>2. g[m] = f[m - 1] \o Pair(params, Names[m]) /\ g[m - 1] = f[m - 1]
        BY <4>1, Zenon
      <4>3. QED
        BY <1>3, <3>1, <4>2
    <3>2. CASE n # m
      <4>1. n \in 0 .. m - 1 /\ g[n] = f[n] /\ (n # 0 => g[n - 1] = f[n - 1])
        BY <3>2
      <4>2. f[n] = IF n = 0 THEN <<>> ELSE f[n - 1] \o Pair(params, Names[n])
        BY <1>4, <4>1
      <4>3. QED
        BY <4>1, <4>2
    <3>3. QED
      BY <3>1, <3>2
  <2>2. g = [n \in 0 .. m |-> g[n]]
    OBVIOUS
  <2> HIDE DEF g
  <2>3. QED
    BY <2>1, <2>2
<1>6. QED
  BY <1>1, <1>5

LEMMA JoiningSteps ==
    ASSUME NEW params
    PROVE  /\ Joining(params)[0] = <<>>
           /\ \A n \in 1 .. Len(Names) :
                 Joining(params)[n] = Joining(params)[n - 1] \o Pair(params, Names[n])
<1>0. Len(Names) \in Nat
  BY NamesAssumption
<1> DEFINE text == Joining(params)
<1>1. text = [n \in 0 .. Len(Names) |-> IF n = 0 THEN <<>> ELSE text[n - 1] \o Pair(params, Names[n])]
  BY <1>0, JoiningExists, Zenon DEF Joining
<1> HIDE DEF text
<1>2. text[0] = <<>>
  BY <1>0, <1>1
<1>3. ASSUME NEW n \in 1 .. Len(Names) PROVE text[n] = text[n - 1] \o Pair(params, Names[n])
  <2>1. n \in 0 .. Len(Names) /\ n # 0
    BY <1>0
  <2>2. text[n] = IF n = 0 THEN <<>> ELSE text[n - 1] \o Pair(params, Names[n])
    BY <1>1, <2>1, Zenon
  <2>3. QED
    BY <2>1, <2>2
<1>4. QED
  BY <1>2, <1>3 DEF text

\* Up to N and down from N, in steps of one.
LEMMA Upwards ==
    ASSUME NEW N \in Nat, NEW Good, 0 \in Good,
           \A n \in 1 .. N : n - 1 \in Good => n \in Good
    PROVE  \A n \in 0 .. N : n \in Good
<1> DEFINE Bad == {n \in 0 .. N : n \notin Good}
<1> SUFFICES ASSUME Bad # {} PROVE FALSE
  OBVIOUS
<1>1. PICK n \in Bad : \A k \in Bad : n <= k
  <2>1. Bad \subseteq Nat
    OBVIOUS
  <2> HIDE DEF Bad
  <2>2. QED
    BY <2>1, LeastNatural
<1>2. n \in 1 .. N /\ n - 1 \notin Bad
  BY <1>1
<1>3. QED
  BY <1>2

LEMMA Downwards ==
    ASSUME NEW N \in Nat, NEW m \in 0 .. N, NEW Good, N \in Good,
           \A n \in m + 1 .. N : n \in Good => n - 1 \in Good
    PROVE  \A n \in m .. N : n \in Good
<1> DEFINE Far == {d \in 0 .. N - m : N - d \in Good}
<1>1. 0 \in Far
  OBVIOUS
<1>2. \A d \in 1 .. N - m : d - 1 \in Far => d \in Far
  OBVIOUS
<1>3. \A d \in 0 .. N - m : d \in Far
  <2> HIDE DEF Far
  <2>1. N - m \in Nat
    OBVIOUS
  <2>2. QED
    BY <1>1, <1>2, <2>1, Upwards
<1>4. ASSUME NEW n \in m .. N PROVE n \in Good
  <2>1. N - n \in Far
    BY <1>3
  <2>2. QED
    BY <2>1
<1>5. QED
  BY <1>4

(***************************************************************************)
(* The pairs and their text, over any set of tokens.                       *)
(***************************************************************************)

TextsOver(S, params) ==
    NameSet \cup {"&", "="} \subseteq S /\ \A name \in DOMAIN params : params[name] \in Seq(S)

LEMMA NamesInOrder ==
    /\ Len(Names) \in Nat /\ DOMAIN Names = 1 .. Len(Names)
    /\ \A n \in 1 .. Len(Names) : Names[n] \in NameSet /\ Names[n] \notin {"&", "=", "LF"}
    /\ \A m, n \in 1 .. Len(Names) : Names[m] = Names[n] => m = n
    /\ \A name \in NameSet : \E n \in 1 .. Len(Names) : name = Names[n]
<1>1. Names \in Seq(NameSet) /\ (\A i, j \in DOMAIN Names : Names[i] = Names[j] => i = j)
  BY NamesAssumption
<1>2. Len(Names) \in Nat /\ DOMAIN Names = 1 .. Len(Names)
  BY <1>1
<1>3. \A n \in 1 .. Len(Names) : Names[n] \in NameSet
  BY <1>2 DEF NameSet
<1>4. \A name \in NameSet : name \notin {"&", "=", "LF"}
  BY NamesAssumption
<1>5. \A name \in NameSet : \E n \in 1 .. Len(Names) : name = Names[n]
  BY <1>2 DEF NameSet
<1>6. QED
  BY <1>1, <1>2, <1>3, <1>4, <1>5

\* A pair without value is empty; else it is the name between "&" and "=", and
\* the value.
IsPair(S, pair, params, name) ==
    /\ pair \in Seq(S)
    /\ name \notin DOMAIN params => pair = <<>>
    /\ name \in DOMAIN params =>
          /\ pair = <<"&", name, "=">> \o params[name]
          /\ params[name] \in Seq(S)
          /\ Len(pair) = 3 + Len(params[name])
          /\ pair[1] = "&" /\ pair[2] = name /\ pair[3] = "="
          /\ \A i \in 4 .. 3 + Len(params[name]) : pair[i] = params[name][i - 3]

LEMMA PairShape ==
    ASSUME NEW S, NEW params, TextsOver(S, params), NEW name \in NameSet
    PROVE  IsPair(S, Pair(params, name), params, name)
<1>1. CASE name \notin DOMAIN params
  BY <1>1 DEF Pair, IsPair
<1>2. CASE name \in DOMAIN params
  <2> DEFINE head == <<"&", name, "=">>
             value == params[name]
  <2>1. head \in Seq(S) /\ Len(head) = 3 /\ head[1] = "&" /\ head[2] = name /\ head[3] = "="
    BY DEF TextsOver
  <2>2. value \in Seq(S) /\ Pair(params, name) = head \o value
    BY <1>2 DEF TextsOver, Pair
  <2> HIDE DEF head, value
  <2>3. Len(value) \in Nat
    BY <2>2
  <2>4. /\ head \o value \in Seq(S)
        /\ Len(head \o value) = 3 + Len(value)
        /\ \A i \in 1 .. 3 + Len(value) : (head \o value)[i] = IF i <= 3 THEN head[i] ELSE value[i - 3]
    <3>1. /\ head \o value \in Seq(S)
          /\ Len(head \o value) = Len(head) + Len(value)
          /\ \A i \in 1 .. Len(head) + Len(value) :
                (head \o value)[i] = IF i <= Len(head) THEN head[i] ELSE value[i - Len(head)]
      BY <2>1, <2>2, ConcatProperties, Zenon
    <3>2. QED
      BY <2>1, <3>1
  <2>5. /\ (head \o value)[1] = "&" /\ (head \o value)[2] = name /\ (head \o value)[3] = "="
        /\ \A i \in 4 .. 3 + Len(value) : (head \o value)[i] = value[i - 3]
    BY <2>1, <2>3, <2>4
  <2>6. QED
    BY <1>2, <2>2, <2>4, <2>5 DEF head, value, IsPair
<1>3. QED
  BY <1>1, <1>2

LEMMA JoiningIsText ==
    ASSUME NEW S, NEW params, TextsOver(S, params)
    PROVE  \A n \in 0 .. Len(Names) : Joining(params)[n] \in Seq(S)
<1> DEFINE Good == {n \in 0 .. Len(Names) : Joining(params)[n] \in Seq(S)}
<1>1. 0 \in Good
  <2>1. Joining(params)[0] \in Seq(S)
    <3>1. Joining(params)[0] = <<>>
      BY JoiningSteps, Zenon
    <3>2. QED
      BY <3>1
  <2>2. 0 \in 0 .. Len(Names)
    BY NamesInOrder
  <2>3. QED
    BY <2>1, <2>2
<1>2. ASSUME NEW n \in 1 .. Len(Names), n - 1 \in Good PROVE n \in Good
  <2>1. Names[n] \in NameSet
    BY NamesInOrder
  <2>2. Pair(params, Names[n]) \in Seq(S)
    BY <2>1, PairShape DEF IsPair
  <2>3. Joining(params)[n] = Joining(params)[n - 1] \o Pair(params, Names[n])
    BY JoiningSteps
  <2>4. Joining(params)[n] \in Seq(S)
    BY <1>2, <2>2, <2>3, ConcatProperties
  <2>5. QED
    BY <2>4, NamesInOrder
<1> HIDE DEF Good
<1>3. \A n \in 0 .. Len(Names) : n \in Good
  BY <1>1, <1>2, NamesInOrder, Upwards
<1>4. QED
  BY <1>3 DEF Good


NoJoin(params) == \A name \in DOMAIN params : \A i \in DOMAIN params[name] : params[name][i] # "&"

\* Every "&" of the text of n pairs starts a pair, that of one of their names.
StartsPairs(text, n) ==
    \A i \in 1 .. Len(text) : text[i] = "&" =>
       i + 1 \in 1 .. Len(text) /\ \E m \in 1 .. n : text[i + 1] = Names[m]

LEMMA StartsArePairs ==
    ASSUME NEW S, NEW params, TextsOver(S, params), NoJoin(params)
    PROVE  \A n \in 0 .. Len(Names) : StartsPairs(Joining(params)[n], n)
<1> DEFINE Good == {n \in 0 .. Len(Names) : StartsPairs(Joining(params)[n], n)}
<1>1. 0 \in Good
  <2>1. Joining(params)[0] = <<>>
    BY JoiningSteps, Zenon
  <2>2. StartsPairs(<<>>, 0)
    BY DEF StartsPairs
  <2>3. QED
    BY <2>1, <2>2, NamesInOrder
<1>2. ASSUME NEW n \in 1 .. Len(Names), n - 1 \in Good PROVE n \in Good
  <2> DEFINE before == Joining(params)[n - 1]
             pair == Pair(params, Names[n])
             text == before \o pair
  <2>1. Joining(params)[n] = text
    BY JoiningSteps, Zenon
  <2>2. n \in Nat /\ n - 1 \in 0 .. Len(Names) /\ Names[n] \in NameSet /\ Names[n] # "&"
    BY NamesInOrder
  <2>3. before \in Seq(S)
    BY <2>2, JoiningIsText, Zenon
  <2>4. IsPair(S, pair, params, Names[n])
    BY <2>2, PairShape, Zenon
  <2>5. StartsPairs(before, n - 1)
    BY <1>2
  <2> HIDE DEF before, pair
  <2>6. /\ text \in Seq(S) /\ Len(text) = Len(before) + Len(pair)
        /\ \A i \in 1 .. Len(before) + Len(pair) :
              text[i] = IF i <= Len(before) THEN before[i] ELSE pair[i - Len(before)]
    BY <2>3, <2>4, ConcatProperties, Zenon DEF IsPair
  <2>7. Len(before) \in Nat /\ Len(pair) \in Nat
    BY <2>3, <2>4 DEF IsPair
  <2> HIDE DEF text
  <2>8. ASSUME NEW i \in 1 .. Len(text), text[i] = "&"
        PROVE  i + 1 \in 1 .. Len(text) /\ \E m \in 1 .. n : text[i + 1] = Names[m]
    <3>1. CASE i <= Len(before)
      <4>1. i \in 1 .. Len(before) /\ before[i] = "&"
        BY <2>6, <2>7, <2>8, <3>1
      <4>2. i + 1 \in 1 .. Len(before) /\ \E m \in 1 .. n - 1 : before[i + 1] = Names[m]
        BY <2>5, <4>1 DEF StartsPairs
      <4>3. i + 1 \in 1 .. Len(text) /\ text[i + 1] = before[i + 1]
        BY <2>6, <2>7, <4>2
      <4>4. QED
        BY <2>2, <4>2, <4>3
    <3>2. CASE i > Len(before)
      <4>1. i - Len(before) \in 1 .. Len(pair) /\ pair[i - Len(before)] = "&"
        BY <2>6, <2>7, <2>8, <3>2
      <4>2. Names[n] \in DOMAIN params
        BY <2>4, <4>1 DEF IsPair
      <4> DEFINE value == params[Names[n]]
      <4>3. /\ value \in Seq(S) /\ Len(pair) = 3 + Len(value) /\ pair[2] = Names[n] /\ pair[3] = "="
            /\ \A j \in 4 .. 3 + Len(value) : pair[j] = value[j - 3]
        BY <2>4, <4>2 DEF IsPair
      <4>4. \A j \in 1 .. Len(value) : value[j] # "&"
        BY <4>2, <4>3 DEF NoJoin
      <4> HIDE DEF value
      <4>5. i - Len(before) = 1
        <5>1. Len(value) \in Nat
          BY <4>3
        <5>2. i - Len(before) # 2 /\ i - Len(before) # 3
          BY <2>2, <4>1, <4>3
        <5>3. ~(i - Len(before) >= 4)
          BY <4>1, <4>3, <4>4, <5>1
        <5>4. QED
          BY <2>7, <4>1, <5>2, <5>3
      <4>6. i + 1 \in 1 .. Len(text) /\ text[i + 1] = pair[2]
        <5>1. Len(value) \in Nat
          BY <4>3
        <5>2. i + 1 = Len(before) + 2 /\ Len(before) + 2 <= Len(before) + Len(pair)
          BY <2>7, <4>3, <4>5, <5>1
        <5>3. Len(before) + 2 \in 1 .. Len(before) + Len(pair) /\ ~(Len(before) + 2 <= Len(before))
              /\ Len(before) + 2 - Len(before) = 2
          BY <2>7, <5>2
        <5>4. QED
          BY <2>6, <5>2, <5>3
      <4>7. QED
        BY <2>2, <4>3, <4>6
    <3>3. QED
      BY <2>6, <2>7, <3>1, <3>2
  <2>9. n \in 0 .. Len(Names)
    OBVIOUS
  <2>10. QED
    BY <2>1, <2>8, <2>9 DEF StartsPairs
<1>3. \A n \in 0 .. Len(Names) : n \in Good
  <2> HIDE DEF Good
  <2>1. QED
    BY <1>1, <1>2, NamesInOrder, Upwards
<1>4. QED
  BY <1>3


\* The text of n pairs is that of one pair less and the pair, if there is one.
OnePairMore(S, params, n) ==
    LET before == Joining(params)[n - 1]
        text == Joining(params)[n]
        value == params[Names[n]]
    IN  /\ before \in Seq(S) /\ text \in Seq(S)
        /\ Names[n] \notin DOMAIN params => text = before
        /\ Names[n] \in DOMAIN params =>
              /\ value \in Seq(S) /\ Len(before) \in Nat /\ Len(value) \in Nat
              /\ Len(text) = Len(before) + 3 + Len(value)
              /\ \A i \in 1 .. Len(before) : text[i] = before[i]
              /\ text[Len(before) + 1] = "&" /\ text[Len(before) + 2] = Names[n]
              /\ text[Len(before) + 3] = "="
              /\ \A i \in 1 .. Len(value) : text[Len(before) + 3 + i] = value[i]

LEMMA TextGrowsByPairs ==
    ASSUME NEW S, NEW params, TextsOver(S, params), NEW n \in 1 .. Len(Names)
    PROVE  OnePairMore(S, params, n)
<1> DEFINE before == Joining(params)[n - 1]
           pair == Pair(params, Names[n])
           text == before \o pair
<1>1. Joining(params)[n] = text
  BY JoiningSteps, Zenon
<1>2. n - 1 \in 0 .. Len(Names) /\ Names[n] \in NameSet
  BY NamesInOrder
<1>3. before \in Seq(S)
  BY <1>2, JoiningIsText, Zenon
<1>4. IsPair(S, pair, params, Names[n])
  BY <1>2, PairShape, Zenon
<1> HIDE DEF before, pair
<1>5. /\ text \in Seq(S) /\ Len(text) = Len(before) + Len(pair)
      /\ \A i \in 1 .. Len(before) + Len(pair) :
            text[i] = IF i <= Len(before) THEN before[i] ELSE pair[i - Len(before)]
  BY <1>3, <1>4, ConcatProperties, Zenon DEF IsPair
<1>6. Len(before) \in Nat /\ Len(pair) \in Nat
  BY <1>3, <1>4 DEF IsPair
<1>7. CASE Names[n] \notin DOMAIN params
  <2>1. text = before
    BY <1>3, <1>4, <1>7 DEF IsPair
  <2>2. QED
    BY <1>1, <1>3, <1>5, <1>7, <2>1 DEF before, OnePairMore
<1>8. CASE Names[n] \in DOMAIN params
  <2> DEFINE value == params[Names[n]]
  <2>1. /\ value \in Seq(S) /\ Len(pair) = 3 + Len(value)
        /\ pair[1] = "&" /\ pair[2] = Names[n] /\ pair[3] = "="
        /\ \A j \in 4 .. 3 + Len(value) : pair[j] = value[j - 3]
    BY <1>4, <1>8 DEF IsPair
  <2> HIDE DEF value, text
  <2>2. Len(value) \in Nat
    BY <2>1
  <2>3. \A i \in 1 .. Len(before) : text[i] = before[i]
    BY <1>5, <1>6
  <2>4. \A j \in 1 .. Len(pair) : text[Len(before) + j] = pair[j]
    <3> TAKE j \in 1 .. Len(pair)
    <3>1. Len(before) + j \in 1 .. Len(before) + Len(pair) /\ ~(Len(before) + j <= Len(before))
          /\ Len(before) + j - Len(before) = j
      BY <1>6
    <3>2. QED
      BY <1>5, <3>1
  <2>5. 1 \in 1 .. Len(pair) /\ 2 \in 1 .. Len(pair) /\ 3 \in 1 .. Len(pair)
    BY <2>1, <2>2
  <2>6. \A i \in 1 .. Len(value) : text[Len(before) + 3 + i] = value[i]
    <3> TAKE i \in 1 .. Len(value)
    <3>1. 3 + i \in 1 .. Len(pair) /\ 3 + i \in 4 .. 3 + Len(value) /\ 3 + i - 3 = i
          /\ Len(before) + (3 + i) = Len(before) + 3 + i
      BY <1>6, <2>1, <2>2
    <3>2. text[Len(before) + (3 + i)] = pair[3 + i] /\ pair[3 + i] = value[3 + i - 3]
      BY <2>1, <2>4, <3>1
    <3>3. QED
      BY <3>1, <3>2
  <2>7. Len(text) = Len(before) + 3 + Len(value)
    BY <1>5, <1>6, <2>1, <2>2
  <2>8. text[Len(before) + 1] = "&" /\ text[Len(before) + 2] = Names[n] /\ text[Len(before) + 3] = "="
    BY <2>1, <2>4, <2>5
  <2>9. QED
    BY <1>1, <1>3, <1>5, <1>6, <1>8, <2>1, <2>2, <2>3, <2>6, <2>7, <2>8, Zenon DEF before, value, OnePairMore
<1>9. QED
  BY <1>7, <1>8

\* The first n pairs of two maps have one text.
OneTextUpTo(p, q, n) == Joining(p)[n] = Joining(q)[n]

\* A pair can be told from none, ...
LEMMA PairsAreSeen ==
    ASSUME NEW S, NEW p, NEW q, TextsOver(S, p), TextsOver(S, q), NoJoin(q),
           NEW n \in 1 .. Len(Names), OneTextUpTo(p, q, n), Names[n] \in DOMAIN p
    PROVE  Names[n] \in DOMAIN q
<1> SUFFICES ASSUME Names[n] \notin DOMAIN q PROVE FALSE
  OBVIOUS
<1> DEFINE before == Joining(p)[n - 1]
           text == Joining(p)[n]
           other == Joining(q)[n - 1]
           value == p[Names[n]]
<1>0. OnePairMore(S, p, n) /\ OnePairMore(S, q, n)
  BY TextGrowsByPairs, Zenon
<1>1. text = other
  BY <1>0, Zenon DEF OnePairMore, OneTextUpTo
<1>2. /\ Len(before) \in Nat /\ Len(value) \in Nat /\ Len(text) = Len(before) + 3 + Len(value)
      /\ text[Len(before) + 1] = "&" /\ text[Len(before) + 2] = Names[n]
  BY <1>0, Zenon DEF OnePairMore
<1>3. n - 1 \in 0 .. Len(Names) /\ \A m \in 1 .. n - 1 : Names[m] # Names[n]
  BY NamesInOrder
<1>4. StartsPairs(other, n - 1)
  BY <1>3, StartsArePairs, Zenon
<1> HIDE DEF before, text, other, value
<1>5. Len(before) + 1 \in 1 .. Len(other) /\ Len(before) + 1 + 1 = Len(before) + 2
  BY <1>1, <1>2
<1>6. \E m \in 1 .. n - 1 : other[Len(before) + 2] = Names[m]
  BY <1>1, <1>2, <1>4, <1>5 DEF StartsPairs
<1>7. QED
  BY <1>1, <1>2, <1>3, <1>6

\* ... and where the last one starts, by its "&": there is no later one.
LEMMA LastStart ==
    ASSUME NEW S, NEW p, NEW q, TextsOver(S, p), TextsOver(S, q), NoJoin(q),
           NEW n \in 1 .. Len(Names), OneTextUpTo(p, q, n),
           Names[n] \in DOMAIN p, Names[n] \in DOMAIN q
    PROVE  Len(Joining(p)[n - 1]) <= Len(Joining(q)[n - 1])
<1> DEFINE before == Joining(p)[n - 1]
           other == Joining(q)[n - 1]
           text == Joining(q)[n]
           value == p[Names[n]]
           given == q[Names[n]]
<1>0. OnePairMore(S, p, n) /\ OnePairMore(S, q, n) /\ Joining(p)[n] = text
  BY TextGrowsByPairs, Zenon DEF OneTextUpTo
<1>1. /\ Len(before) \in Nat /\ Len(value) \in Nat /\ Len(text) = Len(before) + 3 + Len(value)
      /\ text[Len(before) + 1] = "&"
  BY <1>0 DEF OnePairMore
<1>2. /\ given \in Seq(S) /\ Len(other) \in Nat /\ Len(given) \in Nat
      /\ Len(text) = Len(other) + 3 + Len(given)
      /\ text[Len(other) + 2] = Names[n] /\ text[Len(other) + 3] = "="
      /\ \A i \in 1 .. Len(given) : text[Len(other) + 3 + i] = given[i]
  BY <1>0, Zenon DEF OnePairMore
<1>3. \A i \in 1 .. Len(given) : given[i] # "&"
  BY <1>2 DEF NoJoin
<1>4. Names[n] # "&"
  BY NamesInOrder
<1> HIDE DEF before, other, text, value, given
<1>5. SUFFICES ASSUME Len(before) > Len(other) PROVE FALSE
  BY <1>1, <1>2 DEF before, other
<1> DEFINE i == Len(before) + 1 - (Len(other) + 3)
<1>6. Len(before) + 1 # Len(other) + 2 /\ Len(before) + 1 # Len(other) + 3
  BY <1>1, <1>2, <1>4
<1>7. i \in 1 .. Len(given) /\ Len(other) + 3 + i = Len(before) + 1
  BY <1>1, <1>2, <1>5, <1>6
<1> HIDE DEF i
<1>8. text[Len(before) + 1] = given[i]
  BY <1>2, <1>7
<1>9. QED
  BY <1>1, <1>3, <1>7, <1>8

\* So the text before the last pair is told as well, ...
LEMMA TextsBefore ==
    ASSUME NEW S, NEW p, NEW q, TextsOver(S, p), TextsOver(S, q), NoJoin(p), NoJoin(q),
           NEW n \in 1 .. Len(Names), OneTextUpTo(p, q, n)
    PROVE  OneTextUpTo(p, q, n - 1)
<1> DEFINE before == Joining(p)[n - 1]
           other == Joining(q)[n - 1]
           text == Joining(p)[n]
<1>. OneTextUpTo(q, p, n)
  BY DEF OneTextUpTo
<1>1. Names[n] \in DOMAIN p <=> Names[n] \in DOMAIN q
  BY PairsAreSeen, Zenon
<1>0. OnePairMore(S, p, n) /\ OnePairMore(S, q, n) /\ Joining(q)[n] = text
  BY TextGrowsByPairs, Zenon DEF OneTextUpTo
<1>2. CASE Names[n] \notin DOMAIN p
  BY <1>0, <1>1, <1>2, Zenon DEF OnePairMore, OneTextUpTo
<1>3. CASE Names[n] \in DOMAIN p
  <2>1. Len(before) <= Len(other) /\ Len(other) <= Len(before)
    BY <1>1, <1>3, LastStart, Zenon
  <2>2. before \in Seq(S) /\ \A i \in 1 .. Len(before) : text[i] = before[i]
    BY <1>0, <1>3, Zenon DEF OnePairMore
  <2>3. other \in Seq(S) /\ \A i \in 1 .. Len(other) : text[i] = other[i]
    BY <1>0, <1>1, <1>3, Zenon DEF OnePairMore
  <2> HIDE DEF before, other, text
  <2>4. Len(before) = Len(other)
    BY <2>1, <2>2, <2>3
  <2>5. before = other
    BY <2>2, <2>3, <2>4
  <2>6. QED
    BY <2>5 DEF before, other, OneTextUpTo
<1>4. QED
  BY <1>2, <1>3

\* ... and one text stands for one value of each name.
SameField(p, q, name) == Pair(p, name) = Pair(q, name)

LEMMA PairsAfterTexts ==
    ASSUME NEW S, NEW p, NEW q, TextsOver(S, p), TextsOver(S, q), NEW n \in 1 .. Len(Names),
           OneTextUpTo(p, q, n), OneTextUpTo(p, q, n - 1)
    PROVE  SameField(p, q, Names[n])
<1>1. Names[n] \in NameSet
  BY NamesInOrder
<1>2. Pair(p, Names[n]) \in Seq(S) /\ Pair(q, Names[n]) \in Seq(S)
  BY <1>1, PairShape, Zenon DEF IsPair
<1>3. Joining(p)[n - 1] \in Seq(S)
  BY TextGrowsByPairs, Zenon DEF OnePairMore
<1>4. Joining(p)[n - 1] \o Pair(p, Names[n]) = Joining(p)[n - 1] \o Pair(q, Names[n])
  BY JoiningSteps, Zenon DEF OneTextUpTo
<1>5. QED
  BY <1>2, <1>3, <1>4, ConcatSimplifications, Zenon DEF SameField

LEMMA OneText ==
    ASSUME NEW S, NEW p, NEW q, TextsOver(S, p), TextsOver(S, q), NoJoin(p), NoJoin(q),
           OneTextUpTo(p, q, Len(Names))
    PROVE  \A name \in NameSet : SameField(p, q, name)
<1> DEFINE Good == {n \in 0 .. Len(Names) : OneTextUpTo(p, q, n)}
<1>1. Len(Names) \in Good
  BY NamesInOrder
<1>2. ASSUME NEW n \in 1 .. Len(Names), n \in Good PROVE n - 1 \in Good
  <2>1. OneTextUpTo(p, q, n - 1)
    BY <1>2, TextsBefore, Zenon
  <2>2. QED
    BY <2>1, NamesInOrder
<1>3. \A n \in 0 .. Len(Names) : n \in Good
  <2> HIDE DEF Good
  <2>1. 0 \in 0 .. Len(Names) /\ 0 + 1 = 1
    BY NamesInOrder
  <2>2. QED
    BY <1>1, <1>2, <2>1, NamesInOrder, Downwards
<1>4. ASSUME NEW n \in 1 .. Len(Names) PROVE SameField(p, q, Names[n])
  <2>1. n \in 0 .. Len(Names) /\ n - 1 \in 0 .. Len(Names)
    BY NamesInOrder
  <2>2. OneTextUpTo(p, q, n) /\ OneTextUpTo(p, q, n - 1)
    BY <1>3, <2>1
  <2>3. QED
    BY <2>2, PairsAfterTexts, Zenon
<1>5. \A name \in NameSet : \E n \in 1 .. Len(Names) : name = Names[n]
  BY NamesInOrder
<1>6. QED
  BY <1>4, <1>5


\* Where all pairs but one are the same, one text leaves no choice for that one,
\* whatever the values hold.
LEMMA OneUnknown ==
    ASSUME NEW S, NEW p, NEW q, TextsOver(S, p), TextsOver(S, q), NEW m \in 1 .. Len(Names),
           \A n \in 1 .. Len(Names) : n # m => SameField(p, q, Names[n]),
           OneTextUpTo(p, q, Len(Names))
    PROVE  SameField(p, q, Names[m])
<1> DEFINE Good == {n \in 0 .. Len(Names) : OneTextUpTo(p, q, n)}
<1>1. Len(Names) \in Nat /\ m - 1 \in Nat /\ m \in 0 .. Len(Names) /\ m - 1 \in 0 .. m - 1
      /\ m \in m .. Len(Names)
  BY NamesInOrder
<1>2. ASSUME NEW n \in 1 .. Len(Names), n # m PROVE n \in Good <=> n - 1 \in Good
  <2>1. Pair(p, Names[n]) = Pair(q, Names[n])
    BY <1>2 DEF SameField
  <2>2. Names[n] \in NameSet
    BY NamesInOrder
  <2>3. Pair(p, Names[n]) \in Seq(S)
    BY <2>2, PairShape, Zenon DEF IsPair
  <2>4. Joining(p)[n - 1] \in Seq(S) /\ Joining(q)[n - 1] \in Seq(S)
    BY TextGrowsByPairs, Zenon DEF OnePairMore
  <2>5. /\ Joining(p)[n] = Joining(p)[n - 1] \o Pair(p, Names[n])
        /\ Joining(q)[n] = Joining(q)[n - 1] \o Pair(p, Names[n])
    BY <2>1, JoiningSteps, Zenon
  <2>6. Joining(p)[n] = Joining(q)[n] <=> Joining(p)[n - 1] = Joining(q)[n - 1]
    BY <2>3, <2>4, <2>5, ConcatSimplifications, Zenon
  <2>7. n \in 0 .. Len(Names) /\ n - 1 \in 0 .. Len(Names)
    BY <1>1
  <2>8. QED
    BY <2>6, <2>7 DEF OneTextUpTo
<1>3. 0 \in Good
  <2>1. OneTextUpTo(p, q, 0)
    BY JoiningSteps, Zenon DEF OneTextUpTo
  <2>2. QED
    BY <1>1, <2>1
<1>4. Len(Names) \in Good
  BY <1>1
<1> HIDE DEF Good
<1>5. \A n \in 1 .. m - 1 : n - 1 \in Good => n \in Good
  BY <1>1, <1>2
<1>6. \A n \in m + 1 .. Len(Names) : n \in Good => n - 1 \in Good
  BY <1>1, <1>2
<1>7. m - 1 \in Good
  BY <1>1, <1>3, <1>5, Upwards
<1>8. m \in Good
  BY <1>1, <1>4, <1>6, Downwards
<1>9. OneTextUpTo(p, q, m) /\ OneTextUpTo(p, q, m - 1)
  BY <1>7, <1>8 DEF Good
<1>10. QED
  BY <1>9, PairsAfterTexts, Zenon

\* Every token of a value is one of the text.
LEMMA ValuesAreOfTheText ==
    ASSUME NEW S, NEW R, NEW params, TextsOver(S, params), Joining(params)[Len(Names)] \in Seq(R),
           NEW name \in NameSet \cap DOMAIN params
    PROVE  params[name] \in Seq(R)
<1> DEFINE Good == {n \in 0 .. Len(Names) : Joining(params)[n] \in Seq(R)}
<1>1. Len(Names) \in Nat /\ Len(Names) \in Good
  BY NamesInOrder
<1>2. ASSUME NEW n \in 1 .. Len(Names), n \in Good PROVE n - 1 \in Good
  <2> DEFINE before == Joining(params)[n - 1]
             text == Joining(params)[n]
             value == params[Names[n]]
  <2>1. OnePairMore(S, params, n)
    BY TextGrowsByPairs, Zenon
  <2>2. text \in Seq(R) /\ n - 1 \in 0 .. Len(Names)
    BY <1>1, <1>2
  <2>3. before \in Seq(R)
    <3>1. CASE Names[n] \notin DOMAIN params
      BY <2>1, <2>2, <3>1 DEF OnePairMore
    <3>2. CASE Names[n] \in DOMAIN params
      <4>1. /\ before \in Seq(S) /\ Len(before) \in Nat /\ Len(value) \in Nat
            /\ Len(text) = Len(before) + 3 + Len(value)
            /\ \A i \in 1 .. Len(before) : text[i] = before[i]
        BY <2>1, <3>2, Zenon DEF OnePairMore
      <4> HIDE DEF before, text, value
      <4>2. \A i \in 1 .. Len(before) : text[i] \in R
        BY <2>2, <4>1
      <4>3. QED
        BY <4>1, <4>2
    <3>3. QED
      BY <3>1, <3>2
  <2>4. QED
    BY <2>2, <2>3
<1>3. PICK m \in 1 .. Len(Names) : name = Names[m]
  BY NamesInOrder
<1>4. m \in Good
  <2> HIDE DEF Good
  <2>1. m \in 0 .. Len(Names) /\ m \in m .. Len(Names) /\ \A n \in m + 1 .. Len(Names) : n \in 1 .. Len(Names)
    BY <1>1
  <2>2. \A n \in m + 1 .. Len(Names) : n \in Good => n - 1 \in Good
    BY <1>2, <2>1
  <2>3. QED
    BY <1>1, <2>1, <2>2, Downwards
<1> DEFINE before == Joining(params)[m - 1]
           text == Joining(params)[m]
           value == params[Names[m]]
<1>5. /\ value \in Seq(S) /\ Len(before) \in Nat /\ Len(value) \in Nat
      /\ Len(text) = Len(before) + 3 + Len(value)
      /\ \A i \in 1 .. Len(value) : text[Len(before) + 3 + i] = value[i]
  <2>1. OnePairMore(S, params, m)
    BY TextGrowsByPairs, Zenon
  <2>2. QED
    BY <1>3, <2>1, Zenon DEF OnePairMore
<1>6. text \in Seq(R)
  BY <1>4
<1> HIDE DEF before, text, value
<1>7. \A i \in 1 .. Len(value) : value[i] \in R
  <2> TAKE i \in 1 .. Len(value)
  <2>1. Len(before) + 3 + i \in 1 .. Len(text)
    BY <1>5
  <2>2. QED
    BY <1>5, <1>6, <2>1
<1>8. value \in Seq(R)
  BY <1>5, <1>7
<1>9. QED
  BY <1>3, <1>8 DEF value

\* Fields with the same pairs have the same values.
LEMMA SameFieldsAreSame ==
    ASSUME NEW S, NEW p, NEW q, TextsOver(S, p), TextsOver(S, q), NEW name \in NameSet
    PROVE  /\ SameField(p, q, name) =>
                 (name \in DOMAIN p <=> name \in DOMAIN q) /\ Get(p, name) = Get(q, name)
           /\ (\A k \in DOMAIN p : p[k] # <<>>) /\ (\A k \in DOMAIN q : q[k] # <<>>)
                 /\ Get(p, name) = Get(q, name) => SameField(p, q, name)
<1>1. IsPair(S, Pair(p, name), p, name) /\ IsPair(S, Pair(q, name), q, name)
  BY PairShape, Zenon
<1>2. ASSUME SameField(p, q, name)
      PROVE  (name \in DOMAIN p <=> name \in DOMAIN q) /\ Get(p, name) = Get(q, name)
  <2>1. name \in DOMAIN p <=> name \in DOMAIN q
    <3>1. \A pair, params : IsPair(S, pair, params, name) => (pair = <<>> <=> name \notin DOMAIN params)
      <4> SUFFICES ASSUME NEW pair, NEW params, IsPair(S, pair, params, name), name \in DOMAIN params
                   PROVE  pair # <<>>
        BY DEF IsPair
      <4>1. Len(pair) = 3 + Len(params[name]) /\ Len(params[name]) \in Nat
        BY DEF IsPair
      <4>2. QED
        BY <4>1
    <3>2. QED
      BY <1>1, <1>2, <3>1, Zenon DEF SameField
  <2>2. CASE name \in DOMAIN p
    <3>1. <<"&", name, "=">> \o p[name] = <<"&", name, "=">> \o q[name]
      BY <1>1, <1>2, <2>1, <2>2, Zenon DEF SameField, IsPair
    <3>2. <<"&", name, "=">> \in Seq(S) /\ p[name] \in Seq(S) /\ q[name] \in Seq(S)
      BY <2>1, <2>2 DEF TextsOver
    <3>3. p[name] = q[name]
      BY <3>1, <3>2, ConcatSimplifications, Zenon
    <3>4. QED
      BY <2>1, <2>2, <3>3 DEF Get
  <2>3. QED
    BY <2>1, <2>2 DEF Get
<1>3. ASSUME \A k \in DOMAIN p : p[k] # <<>>, \A k \in DOMAIN q : q[k] # <<>>,
             Get(p, name) = Get(q, name)
      PROVE  SameField(p, q, name)
  <2>1. /\ name \in DOMAIN p <=> name \in DOMAIN q
        /\ name \in DOMAIN p => p[name] = q[name]
    BY <1>3 DEF Get
  <2>2. QED
    BY <2>1, Zenon DEF SameField, Pair
<1>4. QED
  BY <1>2, <1>3

(***************************************************************************)
(* The signature.                                                          *)
(***************************************************************************)

\* The digest that arrives, if one does, was made by who signed.
SignInv ==
    /\ message = [params |-> message.params, sign |-> message.sign]
    /\ signed.params = Signable(signed.params)
    /\ \/ message.sign = NoSign
       \/ \E form : message.sign = [key |-> signed.key, payload |-> SignPayload(signed.params), form |-> form]

\* What was verified is what arrived.
VerdictInv == verdict # Nothing => signed # NotSigned /\ verdict = VerdictOn(message)

IInv == SignInv /\ VerdictInv

LEMMA ErrorsDiffer ==
    /\ PlainError("Notify") # PlainError("VerifyFailed")
    /\ NoError # PlainError("VerifyFailed")
BY DEF PlainError, NoError

LEMMA NoDigest == NoSign.form = "none"
BY DEF NoSign

LEMMA SignedOnce ==
    ASSUME NEW params
    PROVE  /\ Signable(params) = Signable(Signable(params))
           /\ SignPayload(Signable(params)) = SignPayload(params)
<1>1. Signable(params) = Signable(Signable(params))
  BY DEF Signable, Without
<1>2. QED
  BY <1>1, Zenon DEF SignPayload

LEMMA InitIInv == Init => IInv
<1> SUFFICES ASSUME Init PROVE IInv
  OBVIOUS
<1>1. /\ signed = NotSigned /\ message = [params |-> NoParams, sign |-> NoSign] /\ verdict = Nothing
  BY DEF Init, NotifyInit
<1>2. signed.params = Signable(signed.params)
  BY <1>1 DEF NotSigned, NoParams, Signable, Without
<1>3. QED
  BY <1>1, <1>2 DEF IInv, SignInv, VerdictInv

LEMMA EmitStep ==
    ASSUME IInv, NEW key, NEW params, Emit(key, params)
    PROVE  IInv'
<1>1. /\ signed = NotSigned /\ UNCHANGED verdict
      /\ signed' = [key |-> key, params |-> Signable(params)]
      /\ message' = SignWithParams(key, params)
  BY DEF Emit
<1>2. signed'.params = Signable(params) /\ signed'.key = key
  BY <1>1
<1>3. message'.sign = [key |-> signed'.key, payload |-> SignPayload(signed'.params), form |-> "lower"]
  BY <1>1, <1>2, SignedOnce DEF SignWithParams, Sign
<1>4. verdict' = Nothing
  BY <1>1 DEF IInv, VerdictInv
<1>5. message' = [params |-> message'.params, sign |-> message'.sign]
  BY <1>1 DEF SignWithParams
<1>6. QED
  BY <1>2, <1>3, <1>4, <1>5, SignedOnce DEF IInv, SignInv, VerdictInv

LEMMA AlterStep ==
    ASSUME IInv, NEW name, NEW value, Alter(name, value)
    PROVE  IInv'
<1>1. /\ verdict = Nothing /\ UNCHANGED <<signed, verdict>>
      /\ message' = [message EXCEPT !.params = Insert(Without(@, name), name, value)]
  BY DEF Alter, OnItsWay
<1>2. message' = [params |-> message'.params, sign |-> message.sign]
  BY <1>1 DEF IInv, SignInv
<1>3. QED
  BY <1>1, <1>2 DEF IInv, SignInv, VerdictInv

LEMMA AlterSignStep ==
    ASSUME IInv, NEW form, AlterSign(form)
    PROVE  IInv'
<1>1. /\ message.sign.form = "lower"
      /\ verdict = Nothing /\ UNCHANGED <<signed, verdict>>
      /\ message' = [message EXCEPT !.sign = IF form = "none" THEN NoSign ELSE [@ EXCEPT !.form = form]]
  BY DEF AlterSign, OnItsWay
<1>2. /\ message' = [params |-> message.params, sign |-> message'.sign]
      /\ message'.sign = IF form = "none" THEN NoSign ELSE [message.sign EXCEPT !.form = form]
  BY <1>1 DEF IInv, SignInv
<1>3. SignInv'
  <2>1. CASE form = "none"
    BY <1>1, <1>2, <2>1 DEF IInv, SignInv
  <2>2. CASE form # "none"
    <3>1. message.sign # NoSign
      BY <1>1, NoDigest
    <3>2. PICK f : message.sign = [key |-> signed.key, payload |-> SignPayload(signed.params), form |-> f]
      BY <3>1 DEF IInv, SignInv
    <3>3. message'.sign = [key |-> signed.key, payload |-> SignPayload(signed.params), form |-> form]
      BY <1>2, <2>2, <3>2
    <3>4. QED
      BY <1>1, <1>2, <3>3 DEF IInv, SignInv
  <2>3. QED
    BY <2>1, <2>2
<1>4. QED
  BY <1>1, <1>3 DEF IInv, VerdictInv

LEMMA NextIInv == IInv /\ [Next]_vars => IInv'
<1> SUFFICES ASSUME IInv, [Next]_vars PROVE IInv'
  OBVIOUS
<1>1. ASSUME UNCHANGED notifyVars PROVE IInv'
  BY <1>1 DEF notifyVars, IInv, SignInv, VerdictInv
<1>2. ASSUME NEW key, NEW variation, Inform(key, variation) PROVE IInv'
  BY <1>2, EmitStep DEF Inform
<1>3. ASSUME NEW name, NEW value, Alter(name, value) PROVE IInv'
  BY <1>3, AlterStep
<1>4. ASSUME NEW form, AlterSign(form) PROVE IInv'
  BY <1>4, AlterSignStep
<1>5. CASE Verify
  BY <1>5 DEF Verify, IInv, SignInv, VerdictInv
<1>6. CASE UNCHANGED vars
  BY <1>1, <1>6 DEF vars
<1>7. QED
  BY <1>1, <1>2, <1>3, <1>4, <1>5, <1>6 DEF Next

LEMMA InvariantHolds == Spec => []IInv
BY InitIInv, NextIInv, PTL DEF Spec

(***************************************************************************)
(* What a verified signature says.                                         *)
(***************************************************************************)

\* It verifies if and only if we were the ones signed for and the text of what
\* arrived is the text that was signed.
LEMMA SignatureMeans ==
    ASSUME SignInv, message.sign.form \in {"lower", "upper"}
    PROVE  Verifies(OwnKey, message.params, message.sign)
              <=> signed.key = OwnKey /\ SignPayload(message.params) = SignPayload(signed.params)
<1>1. message.sign # NoSign
  BY NoDigest
<1>2. PICK form : message.sign = [key |-> signed.key, payload |-> SignPayload(signed.params), form |-> form]
  BY <1>1 DEF SignInv
<1>3. [message.sign EXCEPT !.form = "lower"]
         = [key |-> signed.key, payload |-> SignPayload(signed.params), form |-> "lower"]
  BY <1>2
<1>4. Verifies(OwnKey, message.params, message.sign)
         <=> [key |-> signed.key, payload |-> SignPayload(signed.params), form |-> "lower"]
             = [key |-> OwnKey, payload |-> SignPayload(message.params), form |-> "lower"]
  BY <1>3 DEF Verifies, Sign
<1>5. QED
  BY <1>4

\* sign_type is the one field that is not signed.
LEMMA SignedFieldsAreSame ==
    ASSUME NEW params, NEW name, name # "sign_type"
    PROVE  Get(Signable(params), name) = Get(params, name)
BY DEF Signable, Without, Get

\* A notification without one of these fields is not sound.
LEMMA SoundFieldsArePresent ==
    ASSUME NEW params, ~ContentError(params)
    PROVE  {"pid", "trade_no", "out_trade_no", "type", "name", "money", "trade_status"}
              \subseteq DOMAIN params
<1>1. TokensOf(<<>>) = {}
  BY DEF TokensOf
<1>2. NumberOf(<<>>) # OwnPid
  BY OwnPidAssumption, NumbersAssumption DEF NumberOf
<1>3. MoneyOf(<<>>) \notin Moneys
  BY NumbersAssumption DEF MoneyOf, Invalid, Moneys
<1>4. ~SoundName(<<>>) /\ ~SoundStatus(<<>>)
  BY <1>1 DEF SoundName, SoundStatus
<1>5. ~SoundTradeNo(<<>>) /\ ~SoundOrderNo(<<>>) /\ ~SoundType(<<>>)
  BY DEF SoundTradeNo, SoundOrderNo, SoundType
<1>6. \A name : Get(params, name) # <<>> => name \in DOMAIN params
  BY DEF Get
<1>7. /\ NumberOf(Get(params, "pid")) = OwnPid
      /\ SoundTradeNo(Get(params, "trade_no")) /\ SoundOrderNo(Get(params, "out_trade_no"))
      /\ SoundType(Get(params, "type")) /\ SoundName(Get(params, "name"))
      /\ MoneyOf(Get(params, "money")) \in Moneys /\ SoundStatus(Get(params, "trade_status"))
  BY DEF ContentError
<1>8. QED
  BY <1>2, <1>3, <1>4, <1>5, <1>6, <1>7

ContentNames == {"pid", "trade_no", "out_trade_no", "type", "name", "money", "trade_status", "param"}

LEMMA ContentsAreSame ==
    ASSUME NEW p, NEW q, \A name \in ContentNames : Get(p, name) = Get(q, name)
    PROVE  /\ ContentError(p) <=> ContentError(q)
           /\ ~ContentError(p) => DataOf(p) = DataOf(q)
<1>1. ContentError(p) <=> ContentError(q)
  BY DEF ContentError, ContentNames
<1>2. ASSUME ~ContentError(p) PROVE DataOf(p) = DataOf(q)
  <2>1. ContentNames \ {"param"} \subseteq DOMAIN p \cap DOMAIN q
    BY <1>1, <1>2, SoundFieldsArePresent DEF ContentNames
  <2>2. \A name \in ContentNames \ {"param"} : p[name] = q[name]
    BY <2>1 DEF Get
  <2>3. Get(p, "param") = Get(q, "param")
    BY DEF ContentNames
  <2>4. QED
    BY <2>2, <2>3 DEF DataOf, ContentNames
<1>3. QED
  BY <1>1, <1>2

(***************************************************************************)
(* Verdicts.                                                               *)
(***************************************************************************)

LEMMA VerdictsAreJust ==
    ASSUME IInv, Accepted
    PROVE  /\ signed # NotSigned /\ signed.key = OwnKey
           /\ SignPayload(message.params) = SignPayload(signed.params)
           /\ ~ContentError(message.params) /\ verdict.data = DataOf(message.params)
           /\ verdict.data.pid = OwnPid
<1>1. verdict # Nothing /\ verdict = VerdictOn(message) /\ signed # NotSigned
  BY DEF IInv, VerdictInv, Accepted, Nothing
<1>2. /\ Verifies(OwnKey, message.params, message.sign)
      /\ ~ContentError(message.params)
      /\ verdict = [error |-> NoError, data |-> DataOf(message.params)]
  BY <1>1 DEF VerdictOn, Accepted, Refuse
<1>3. signed.key = OwnKey /\ SignPayload(message.params) = SignPayload(signed.params)
  BY <1>2, SignatureMeans DEF IInv, Verifies
<1>4. verdict.data.pid = OwnPid
  <2>1. NumberOf(Get(message.params, "pid")) = OwnPid
    BY <1>2 DEF ContentError
  <2>2. "pid" \in DOMAIN message.params
    BY <1>2, SoundFieldsArePresent
  <2>3. QED
    BY <1>2, <2>1, <2>2 DEF DataOf, Get
<1>5. QED
  BY <1>1, <1>2, <1>3, <1>4

LEMMA IntactVerdicts ==
    ASSUME \A params : DataOf(params) # NoData, IInv
    PROVE  IntactIsJudgedByContent
<1> SUFFICES ASSUME verdict # Nothing, Signable(message.params) = signed.params,
                    message.sign.form \in {"lower", "upper"}, SignTypeIsMd5(message.params)
             PROVE  /\ Accepted <=> signed.key = OwnKey /\ ~ContentError(signed.params)
                    /\ verdict.error = PlainError("VerifyFailed") <=> signed.key # OwnKey
  BY DEF IntactIsJudgedByContent
<1>1. verdict = VerdictOn(message)
  BY DEF IInv, VerdictInv
<1>2. Verifies(OwnKey, message.params, message.sign) <=> signed.key = OwnKey
  <2>1. SignPayload(message.params) = SignPayload(signed.params)
    BY SignedOnce
  <2>2. QED
    BY <2>1, SignatureMeans DEF IInv
<1>3. ContentError(message.params) <=> ContentError(signed.params)
  <2>1. \A name \in ContentNames : Get(message.params, name) = Get(signed.params, name)
    BY SignedFieldsAreSame DEF ContentNames
  <2>2. QED
    BY <2>1, ContentsAreSame
<1>4. message.sign.form # "none"
  OBVIOUS
<1>5. CASE signed.key # OwnKey
  <2>1. verdict = Refuse(PlainError("VerifyFailed"))
    BY <1>1, <1>2, <1>4, <1>5 DEF VerdictOn
  <2>2. QED
    BY <1>5, <2>1 DEF Refuse, Accepted
<1>6. CASE signed.key = OwnKey /\ ContentError(signed.params)
  <2>1. verdict = Refuse(PlainError("Notify"))
    BY <1>1, <1>2, <1>3, <1>4, <1>6 DEF VerdictOn
  <2>2. QED
    BY <1>6, <2>1, ErrorsDiffer DEF Refuse, Accepted
<1>7. CASE signed.key = OwnKey /\ ~ContentError(signed.params)
  <2>1. verdict = [error |-> NoError, data |-> DataOf(message.params)]
    BY <1>1, <1>2, <1>3, <1>4, <1>7 DEF VerdictOn
  <2>2. verdict.data # NoData /\ verdict.error = NoError
    BY <2>1
  <2>3. QED
    BY <1>7, <2>2, ErrorsDiffer DEF Accepted
<1>8. QED
  BY <1>5, <1>6, <1>7

\* A notification that is altered in no more than the case of its digest or of
\* sign_type is accepted or refused by what the gateway signed, provided that
\* data can be told from no data (notify.rs 259-266, signer.rs 49-57).
THEOREM IntactIsJudged ==
    ASSUME \A params : DataOf(params) # NoData
    PROVE  Spec => []IntactIsJudgedByContent
<1>1. IInv => IntactIsJudgedByContent
  BY IntactVerdicts
<1>2. QED
  BY InvariantHolds, <1>1, PTL

(***************************************************************************)
(* Types.                                                                  *)
(***************************************************************************)

Ways == {"api", "redirect", "page"}

Filled(m) == \A k \in DOMAIN m.params : m.params[k] # <<>>

RequestTypes ==
    /\ {"way", "money"} \subseteq DOMAIN request
    /\ request.way \in Ways /\ request.money \in Moneys \cup {Invalid}
    /\ stage \in {"new", "draft", "sent", "refused", "opened", "rejected"}

\* A trade is opened for what was sent, and nothing is sent after that.
SentTypes ==
    /\ Filled(sent)
    /\ sent.sign.key \in {"", Key}
    /\ DOMAIN trade \subseteq DOMAIN sent.params
    /\ stage \in {"new", "draft"} => trade = NoParams

NotifyTypes ==
    /\ DOMAIN message = {"params", "sign"}
    /\ Filled(message)
    /\ \A k \in DOMAIN signed.params : signed.params[k] # <<>>
    /\ signed.key \in {"", Key, OtherKey}
    /\ verdict.error \in Error \cup {NoError}

LEMMA InsertedIsFilled ==
    ASSUME NEW values
    PROVE  LET params == InsertAll(values, None)
           IN  \A k \in DOMAIN params : params[k] # <<>>
BY DEF InsertAll

LEMMA SignedIsFilled ==
    ASSUME NEW key, NEW params, \A k \in DOMAIN params : params[k] # <<>>
    PROVE  /\ Filled(SignWithParams(key, params))
           /\ SignWithParams(key, params).sign.key = key
BY DEF Filled, SignWithParams, Insert, Sign

LEMMA InitTypes == Init => RequestTypes /\ SentTypes /\ NotifyTypes
<1> SUFFICES ASSUME Init PROVE RequestTypes /\ SentTypes /\ NotifyTypes
  OBVIOUS
<1>1. RequestTypes
  BY DEF Init, RequestInit, Fresh, RequestTypes, Ways
<1>2. SentTypes
  BY DEF Init, RequestInit, SentTypes, Filled, NoMessage, NoParams, NoSign
<1>3. NotifyTypes
  BY DEF Init, NotifyInit, NotifyTypes, Filled, NoParams, NoSign, NotSigned, Nothing
<1>4. QED
  BY <1>1, <1>2, <1>3

LEMMA NewRequestTypes ==
    ASSUME RequestTypes, SentTypes, NEW way \in Ways, NEW no, NEW name, NEW type, NEW money,
           NewRequest(way, no, name, type, money)
    PROVE  RequestTypes' /\ SentTypes'
<1>1. /\ money \in Moneys /\ stage = "new" /\ stage' = "draft" /\ UNCHANGED <<sent, trade>>
      /\ request' = Fresh(way, no, name, type, money)
  BY DEF NewRequest
<1>2. RequestTypes'
  BY <1>1 DEF RequestTypes, Fresh
<1>3. SentTypes'
  BY <1>1 DEF SentTypes, Filled
<1>4. QED
  BY <1>2, <1>3

LEMMA SetOptionTypes ==
    ASSUME RequestTypes, SentTypes, NEW field \in OptionsOf(request.way), NEW value,
           SetOption(field, value)
    PROVE  RequestTypes' /\ SentTypes'
<1>1. request' = [request EXCEPT ![field] = value] /\ UNCHANGED <<stage, sent, trade>>
  BY DEF SetOption
<1>2. field \notin {"way", "money"}
  BY DEF OptionsOf
<1>3. RequestTypes'
  BY <1>1, <1>2 DEF RequestTypes
<1>4. SentTypes'
  BY <1>1 DEF SentTypes, Filled
<1>5. QED
  BY <1>3, <1>4

LEMMA SendTypes ==
    ASSUME RequestTypes, SentTypes, SendApi \/ SendForm
    PROVE  RequestTypes' /\ SentTypes'
<1>1. /\ stage = "draft" /\ stage' \in {"sent", "refused"} /\ UNCHANGED <<request, trade>>
      /\ \/ UNCHANGED sent
         \/ \E values : sent' = SignWithParams(Key, InsertAll(values, None))
  BY DEF SendApi, SendForm, SignAndSend
<1>2. Filled(sent)' /\ sent'.sign.key \in {"", Key}
  <2>1. CASE UNCHANGED sent
    BY <2>1 DEF SentTypes, Filled
  <2>2. ASSUME NEW values, sent' = SignWithParams(Key, InsertAll(values, None))
        PROVE  Filled(sent)' /\ sent'.sign.key = Key
    BY <2>2, InsertedIsFilled, SignedIsFilled DEF Filled
  <2>3. QED
    BY <1>1, <2>1, <2>2
<1>3. RequestTypes'
  BY <1>1 DEF RequestTypes
<1>4. SentTypes'
  BY <1>1, <1>2 DEF SentTypes, NoParams
<1>5. QED
  BY <1>3, <1>4

LEMMA GatewayReceivesTypes ==
    ASSUME RequestTypes, SentTypes, GatewayReceives
    PROVE  RequestTypes' /\ SentTypes'
<1>1. /\ stage' \in {"opened", "rejected"} /\ UNCHANGED <<request, sent>>
      /\ trade' = trade \/ trade' = Carried(sent.params, request.way)
  BY DEF GatewayReceives
<1>2. DOMAIN Carried(sent.params, request.way) = DOMAIN sent.params
  BY DEF Carried
<1>3. RequestTypes'
  BY <1>1 DEF RequestTypes
<1>4. SentTypes'
  BY <1>1, <1>2 DEF SentTypes, Filled
<1>5. QED
  BY <1>3, <1>4

LEMMA RequestNextTypes ==
    ASSUME RequestTypes, SentTypes, [RequestNext]_requestVars
    PROVE  RequestTypes' /\ SentTypes'
<1>1. CASE UNCHANGED requestVars
  BY <1>1 DEF requestVars, RequestTypes, SentTypes, Filled
<1>2. QED
  BY <1>1, NewRequestTypes, SetOptionTypes, SendTypes, GatewayReceivesTypes DEF RequestNext, Ways

LEMMA InformTypes ==
    ASSUME NotifyTypes, NEW key \in {Key, OtherKey}, NEW variation, Inform(key, variation)
    PROVE  NotifyTypes'
<1>1. PICK values : Emit(key, InsertAll(values, None))
  BY DEF Inform
<1>2. /\ UNCHANGED verdict /\ signed'.key = key
      /\ message' = SignWithParams(key, InsertAll(values, None))
      /\ signed'.params = Signable(InsertAll(values, None))
  BY <1>1 DEF Emit
<1>3. Filled(message)'
  BY <1>2, InsertedIsFilled, SignedIsFilled DEF Filled
<1>4. \A k \in DOMAIN signed'.params : signed'.params[k] # <<>>
  <2>1. \A k \in DOMAIN InsertAll(values, None) : InsertAll(values, None)[k] # <<>>
    BY InsertedIsFilled
  <2>2. QED
    BY <1>2, <2>1 DEF Signable, Without
<1>5. DOMAIN message' = {"params", "sign"}
  BY <1>2 DEF SignWithParams
<1>6. QED
  BY <1>2, <1>3, <1>4, <1>5 DEF NotifyTypes

LEMMA AlterTypes ==
    ASSUME NotifyTypes, NEW name, NEW value, Alter(name, value)
    PROVE  NotifyTypes'
<1>1. /\ UNCHANGED <<signed, verdict>>
      /\ message' = [message EXCEPT !.params = Insert(Without(@, name), name, value)]
  BY DEF Alter
<1>2. message'.params = Insert(Without(message.params, name), name, value)
  BY <1>1 DEF NotifyTypes
<1>3. DOMAIN message' = {"params", "sign"}
  BY <1>1 DEF NotifyTypes
<1>4. \A k \in DOMAIN message'.params : message'.params[k] # <<>>
  <2> DEFINE kept == Without(message.params, name)
  <2>1. \A k \in DOMAIN kept : kept[k] # <<>>
    BY DEF NotifyTypes, Filled, Without
  <2> HIDE DEF kept
  <2>2. \A k \in DOMAIN Insert(kept, name, value) : Insert(kept, name, value)[k] # <<>>
    BY <2>1 DEF Insert
  <2>3. QED
    BY <1>2, <2>2 DEF kept
<1>5. QED
  BY <1>1, <1>3, <1>4 DEF NotifyTypes, Filled

LEMMA AlterSignTypes ==
    ASSUME NotifyTypes, NEW form, AlterSign(form)
    PROVE  NotifyTypes'
<1>1. UNCHANGED <<signed, verdict>> /\ message'.params = message.params /\ DOMAIN message' = DOMAIN message
  BY DEF AlterSign, NotifyTypes
<1>2. QED
  BY <1>1 DEF NotifyTypes, Filled

LEMMA VerifyTypes ==
    ASSUME NotifyTypes, Verify
    PROVE  NotifyTypes'
<1>1. UNCHANGED <<signed, message>> /\ verdict' = VerdictOn(message)
  BY DEF Verify
<1>2. PlainError("Notify") \in Error /\ PlainError("VerifyFailed") \in Error
  BY DEF PlainError, Error, Variants, TransportErrorKinds
<1>3. VerdictOn(message).error \in Error \cup {NoError}
  BY <1>2 DEF VerdictOn, Refuse
<1>4. QED
  BY <1>1, <1>3 DEF NotifyTypes, Filled

LEMMA NextTypes ==
    RequestTypes /\ SentTypes /\ NotifyTypes /\ [Next]_vars => RequestTypes' /\ SentTypes' /\ NotifyTypes'
<1> SUFFICES ASSUME RequestTypes, SentTypes, NotifyTypes, [Next]_vars
             PROVE  RequestTypes' /\ SentTypes' /\ NotifyTypes'
  OBVIOUS
<1>1. [RequestNext]_requestVars
  BY DEF Next, vars, Inform
<1>2. RequestTypes' /\ SentTypes'
  BY <1>1, RequestNextTypes
<1>3. ASSUME UNCHANGED notifyVars PROVE NotifyTypes'
  BY <1>3 DEF notifyVars, NotifyTypes, Filled
<1>4. NotifyTypes'
  BY <1>3, InformTypes, AlterTypes, AlterSignTypes, VerifyTypes DEF Next, vars
<1>5. QED
  BY <1>2, <1>4

\* The variables keep their types; in particular no parameter of a message is
\* empty.
THEOREM TypeCorrect == Spec => []TypeOK
<1>1. RequestTypes /\ SentTypes /\ NotifyTypes => TypeOK
  BY DEF RequestTypes, SentTypes, NotifyTypes, Filled, TypeOK, Ways
<1>2. QED
  BY <1>1, InitTypes, NextTypes, PTL DEF Spec

(***************************************************************************)
(* From the request to the trade.                                          *)
(***************************************************************************)

Options == {"notify_url", "return_url", "clientip", "device", "param", "sitename"}

RequestInv ==
    stage # "new" =>
        /\ {"way", "out_trade_no", "name", "type", "money"} \cup Options \subseteq DOMAIN request
        /\ request.out_trade_no \in Texts /\ request.name \in Texts
        /\ request.type \in Texts \cup {None} /\ (request.way = "api" => request.type # None)
        /\ request.money \in Moneys \cap DOMAIN EpayText
        /\ \A field \in Options : request[field] \in Texts \cup {None}
        /\ request.notify_url \in Texts \ {<<>>}

Validated == IF request.way = "api" THEN ValidateApi ELSE ValidateForm
Values == IF request.way = "api" THEN ApiValues ELSE FormValues

\* What is sent is a request that passed its checks, whole and signed.
SentInv ==
    stage \in {"sent", "opened", "rejected"} =>
        Validated /\ sent = SignWithParams(Key, InsertAll(Values, None))

\* A trade is opened with just what was sent, and only then there are
\* notifications.
OpenedInv ==
    /\ stage = "opened" => trade = sent.params
    /\ signed # NotSigned => stage = "opened"

\* What is signed and what arrives are texts under names.
NotifyTexts ==
    /\ \A k \in DOMAIN message.params : message.params[k] \in Texts
    /\ \A k \in DOMAIN signed.params : signed.params[k] \in Texts

TripInv ==
    /\ RequestTypes /\ SentTypes /\ NotifyTypes
    /\ RequestInv /\ SentInv /\ OpenedInv /\ NotifyTexts /\ RequestsAreUnderstood

\* Escaping and a browser's decoding give back every text, also one that looks
\* escaped already, and normalizing leaves no line feed ...
LEMMA RoundTrip ==
    ASSUME NEW S, NEW text \in Seq(S)
    PROVE  Decode(Attribute(HtmlEscape(text))) = text
<1> DEFINE html == HtmlEscape(text)
<1>1. /\ CharOf["amp;"] = "&" /\ CharOf["quot;"] = "\"" /\ DOMAIN CharOf = {"amp;", "quot;"}
  BY DEF CharOf
<1>2. \A char \in {"&", "\""} : EntityOf(char) \in DOMAIN CharOf /\ CharOf[EntityOf(char)] = char
  BY <1>1 DEF EntityOf
<1>3. DOMAIN text = 1 .. Len(text) /\ Len(text) \in Nat /\ text = [i \in DOMAIN text |-> text[i]]
  OBVIOUS
<1>4. /\ DOMAIN html = DOMAIN text
      /\ \A i \in DOMAIN text :
            html[i] = IF text[i] \in {"&", "\""} THEN <<"&", EntityOf(text[i])>> ELSE <<text[i]>>
  BY DEF HtmlEscape
<1> HIDE DEF html
<1>5. \A x, y : /\ Len(<<x, y>>) = 2 /\ <<x, y>>[2] = y /\ Len(<<x>>) = 1 /\ <<x>>[1] = x
  OBVIOUS
<1>6. \A i \in DOMAIN html : html[i] # <<"\"">> /\ html[i] # <<"&">>
  <2> SUFFICES ASSUME NEW i \in DOMAIN html PROVE html[i] # <<"\"">> /\ html[i] # <<"&">>
    OBVIOUS
  <2>1. CASE text[i] \in {"&", "\""}
    <3>1. Len(html[i]) = 2
      BY <1>4, <1>5, <2>1
    <3>2. \A x : html[i] # <<x>>
      <4> SUFFICES ASSUME NEW x, html[i] = <<x>> PROVE FALSE
        OBVIOUS
      <4>1. Len(html[i]) = 1
        BY <1>5
      <4>2. QED
        BY <3>1, <4>1
    <3>3. QED
      BY <3>2, Zenon
  <2>2. CASE text[i] \notin {"&", "\""}
    <3>1. html[i][1] = text[i]
      BY <1>4, <1>5, <2>2
    <3>2. QED
      BY <3>1, <1>5, <2>2
  <2>3. QED
    BY <2>1, <2>2
<1>7. Attribute(html) = html
  BY <1>6 DEF Attribute
<1>8. \A i : ~Joined(html, i)
  BY <1>6 DEF Joined
<1>9. Decode(html) = [i \in DOMAIN text |-> text[i]]
  <2>1. ASSUME NEW i \in DOMAIN text
        PROVE  (IF Len(html[i]) = 2 THEN CharOf[html[i][2]]
                ELSE IF Joined(html, i) THEN CharOf[html[i + 1][1]]
                ELSE IF Joined(html, i - 1) THEN ""
                ELSE html[i][1]) = text[i]
    <3>1. CASE text[i] \in {"&", "\""}
      <4>1. html[i] = <<"&", EntityOf(text[i])>>
        BY <1>4, <3>1
      <4>2. Len(html[i]) = 2 /\ html[i][2] = EntityOf(text[i])
        BY <4>1
      <4>3. QED
        BY <1>2, <3>1, <4>2
    <3>2. CASE text[i] \notin {"&", "\""}
      <4>1. Len(html[i]) = 1 /\ html[i][1] = text[i]
        BY <1>4, <1>5, <3>2
      <4>2. ~Joined(html, i) /\ ~Joined(html, i - 1)
        BY <1>8
      <4>3. Len(html[i]) # 2
        BY <4>1
      <4>4. QED
        BY <4>1, <4>2, <4>3
    <3>3. QED
      BY <3>1, <3>2
  <2>2. QED
    BY <1>4, <2>1 DEF Decode
<1>10. QED
  BY <1>3, <1>7, <1>9 DEF html

\* ... nor changes a text without.
LEMMA Normalized ==
    ASSUME NEW S, NEW text \in Seq(S)
    PROVE  /\ Normalize(text) \in Seq((S \cup {"CRLF"}) \ {"LF"})
           /\ "LF" \notin Tokens(text) => Normalize(text) = text
<1>1. DOMAIN text = 1 .. Len(text) /\ Len(text) \in Nat /\ text = [i \in DOMAIN text |-> text[i]]
  OBVIOUS
<1>2. \A i \in DOMAIN text : text[i] \in S
  BY <1>1
<1>3. Normalize(text) \in Seq((S \cup {"CRLF"}) \ {"LF"})
  BY <1>1, <1>2 DEF Normalize
<1>4. "LF" \notin Tokens(text) => Normalize(text) = text
  BY <1>1 DEF Normalize, Tokens
<1>5. QED
  BY <1>3, <1>4

\* Signing leaves out sign_type, the one parameter it adds.
LEMMA SignTypeIsStripped ==
    ASSUME NEW params, NEW value, value # <<>>
    PROVE  SignPayload(Insert(params, "sign_type", value)) = SignPayload(params)
<1>1. Signable(Insert(params, "sign_type", value)) = Signable(params)
  BY DEF Signable, Insert, Without
<1>2. QED
  BY <1>1, Zenon DEF SignPayload

LEMMA TextFacts ==
    /\ None \notin Texts /\ <<>> \in Texts
    /\ \A text : Plain(text) <=> text \in Texts /\ text # <<>> /\ "LF" \notin Tokens(text)
    /\ <<"ip">> \in Texts /\ <<"ip">> # <<>>
BY AlphabetAssumption DEF Texts, Plain

\* The fields that are set on every request, whichever way it goes.
CommonAre(values) ==
    /\ values.pid = Pid /\ values.money = EpayText[request.money]
    /\ \A field \in {"out_trade_no", "notify_url", "return_url", "name", "type", "param"} :
          values[field] = request[field]

LEMMA ValuesOfWays ==
    /\ request.way = "api" =>
          /\ DOMAIN Values = {"pid", "out_trade_no", "notify_url", "return_url", "name", "money", "type", "param",
                              "clientip", "device"}
          /\ CommonAre(Values) /\ Values.device = request.device
          /\ Values.clientip = IF request.clientip = None THEN None ELSE Trim(request.clientip)
    /\ request.way # "api" =>
          /\ DOMAIN Values = {"pid", "out_trade_no", "notify_url", "return_url", "name", "money", "type", "param", "sitename"}
          /\ CommonAre(Values) /\ Values.sitename = request.sitename
<1> DEFINE common == [out_trade_no |-> request.out_trade_no, notify_url |-> request.notify_url,
                      return_url |-> request.return_url,
                      name |-> request.name, money |-> EpayText[request.money],
                      type |-> request.type, param |-> request.param]
<1>1. /\ DOMAIN CommonValues = {"pid", "out_trade_no", "notify_url", "return_url", "name", "money", "type", "param"}
      /\ CommonAre(CommonValues)
  <2>1. /\ DOMAIN CommonValues = DOMAIN common \cup DOMAIN BaseValues
        /\ \A k \in DOMAIN common : CommonValues[k] = common[k]
        /\ \A k \in DOMAIN BaseValues \ DOMAIN common : CommonValues[k] = BaseValues[k]
    BY DEF CommonValues, Over
  <2>2. DOMAIN common = {"out_trade_no", "notify_url", "return_url", "name", "money", "type", "param"} /\ DOMAIN BaseValues = {"pid"}
        /\ BaseValues.pid = Pid
    BY DEF BaseValues
  <2>3. QED
    BY <2>1, <2>2 DEF CommonAre
<1>2. ASSUME request.way = "api"
      PROVE  /\ DOMAIN Values = {"pid", "out_trade_no", "notify_url", "return_url", "name", "money", "type", "param",
                                 "clientip", "device"}
             /\ CommonAre(Values) /\ Values.device = request.device
             /\ Values.clientip = IF request.clientip = None THEN None ELSE Trim(request.clientip)
  <2> DEFINE own == [clientip |-> IF request.clientip = None THEN None ELSE Trim(request.clientip),
                     device |-> request.device]
  <2>1. /\ DOMAIN Values = DOMAIN own \cup DOMAIN CommonValues
        /\ \A k \in DOMAIN own : Values[k] = own[k]
        /\ \A k \in DOMAIN CommonValues \ DOMAIN own : Values[k] = CommonValues[k]
    BY <1>2 DEF Values, ApiValues, Over
  <2>2. DOMAIN own = {"clientip", "device"}
    OBVIOUS
  <2>3. QED
    BY <1>1, <2>1, <2>2 DEF CommonAre
<1>3. ASSUME request.way # "api"
      PROVE  /\ DOMAIN Values = {"pid", "out_trade_no", "notify_url", "return_url", "name", "money", "type", "param", "sitename"}
             /\ CommonAre(Values) /\ Values.sitename = request.sitename
  <2> DEFINE own == [sitename |-> request.sitename]
  <2>1. /\ DOMAIN Values = DOMAIN own \cup DOMAIN CommonValues
        /\ \A k \in DOMAIN own : Values[k] = own[k]
        /\ \A k \in DOMAIN CommonValues \ DOMAIN own : Values[k] = CommonValues[k]
    BY <1>3 DEF Values, FormValues, Over
  <2>2. DOMAIN own = {"sitename"}
    OBVIOUS
  <2>3. QED
    BY <1>1, <2>1, <2>2 DEF CommonAre
<1>4. QED
  BY <1>2, <1>3

\* What passed the checks has every field the gateway requires, and the one text
\* of a page that may hold a line feed is its param.
LEMMA ValidValues ==
    ASSUME RequestTypes, RequestInv, stage # "new", Validated
    PROVE  /\ \A k \in DOMAIN Values : Values[k] \in Texts \cup {None}
           /\ \A k \in Required(request.way) : k \in DOMAIN Values /\ Values[k] \in Texts \ {<<>>}
           /\ {"pid", "out_trade_no", "name", "money", "param"} \subseteq DOMAIN Values
           /\ DOMAIN Values \subseteq NameSet
           /\ Values.name = request.name /\ Values.param = request.param
           /\ request.way = "page" /\ ~BrokenByBrowser =>
                 \A k \in DOMAIN Values : Values[k] # None => "LF" \notin Tokens(Values[k])
<1>1. /\ request.out_trade_no \in Texts /\ request.name \in Texts
      /\ request.type \in Texts \cup {None} /\ (request.way = "api" => request.type # None)
      /\ request.money \in DOMAIN EpayText
      /\ \A field \in Options : request[field] \in Texts \cup {None}
      /\ request.notify_url \in Texts \ {<<>>}
  BY DEF RequestInv
<1>2. Plain(Pid) /\ Plain(EpayText[request.money])
  BY <1>1, PidAssumption, MoneyTextsAssumption
<1>3. ValidOrderNo(request.out_trade_no) /\ ValidName(request.name)
  BY DEF Validated, ValidateApi, ValidateForm
<1>0. DOMAIN Values \subseteq NameSet
  BY ValuesOfWays, RequestNamesAssumption
<1>4. Tokens(<<>>) = {}
  BY DEF Tokens
<1>5. request.out_trade_no # <<>> /\ request.name # <<>>
  BY <1>3, <1>4 DEF ValidOrderNo, ValidName, IsBlank
<1>6. "LF" \notin Tokens(request.out_trade_no) /\ "LF" \notin Tokens(request.name)
  BY <1>3 DEF ValidOrderNo, ValidName, HasControl
<1>7. CASE request.way = "api"
  <2>1. IsIdentifier(request.type) /\ ValidAddress(request.clientip)
    BY <1>7 DEF Validated, ValidateApi
  <2>2. request.type \in Texts \ {<<>>}
    BY <1>1, <1>7, <2>1 DEF IsIdentifier
  <2>3. Values.clientip = <<"ip">>
    BY <1>7, <2>1, ValuesOfWays DEF ValidAddress
  <2>4. \A k \in {"pid", "money", "clientip", "type", "out_trade_no", "notify_url", "name"} :
          Values[k] \in Texts \ {<<>>}
    BY <1>1, <1>2, <1>5, <1>7, <2>2, <2>3, TextFacts, ValuesOfWays DEF CommonAre
  <2>5. \A k \in {"return_url", "param", "device"} : Values[k] \in Texts \cup {None}
    BY <1>1, <1>7, ValuesOfWays DEF CommonAre, Options
  <2>6. QED
    BY <1>0, <1>7, <2>4, <2>5, ValuesOfWays DEF Required, CommonAre
<1>8. CASE request.way # "api"
  <2>1. \A k \in {"pid", "money", "out_trade_no", "notify_url", "name"} : Values[k] \in Texts \ {<<>>}
    BY <1>1, <1>2, <1>5, <1>8, TextFacts, ValuesOfWays DEF CommonAre
  <2>2. \A k \in {"return_url", "param", "sitename", "type"} : Values[k] \in Texts \cup {None}
    BY <1>1, <1>8, ValuesOfWays DEF CommonAre, Options
  <2>3. ASSUME ~BrokenByBrowser, request.way = "page", NEW k \in DOMAIN Values, Values[k] # None
        PROVE  "LF" \notin Tokens(Values[k])
    <3>1. k \in {"pid", "money"} => "LF" \notin Tokens(Values[k])
      BY <1>2, <1>8, TextFacts, ValuesOfWays DEF CommonAre
    <3>2. k \in {"out_trade_no", "name"} => "LF" \notin Tokens(Values[k])
      BY <1>1, <1>6, <1>8, <2>3, ValuesOfWays DEF CommonAre
    <3>3. k \in {"param", "notify_url", "return_url"} => "LF" \notin Tokens(Values[k])
      BY <1>8, <2>3, ValuesOfWays DEF CommonAre, BrokenByBrowser, HasControl
    <3>4. k \in {"type", "sitename"} => "LF" \notin Tokens(Values[k])
      <4>1. /\ Optional(request.type, IsIdentifier(request.type))
            /\ Optional(request.sitename, ~TooLong(request.sitename) /\ ~HasControl(request.sitename))
        BY <1>8 DEF Validated, ValidateForm
      <4>2. k = "type" => "LF" \notin Tokens(Values[k])
        BY <1>8, <2>3, <4>1, ValuesOfWays DEF CommonAre, Optional, IsIdentifier
      <4>3. k = "sitename" => "LF" \notin Tokens(Values[k])
        BY <1>8, <2>3, <4>1, ValuesOfWays DEF Optional, HasControl
      <4>4. QED
        BY <4>2, <4>3
    <3>5. QED
      BY <1>8, <3>1, <3>2, <3>3, <3>4, ValuesOfWays
  <2>4. QED
    BY <1>0, <1>8, <2>1, <2>2, <2>3, ValuesOfWays DEF Required, CommonAre
<1>9. QED
  BY <1>7, <1>8

\* What is sent, field by field.
LEMMA SentFields ==
    ASSUME RequestTypes, RequestInv, SentInv, stage \in {"sent", "opened", "rejected"}
    PROVE  /\ sent.sign = Sign(Key, sent.params)
           /\ sent.params = [k \in DOMAIN sent.params |-> sent.params[k]]
           /\ \A k \in DOMAIN sent.params : sent.params[k] \in Seq(Alphabet) \ {<<>>}
           /\ \A k \in Required(request.way) : k \in DOMAIN sent.params
           /\ DOMAIN sent.params \subseteq NameSet
           /\ sent.params["sign_type"] = <<"MD5">>
           /\ \A k \in {"name", "param"} :
                 /\ k \in DOMAIN sent.params <=> Values[k] \notin {None, <<>>}
                 /\ k \in DOMAIN sent.params => sent.params[k] = Values[k]
           /\ request.way = "page" /\ ~BrokenByBrowser =>
                 \A k \in DOMAIN sent.params : "LF" \notin Tokens(sent.params[k])
<1> DEFINE params == InsertAll(Values, None)
<1>1. Validated /\ sent = SignWithParams(Key, params) /\ stage # "new"
  BY DEF SentInv
<1>2. <<"MD5">> # <<>> /\ <<"MD5">> \in Seq(Alphabet) /\ "LF" \notin Tokens(<<"MD5">>)
  <2>1. "MD5" \in Alphabet
    BY AlphabetAssumption
  <2>2. Tokens(<<"MD5">>) = {"MD5"}
    BY DEF Tokens
  <2>3. QED
    BY <2>1, <2>2
<1>3. /\ DOMAIN params = {k \in DOMAIN Values : Values[k] # None /\ Values[k] # <<>>}
      /\ \A k \in DOMAIN params : params[k] = Values[k]
  BY DEF InsertAll
<1>4. \A k \in DOMAIN params : params[k] \in Texts \ {<<>>}
  BY <1>1, <1>3, ValidValues
<1> HIDE DEF params
<1>5. /\ DOMAIN sent.params = DOMAIN params \cup {"sign_type"}
      /\ sent.params = [k \in DOMAIN params \cup {"sign_type"} |-> IF k = "sign_type" THEN <<"MD5">> ELSE params[k]]
      /\ \A k \in DOMAIN sent.params : sent.params[k] = IF k = "sign_type" THEN <<"MD5">> ELSE params[k]
  BY <1>1, <1>2 DEF SignWithParams, Insert
<1>6. sent.sign = Sign(Key, sent.params)
  <2>1. sent.params = Insert(params, "sign_type", <<"MD5">>) /\ sent.sign = Sign(Key, params)
    BY <1>1 DEF SignWithParams
  <2>2. SignPayload(sent.params) = SignPayload(params)
    BY <1>2, <2>1, SignTypeIsStripped
  <2>3. QED
    BY <2>1, <2>2 DEF Sign
<1>7. \A k \in DOMAIN sent.params : sent.params[k] \in Seq(Alphabet) \ {<<>>}
  BY <1>2, <1>4, <1>5 DEF Texts
<1>8. \A k \in Required(request.way) : k \in DOMAIN sent.params
  BY <1>1, <1>3, <1>5, TextFacts, ValidValues
<1>9. \A k \in {"name", "param"} :
          /\ k \in DOMAIN sent.params <=> Values[k] \notin {None, <<>>}
          /\ k \in DOMAIN sent.params => sent.params[k] = Values[k]
  BY <1>1, <1>3, <1>5, ValidValues
<1>10. ASSUME request.way = "page", ~BrokenByBrowser, NEW k \in DOMAIN sent.params
       PROVE  "LF" \notin Tokens(sent.params[k])
  BY <1>1, <1>2, <1>3, <1>5, <1>10, ValidValues
<1>11. DOMAIN sent.params \subseteq NameSet /\ sent.params["sign_type"] = <<"MD5">>
  BY <1>1, <1>3, <1>5, ValidValues, RequestNamesAssumption
<1>12. QED
  BY <1>5, <1>6, <1>7, <1>8, <1>9, <1>10, <1>11

\* What has no line feed arrives as it was sent.
LEMMA CarriedWhole ==
    ASSUME RequestTypes, RequestInv, SentInv, stage \in {"sent", "opened", "rejected"},
           request.way = "page" => \A k \in DOMAIN sent.params : "LF" \notin Tokens(sent.params[k])
    PROVE  Carried(sent.params, request.way) = sent.params
<1>1. CASE request.way # "page"
  BY <1>1 DEF Carried
<1>2. CASE request.way = "page"
  <2>1. \A k \in DOMAIN sent.params : Normalize(Decode(Attribute(HtmlEscape(sent.params[k])))) = sent.params[k]
    <3> TAKE k \in DOMAIN sent.params
    <3>1. sent.params[k] \in Seq(Alphabet)
      BY SentFields
    <3>2. Decode(Attribute(HtmlEscape(sent.params[k]))) = sent.params[k]
      BY <3>1, RoundTrip
    <3>3. Normalize(sent.params[k]) = sent.params[k]
      BY <1>2, <3>1, Normalized
    <3>4. QED
      BY <3>2, <3>3
  <2>2. sent.params = [k \in DOMAIN sent.params |-> sent.params[k]]
    BY SentFields
  <2>3. QED
    BY <1>2, <2>1, <2>2 DEF Carried
<1>3. QED
  BY <1>1, <1>2

\* A page that the gateway can verify had no line feed: there is none in what the
\* browser submits, so there is none in the text that was signed.
LEMMA VerifiedIsWhole ==
    ASSUME RequestTypes, RequestInv, SentInv, stage = "sent",
           NEW filled, filled \subseteq DOMAIN Carried(sent.params, request.way),
           Verifies(Key, [k \in filled |-> Carried(sent.params, request.way)[k]], sent.sign)
    PROVE  Carried(sent.params, request.way) = sent.params
<1> DEFINE received == Carried(sent.params, request.way)
           arrived == [k \in filled |-> received[k]]
           S == Alphabet \cup NameSet \cup {"&", "="}
           R == (S \cup {"CRLF"}) \ {"LF"}
<1>1. SUFFICES ASSUME request.way = "page"
               PROVE  \A k \in DOMAIN sent.params : "LF" \notin Tokens(sent.params[k])
  BY CarriedWhole
<1>2. \A k \in DOMAIN sent.params : sent.params[k] \in Seq(S)
  <2>1. \A k \in DOMAIN sent.params : sent.params[k] \in Seq(Alphabet)
    BY SentFields
  <2>2. QED
    BY <2>1
<1>3. NameSet \cup {"&", "="} \subseteq S /\ NameSet \cup {"&", "="} \subseteq R
  BY NamesAssumption
<1>4. DOMAIN received = DOMAIN sent.params /\ \A k \in DOMAIN received : received[k] \in Seq(R)
  <2>1. /\ DOMAIN received = DOMAIN sent.params
        /\ \A k \in DOMAIN sent.params :
              received[k] = Normalize(Decode(Attribute(HtmlEscape(sent.params[k]))))
    BY <1>1 DEF Carried
  <2> HIDE DEF received, R, S
  <2>2. ASSUME NEW k \in DOMAIN sent.params PROVE received[k] \in Seq(R)
    <3>1. Decode(Attribute(HtmlEscape(sent.params[k]))) = sent.params[k]
      BY <1>2, RoundTrip
    <3>2. Normalize(sent.params[k]) \in Seq(R)
      BY <1>2, Normalized DEF R
    <3>3. QED
      BY <2>1, <3>1, <3>2
  <2>3. QED
    BY <2>1, <2>2
<1>5. SignPayload(arrived) = SignPayload(sent.params)
  <2>1. sent.sign = Sign(Key, sent.params)
    BY SentFields
  <2>2. [sent.sign EXCEPT !.form = "lower"] = Sign(Key, arrived)
    BY DEF Verifies
  <2>3. QED
    BY <2>1, <2>2 DEF Sign
<1>6. TextsOver(R, Signable(arrived)) /\ TextsOver(S, Signable(sent.params))
  <2>1. DOMAIN Signable(arrived) \subseteq filled /\ \A k \in DOMAIN Signable(arrived) : Signable(arrived)[k] = received[k]
    BY DEF Signable, Without
  <2>2. /\ DOMAIN Signable(sent.params) \subseteq DOMAIN sent.params
        /\ \A k \in DOMAIN Signable(sent.params) : Signable(sent.params)[k] = sent.params[k]
    BY DEF Signable, Without
  <2>3. filled \subseteq DOMAIN received
    OBVIOUS
  <2> HIDE DEF received, arrived, R, S
  <2>4. QED
    BY <1>2, <1>3, <1>4, <2>1, <2>2, <2>3 DEF TextsOver
<1> HIDE DEF received, arrived, R, S
<1>7. Joining(Signable(sent.params))[Len(Names)] \in Seq(R)
  <2>1. Len(Names) \in 0 .. Len(Names)
    BY NamesInOrder
  <2>2. Joining(Signable(arrived))[Len(Names)] \in Seq(R)
    BY <1>6, <2>1, JoiningIsText, Zenon
  <2>3. QED
    BY <1>5, <2>2 DEF SignPayload
<1>8. ASSUME NEW k \in DOMAIN sent.params, k # "sign_type" PROVE "LF" \notin Tokens(sent.params[k])
  <2>1. k \in NameSet \cap DOMAIN Signable(sent.params) /\ Signable(sent.params)[k] = sent.params[k]
    BY <1>8, SentFields DEF Signable, Without
  <2>2. sent.params[k] \in Seq(R)
    BY <1>6, <1>7, <2>1, ValuesAreOfTheText
  <2>3. "LF" \notin R
    BY DEF R
  <2>4. QED
    BY <2>2, <2>3 DEF Tokens
<1>9. "LF" \notin Tokens(sent.params["sign_type"])
  BY SentFields DEF Tokens
<1>10. QED
  BY <1>8, <1>9

LEMMA InitTrip == Init => TripInv
<1> SUFFICES ASSUME Init PROVE TripInv
  OBVIOUS
<1>1. stage = "new" /\ signed = NotSigned
  BY DEF Init, RequestInit, NotifyInit
<1>2. NotifyTexts
  BY DEF Init, NotifyInit, NotifyTexts, NoParams, NotSigned
<1>3. QED
  BY <1>1, <1>2, InitTypes DEF TripInv, RequestInv, SentInv, OpenedInv, RequestsAreUnderstood

\* Before it is sent only the request itself changes.
LEMMA DraftStep ==
    ASSUME TripInv, stage' \in {"new", "draft", "refused"}, signed' = NotSigned, UNCHANGED notifyVars,
           RequestInv', RequestTypes', SentTypes', NotifyTypes'
    PROVE  TripInv'
<1>1. NotifyTexts'
  BY DEF TripInv, NotifyTexts, notifyVars
<1>2. QED
  BY <1>1 DEF TripInv, SentInv, OpenedInv, RequestsAreUnderstood

LEMMA NewRequestTrip ==
    ASSUME TripInv, NEW way \in Ways, NEW no \in Inputs.out_trade_no, NEW name \in Inputs.name,
           NEW type \in Inputs.type, NEW decimal \in Inputs.money, NEW money \in Constructed(decimal),
           NewRequest(way, no, name, type, money), UNCHANGED notifyVars,
           RequestTypes', SentTypes', NotifyTypes'
    PROVE  TripInv'
<1>1. /\ stage = "new" /\ money \in Moneys /\ (way = "api" => type # None) /\ stage' = "draft"
      /\ request' = Fresh(way, no, name, type, money)
  BY DEF NewRequest
<1>2. money \in DOMAIN EpayText
  BY <1>1, MoneyTextsAssumption
<1>3. /\ no \in Texts /\ name \in Texts /\ type \in Texts \cup {None}
      /\ DefaultNotifyUrl \in Texts \ {<<>>}
  BY InputsAssumption, PidAssumption, TextFacts
<1>4. RequestInv'
  BY <1>1, <1>2, <1>3 DEF RequestInv, Fresh, Options
<1>5. signed' = NotSigned
  BY <1>1 DEF TripInv, OpenedInv, notifyVars
<1>6. QED
  BY <1>1, <1>4, <1>5, DraftStep

LEMMA SetOptionTrip ==
    ASSUME TripInv, NEW field \in OptionsOf(request.way), NEW value \in Inputs[field],
           SetOption(field, value), UNCHANGED notifyVars, RequestTypes', SentTypes', NotifyTypes'
    PROVE  TripInv'
<1>1. stage = "draft" /\ stage' = "draft" /\ request' = [request EXCEPT ![field] = value]
  BY DEF SetOption
<1>2. field \in Options
  BY DEF OptionsOf, Options
<1>3. value \in Texts \cup {None} /\ (field = "notify_url" => value \in Texts \ {<<>>})
  BY <1>2, InputsAssumption DEF Options
<1>4. RequestInv'
  BY <1>1, <1>2, <1>3 DEF TripInv, RequestInv, Options
<1>5. signed' = NotSigned
  BY <1>1 DEF TripInv, OpenedInv, notifyVars
<1>6. QED
  BY <1>1, <1>4, <1>5, DraftStep

LEMMA SendTrip ==
    ASSUME TripInv, SendApi \/ SendForm, UNCHANGED notifyVars, RequestTypes', SentTypes', NotifyTypes'
    PROVE  TripInv'
<1>1. /\ stage = "draft" /\ UNCHANGED <<request, trade>>
      /\ \/ stage' = "refused"
         \/ stage' = "sent" /\ Validated /\ sent' = SignWithParams(Key, InsertAll(Values, None))
  BY DEF SendApi, SendForm, SignAndSend, Validated, Values
<1>2. RequestInv' /\ signed' = NotSigned
  BY <1>1 DEF TripInv, RequestInv, OpenedInv, notifyVars
<1>3. CASE stage' = "refused"
  BY <1>2, <1>3, DraftStep
<1>4. CASE stage' = "sent" /\ Validated /\ sent' = SignWithParams(Key, InsertAll(Values, None))
  <2>1. (Validated' <=> Validated) /\ Values' = Values
    BY <1>1 DEF Validated, ValidateApi, ValidateForm, Values, ApiValues, FormValues, CommonValues
  <2>2. SentInv'
    BY <1>4, <2>1 DEF SentInv
  <2>3. NotifyTexts'
    BY DEF TripInv, NotifyTexts, notifyVars
  <2>4. QED
    BY <1>2, <1>4, <2>2, <2>3 DEF TripInv, OpenedInv, RequestsAreUnderstood
<1>5. QED
  BY <1>1, <1>3, <1>4

LEMMA GatewayReceivesTrip ==
    ASSUME TripInv, GatewayReceives, UNCHANGED notifyVars, RequestTypes', SentTypes', NotifyTypes'
    PROVE  TripInv'
<1> DEFINE received == Carried(sent.params, request.way)
           filled == {k \in DOMAIN received : received[k] # <<>>}
           arrived == [k \in filled |-> received[k]]
<1>1. /\ stage = "sent" /\ UNCHANGED <<request, sent>>
      /\ IF Verifies(Key, arrived, sent.sign) /\ Required(request.way) \subseteq filled
         THEN stage' = "opened" /\ trade' = received
         ELSE stage' = "rejected" /\ UNCHANGED trade
  BY DEF GatewayReceives
<1>2. RequestTypes /\ RequestInv /\ SentInv
  BY DEF TripInv
<1>3. RequestInv' /\ SentInv' /\ signed' = NotSigned
  <2>1. (Validated' <=> Validated) /\ Values' = Values
    BY <1>1 DEF Validated, ValidateApi, ValidateForm, Values, ApiValues, FormValues, CommonValues
  <2>2. QED
    BY <1>1, <2>1 DEF TripInv, RequestInv, SentInv, OpenedInv, notifyVars
<1>4. BrokenByBrowser' <=> BrokenByBrowser
  BY <1>1 DEF BrokenByBrowser
<1>5. ASSUME ~BrokenByBrowser PROVE stage' = "opened" /\ trade' = sent.params
  <2>1. received = sent.params
    <3>1. request.way = "page" => \A k \in DOMAIN sent.params : "LF" \notin Tokens(sent.params[k])
      BY <1>1, <1>2, <1>5, SentFields
    <3>2. QED
      BY <1>1, <1>2, <3>1, CarriedWhole
  <2>2. filled = DOMAIN sent.params
    BY <1>1, <1>2, <2>1, SentFields
  <2>3. arrived = sent.params
    <3>1. sent.params = [k \in DOMAIN sent.params |-> sent.params[k]]
      BY <1>1, <1>2, SentFields
    <3>2. QED
      BY <2>1, <2>2, <3>1
  <2> HIDE DEF received, filled, arrived
  <2>4. Verifies(Key, arrived, sent.sign)
    <3>1. sent.sign = Sign(Key, sent.params)
      BY <1>1, <1>2, SentFields
    <3>2. QED
      BY <2>3, <3>1 DEF Verifies, Sign
  <2>5. Required(request.way) \subseteq filled
    BY <1>1, <1>2, <2>2, SentFields
  <2>6. QED
    BY <1>1, <2>1, <2>4, <2>5
<1>6. RequestsAreUnderstood'
  BY <1>1, <1>4, <1>5 DEF RequestsAreUnderstood
<1>7. OpenedInv'
  <2>1. CASE stage' = "opened"
    <3>1. Verifies(Key, arrived, sent.sign) /\ trade' = received
      BY <1>1, <2>1
    <3>2. filled \subseteq DOMAIN received
      OBVIOUS
    <3>3. received = sent.params
      BY <1>1, <1>2, <3>1, <3>2, VerifiedIsWhole
    <3> HIDE DEF received, filled, arrived
    <3>4. QED
      BY <1>1, <1>3, <2>1, <3>1, <3>3 DEF OpenedInv
  <2>2. CASE stage' # "opened"
    BY <1>3, <2>2 DEF OpenedInv
  <2>3. QED
    BY <2>1, <2>2
<1>8. NotifyTexts'
  BY DEF TripInv, NotifyTexts, notifyVars
<1>9. QED
  BY <1>3, <1>6, <1>7, <1>8 DEF TripInv

\* A notification is of texts: it repeats what was sent, or says what varies.
LEMMA InformTexts ==
    ASSUME TripInv, NEW key, NEW variation, variation \in Variations \cup {NoParams, [pid |-> OtherPid]},
           Inform(key, variation)
    PROVE  NotifyTexts'
<1> DEFINE usual == [trade_no |-> <<"trade">>, trade_status |-> <<"TRADE_SUCCESS">>,
                     pid |-> trade.pid, out_trade_no |-> trade.out_trade_no,
                     type |-> IF "type" \in DOMAIN trade THEN trade.type ELSE <<"word">>,
                     name |-> trade.name, money |-> trade.money, param |-> Get(trade, "param")]
           params == InsertAll(Over(variation, usual), None)
<1>1. stage = "opened" /\ Emit(key, params)
  BY DEF Inform
<1>2. trade = sent.params /\ RequestTypes /\ RequestInv /\ SentInv
  BY <1>1 DEF TripInv, OpenedInv
<1>3. /\ \A k \in DOMAIN trade : trade[k] \in Texts
      /\ {"pid", "out_trade_no", "name", "money"} \subseteq DOMAIN trade
  <2>1. \A k \in DOMAIN sent.params : sent.params[k] \in Texts
    BY <1>1, <1>2, SentFields DEF Texts
  <2>2. {"pid", "out_trade_no", "name", "money"} \subseteq DOMAIN sent.params
    BY <1>1, <1>2, SentFields DEF Required
  <2>3. QED
    BY <1>2, <2>1, <2>2
<1>4. <<>> \in Texts /\ <<"trade">> \in Texts /\ <<"TRADE_SUCCESS">> \in Texts /\ <<"word">> \in Texts
      /\ <<"MD5">> \in Texts
  BY TextsAssumption DEF Texts
<1>5. \A k \in DOMAIN usual : usual[k] \in Texts
  <2>1. /\ DOMAIN usual = {"trade_no", "trade_status", "pid", "out_trade_no", "type", "name", "money", "param"}
        /\ usual.trade_no = <<"trade">> /\ usual.trade_status = <<"TRADE_SUCCESS">>
        /\ usual.pid = trade.pid /\ usual.out_trade_no = trade.out_trade_no
        /\ usual.type \in {trade.type, <<"word">>}
        /\ "type" \notin DOMAIN trade => usual.type = <<"word">>
        /\ usual.name = trade.name /\ usual.money = trade.money /\ usual.param = Get(trade, "param")
    OBVIOUS
  <2> HIDE DEF usual
  <2>2. Get(trade, "param") \in Texts
    BY <1>3, <1>4 DEF Get
  <2>3. QED
    BY <1>3, <1>4, <2>1, <2>2
<1>6. \A k \in DOMAIN variation : variation[k] \in Texts
  BY TextsAssumption DEF NoParams
<1>7. \A k \in DOMAIN params : params[k] \in Texts
  <2>1. \A k \in DOMAIN Over(variation, usual) : Over(variation, usual)[k] \in Texts
    <3> HIDE DEF usual
    <3>1. QED
      BY <1>5, <1>6 DEF Over
  <2>2. /\ DOMAIN params \subseteq DOMAIN Over(variation, usual)
        /\ \A k \in DOMAIN params : params[k] = Over(variation, usual)[k]
    BY DEF InsertAll
  <2>3. QED
    BY <2>1, <2>2
<1> HIDE DEF params
<1>8. /\ message'.params = Insert(params, "sign_type", <<"MD5">>)
      /\ signed'.params = Signable(params)
  BY <1>1 DEF Emit, SignWithParams
<1>9. \A k \in DOMAIN signed'.params : signed'.params[k] \in Texts
  BY <1>7, <1>8 DEF Signable, Without
<1>10. \A k \in DOMAIN message'.params : message'.params[k] \in Texts
  <2>1. <<"MD5">> # <<>>
    OBVIOUS
  <2>2. QED
    BY <1>4, <1>7, <1>8, <2>1 DEF Insert
<1>11. QED
  BY <1>9, <1>10 DEF NotifyTexts

LEMMA AlterTexts ==
    ASSUME TripInv, NEW name, NEW value \in Texts, Alter(name, value)
    PROVE  NotifyTexts'
<1>1. /\ UNCHANGED signed
      /\ message' = [message EXCEPT !.params = Insert(Without(@, name), name, value)]
  BY DEF Alter
<1>2. message'.params = Insert(Without(message.params, name), name, value)
  BY <1>1 DEF TripInv, NotifyTypes
<1>3. \A k \in DOMAIN message'.params : message'.params[k] \in Texts
  BY <1>2 DEF TripInv, NotifyTexts, Insert, Without
<1>4. QED
  BY <1>1, <1>3 DEF TripInv, NotifyTexts

\* Steps of the notification leave the request alone.
LEMMA NotifyTrip ==
    ASSUME TripInv, UNCHANGED requestVars, signed' # NotSigned => stage = "opened",
           RequestTypes', SentTypes', NotifyTypes', NotifyTexts'
    PROVE  TripInv'
<1>1. UNCHANGED <<request, stage, sent, trade>>
  BY DEF requestVars
<1>2. (Validated' <=> Validated) /\ Values' = Values /\ (BrokenByBrowser' <=> BrokenByBrowser)
  BY <1>1 DEF Validated, ValidateApi, ValidateForm, Values, ApiValues, FormValues, CommonValues, BrokenByBrowser
<1>3. RequestInv' /\ SentInv'
  BY <1>1, <1>2 DEF TripInv, RequestInv, SentInv
<1>4. OpenedInv'
  BY <1>1 DEF TripInv, OpenedInv
<1>5. RequestsAreUnderstood'
  BY <1>1, <1>2 DEF TripInv, RequestsAreUnderstood
<1>6. QED
  BY <1>3, <1>4, <1>5 DEF TripInv

LEMMA NextTrip == TripInv /\ [Next]_vars => TripInv'
<1> SUFFICES ASSUME TripInv, [Next]_vars PROVE TripInv'
  OBVIOUS
<1>1. RequestTypes' /\ SentTypes' /\ NotifyTypes'
  BY NextTypes DEF TripInv
<1>2. ASSUME RequestNext, UNCHANGED notifyVars PROVE TripInv'
  BY <1>1, <1>2, NewRequestTrip, SetOptionTrip, SendTrip, GatewayReceivesTrip DEF RequestNext, Ways
<1>3. ASSUME UNCHANGED requestVars, UNCHANGED signed \/ stage = "opened", NotifyTexts' PROVE TripInv'
  BY <1>1, <1>3, NotifyTrip DEF TripInv, OpenedInv
<1>4. ASSUME NEW key, NEW variation, variation \in Variations \cup {NoParams, [pid |-> OtherPid]},
             Inform(key, variation)
      PROVE  TripInv'
  BY <1>3, <1>4, InformTexts DEF Inform
<1>5. ASSUME NEW name, NEW value \in Texts, Alter(name, value), UNCHANGED requestVars PROVE TripInv'
  BY <1>3, <1>5, AlterTexts DEF Alter
<1>6. ASSUME NEW form, AlterSign(form), UNCHANGED requestVars PROVE TripInv'
  <2>1. UNCHANGED signed /\ message'.params = message.params
    BY <1>6 DEF AlterSign, TripInv, NotifyTypes
  <2>2. NotifyTexts'
    BY <2>1 DEF TripInv, NotifyTexts
  <2>3. QED
    BY <1>3, <1>6, <2>1, <2>2
<1>7. ASSUME UNCHANGED <<signed, message>>, UNCHANGED requestVars PROVE TripInv'
  BY <1>3, <1>7 DEF TripInv, NotifyTexts
<1>8. CASE UNCHANGED vars
  BY <1>7, <1>8 DEF vars, notifyVars
<1>9. CASE Verify /\ UNCHANGED requestVars
  BY <1>7, <1>9 DEF Verify
<1>10. CASE \E rewriting \in Rewritings : \E name \in DOMAIN rewriting :
               Alter(name, rewriting[name]) /\ UNCHANGED requestVars
  BY <1>5, <1>10, TextsAssumption
<1>11. CASE \/ \E variation \in Variations \cup {NoParams} : Inform(Key, variation)
            \/ Inform(OtherKey, [pid |-> OtherPid])
  BY <1>4, <1>11
<1>12. QED
  BY <1>2, <1>6, <1>8, <1>9, <1>10, <1>11 DEF Next

LEMMA TripHolds == Spec => []TripInv
BY InitTrip, NextTrip, PTL DEF Spec

\* Whatever an application asks for, and whichever way it travels, the gateway
\* verifies and understands what leaves the application; the one exception is a
\* line feed in param or the URL of a page (payment.rs 209-241, 326-354, 526-582,
\* protocol.rs 112-129).
THEOREM GatewayUnderstands == Spec => []RequestsAreUnderstood
<1>1. TripInv => RequestsAreUnderstood
  BY DEF TripInv
<1>2. QED
  BY <1>1, TripHolds, PTL

(***************************************************************************)
(* What is accepted, and its echo.                                         *)
(***************************************************************************)

\* Where a text has one reading, what was read is what was joined.
LEMMA ReadingsAgree ==
    ASSUME SignInv, NotifyTypes, NotifyTexts, OneReading,
           SignPayload(message.params) = SignPayload(signed.params)
    PROVE  \A name \in ContentNames : Get(message.params, name) = Get(signed.params, name)
<1> DEFINE S == Alphabet \cup NameSet \cup {"&", "="}
           p == Signable(message.params)
           q == signed.params
<1>1. TextsOver(S, p) /\ TextsOver(S, q)
  <2>1. /\ \A k \in DOMAIN message.params : message.params[k] \in Seq(S)
        /\ \A k \in DOMAIN q : q[k] \in Seq(S)
    BY DEF NotifyTexts, Texts
  <2>2. /\ DOMAIN p \subseteq DOMAIN message.params
        /\ \A k \in DOMAIN p : p[k] = message.params[k]
    BY DEF Signable, Without
  <2>3. NameSet \cup {"&", "="} \subseteq S
    OBVIOUS
  <2> HIDE DEF S, p
  <2>4. QED
    BY <2>1, <2>2, <2>3 DEF TextsOver
<1>2. (\A k \in DOMAIN p : p[k] # <<>>) /\ (\A k \in DOMAIN q : q[k] # <<>>)
  BY DEF NotifyTypes, Filled, Signable, Without
<1>3. OneTextUpTo(p, q, Len(Names))
  BY DEF SignInv, SignPayload, OneTextUpTo
<1>4. \/ \E name \in NameSet : \A other \in NameSet \ {name} : Get(p, other) = Get(q, other)
      \/ NoJoin(p) /\ NoJoin(q)
  BY DEF OneReading, Unambiguous, TokensOf, NoJoin
<1> HIDE DEF S, p, q
<1>5. ASSUME NoJoin(p) /\ NoJoin(q)
      PROVE  \A name \in NameSet : Get(p, name) = Get(q, name)
  <2>1. \A name \in NameSet : SameField(p, q, name)
    BY <1>1, <1>3, <1>5, OneText, Zenon
  <2>2. ASSUME NEW name \in NameSet PROVE Get(p, name) = Get(q, name)
    BY <1>1, <2>1, SameFieldsAreSame, Zenon
  <2>3. QED
    BY <2>2
<1>6. ASSUME NEW name \in NameSet, \A other \in NameSet \ {name} : Get(p, other) = Get(q, other)
      PROVE  \A other \in NameSet : Get(p, other) = Get(q, other)
  <2>1. PICK m \in 1 .. Len(Names) : name = Names[m]
    BY NamesInOrder
  <2>2. ASSUME NEW n \in 1 .. Len(Names), n # m PROVE SameField(p, q, Names[n])
    <3>1. Names[n] \in NameSet \ {name}
      BY <2>1, <2>2, NamesInOrder
    <3>2. QED
      BY <1>1, <1>2, <1>6, <3>1, SameFieldsAreSame
  <2>3. SameField(p, q, Names[m])
    BY <1>1, <1>3, <2>2, OneUnknown, Zenon
  <2>4. Get(p, name) = Get(q, name)
    BY <1>1, <2>1, <2>3, SameFieldsAreSame
  <2>5. QED
    BY <1>6, <2>4
<1>7. \A name \in NameSet : Get(p, name) = Get(q, name)
  BY <1>4, <1>5, <1>6
<1>8. ContentNames \subseteq NameSet /\ "sign_type" \notin ContentNames
  BY RequestNamesAssumption, TextsAssumption DEF ContentNames
<1>9. QED
  BY <1>7, <1>8, SignedFieldsAreSame DEF p, q

\* An accepted notification is a text that the gateway signed with our key, for
\* our pid. Where at most one field was altered, or no value of either side
\* holds the "&" that joins the pairs, it is accepted with what the gateway
\* said and nothing else; without that the text may be read in another way, and
\* nothing is claimed of the data (notify.rs 257-299, params.rs 96-107).
THEOREM AcceptedWasSigned == Spec => []AcceptedIsSigned
<1>1. IInv /\ TripInv => AcceptedIsSigned
  <2> SUFFICES ASSUME IInv, TripInv, Accepted
               PROVE  /\ signed.key = OwnKey
                      /\ SignPayload(message.params) = SignPayload(signed.params)
                      /\ OneReading => verdict.data = DataOf(signed.params)
                      /\ verdict.data.pid = OwnPid
    BY DEF AcceptedIsSigned
  <2>1. ASSUME OneReading PROVE verdict.data = DataOf(signed.params)
    BY <2>1, VerdictsAreJust, ReadingsAgree, ContentsAreSame DEF IInv, TripInv
  <2>2. QED
    BY <2>1, VerdictsAreJust
<1>2. QED
  BY <1>1, InvariantHolds, TripHolds, PTL

\* A Money is what the constructors make of just one decimal, ten times its fen.
LEMMA ExactMoney ==
    ASSUME NEW money \in Moneys
    PROVE  /\ New(10 * money) = money
           /\ \A decimal \in Int : New(decimal) = money <=> decimal = 10 * money
<1>1. Rounded(10 * money) = money
  BY DEF Rounded, Moneys
<1>2. New(10 * money) = money
  BY <1>1 DEF New, Moneys
<1>3. ASSUME NEW decimal \in Int, New(decimal) = money PROVE decimal = 10 * money
  BY <1>3 DEF New, Moneys, Invalid, Imprecise
<1>4. QED
  BY <1>2, <1>3

LEMMA EchoHolds == IInv /\ TripInv => EchoIsTheRequest
<1> SUFFICES ASSUME IInv, TripInv, Accepted, OneReading,
                    signed.params.out_trade_no = request.out_trade_no
             PROVE  EchoIsTheRequest
  BY DEF EchoIsTheRequest
<1>1. verdict.data = DataOf(signed.params) /\ ~ContentError(signed.params) /\ signed # NotSigned
  BY VerdictsAreJust, ReadingsAgree, ContentsAreSame DEF IInv, TripInv
<1>2. {"name", "money"} \subseteq DOMAIN signed.params
  BY <1>1, SoundFieldsArePresent
<1>3. /\ verdict.data.money = MoneyOf(signed.params.money) /\ verdict.data.name = signed.params.name
      /\ verdict.data.param = Get(signed.params, "param")
  BY <1>1 DEF DataOf
<1>4. /\ trade.name = request.name
      /\ Get(trade, "param") = IF request.param = None THEN <<>> ELSE request.param
      /\ request.money \in Moneys \cap DOMAIN EpayText
  <2>1. stage = "opened" /\ trade = sent.params
    BY <1>1 DEF TripInv, OpenedInv
  <2>2. Values.name = request.name /\ Values.param = request.param
    BY <2>1, ValidValues DEF TripInv, SentInv
  <2>3. /\ \A k \in Required(request.way) : k \in DOMAIN sent.params
        /\ \A k \in {"name", "param"} :
              /\ k \in DOMAIN sent.params <=> Values[k] \notin {None, <<>>}
              /\ k \in DOMAIN sent.params => sent.params[k] = Values[k]
    BY <2>1, SentFields DEF TripInv
  <2>4. "name" \in DOMAIN sent.params
    BY <2>3 DEF Required
  <2>5. request.money \in Moneys \cap DOMAIN EpayText
    BY <2>1 DEF TripInv, RequestInv
  <2>6. QED
    BY <2>1, <2>2, <2>3, <2>4, <2>5 DEF Get
<1>5. MoneyMatches(verdict.data, Reloaded(request.money)) <=> Amounts[signed.params.money] = 10 * request.money
  <2>1. MoneyOf(signed.params.money) \in Moneys
    BY <1>1, <1>2 DEF ContentError, Get
  <2>2. signed.params.money \in DOMAIN Amounts /\ MoneyOf(signed.params.money) = New(Amounts[signed.params.money])
    BY <2>1 DEF MoneyOf, Moneys, Invalid
  <2>3. Amounts[signed.params.money] \in Int
    BY <2>2, AmountsAssumption
  <2>4. Reloaded(request.money) = request.money
    BY <1>4, EpayTextAssumption, ExactMoney DEF Reloaded, FromJson
  <2>5. QED
    BY <1>3, <1>4, <2>2, <2>3, <2>4, ExactMoney DEF MoneyMatches
<1>6. QED
  BY <1>3, <1>4, <1>5 DEF EchoIsTheRequest

\* A notification in full is recognized as the amount asked for, after any way
\* of writing it and after the order record; what was not altered echoes name
\* and param of the request (money.rs 96-99, 137-177, notify.rs 186-189,
\* 289-298).
THEOREM EchoIsRecognized == Spec => []EchoIsTheRequest
BY InvariantHolds, TripHolds, EchoHolds, PTL

=============================================================================
