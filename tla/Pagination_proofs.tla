------------------------- MODULE Pagination_proofs -------------------------
(***************************************************************************)
(* Proofs about Pagination, for any page size, any bound and any number of *)
(* orders.                                                                 *)
(***************************************************************************)

EXTENDS Pagination, SequenceTheorems, TLAPS

\* Rows on the pages before the one to ask for next.
Read == (page - 1) * limit

ListingInv ==
    /\ store = Listed(Len(store), listing)
    /\ before <= Len(store) /\ Len(store) <= MaxOrders
    /\ result = "start" => Len(store) = before

StartInv == result = "start" => page = 1 /\ requests = 0 /\ orders = <<>>

CollectingInv == result = "collecting" => page <= max_pages /\ max_pages > 0

\* New orders push the old ones to later pages, never to one already read.
CoverInv ==
    result = "collecting" /\ listing # "all" =>
        /\ Len(orders) >= Read
        /\ listing = "newest" =>
              \A k \in 1 .. before : k > Len(store) - Read => k \in Collected
        /\ listing = "oldest" =>
              \A k \in 1 .. before : k <= Read => k \in Collected

\* Unless the bound is the largest page number, where the page stays.
RequestInv ==
    max_pages < MaxPage =>
        /\ result = "collecting" => requests = page - 1
        /\ requests <= max_pages

CopyInv ==
    max_pages < MaxPage /\ listing # "all" /\ Len(store) = before /\ result = "collecting" =>
        /\ Read <= Len(store) /\ Len(orders) = Read
        /\ \A k \in 1 .. Read : orders[k] = store[k]

IInv ==
    /\ TypeOK
    /\ ListingInv /\ StartInv /\ CollectingInv /\ CoverInv /\ RequestInv /\ CopyInv
    /\ NothingIsSkipped
    /\ max_pages < MaxPage => StaticListingIsCopied

(***************************************************************************)
(* Listings, rows and pages.                                               *)
(***************************************************************************)

LEMMA ListedFacts ==
    ASSUME NEW n \in Nat, n <= MaxOrders, NEW by
    PROVE  /\ Listed(n, by) \in Seq(1 .. MaxOrders)
           /\ Len(Listed(n, by)) = n
           /\ \A k \in 1 .. n : Listed(n, by)[k] = IF by = "newest" THEN n + 1 - k ELSE k
BY BoundsAssumption DEF Listed

LEMMA ClampFacts == ASSUME NEW n \in Nat PROVE Clamp(n) \in 1 .. MaxLimit
BY MaxLimitAssumption DEF Clamp

LEMMA NextPageFacts ==
    ASSUME page \in 1 .. MaxPage
    PROVE  /\ NextPage \in 1 .. MaxPage
           /\ NextPage \in {page, page + 1}
           /\ page < MaxPage => NextPage = page + 1
BY MaxPageAssumption DEF NextPage

LEMMA ReadFacts ==
    ASSUME TypeOK
    PROVE  Read \in Nat /\ limit \in Nat \ {0} /\ page * limit = Read + limit
<1>1. page \in Nat \ {0} /\ limit \in Nat \ {0}
  BY MaxPageAssumption, MaxLimitAssumption DEF TypeOK
<1>2. (page - 1) * limit \in Nat /\ page * limit = (page - 1) * limit + limit
  BY <1>1
<1>3. QED
  BY <1>1, <1>2 DEF Read

\* The rows of a page are those of the listing after the ones read.
LEMMA RowsFacts ==
    ASSUME TypeOK, listing # "all"
    PROVE  /\ Rows \in Seq(1 .. MaxOrders)
           /\ Len(Rows) = IF Read >= Len(store) THEN 0
                          ELSE IF Read + limit <= Len(store) THEN limit ELSE Len(store) - Read
           /\ \A k \in 1 .. Len(Rows) : Rows[k] = store[Read + k]
<1> DEFINE last == IF Read + limit <= Len(store) THEN Read + limit ELSE Len(store)
<1>1. Read \in Nat /\ limit \in Nat \ {0} /\ Len(store) \in Nat /\ store \in Seq(1 .. MaxOrders)
  BY ReadFacts DEF TypeOK
<1>2. last \in Nat /\ last <= Len(store)
  BY <1>1
<1>3. Rows = SubSeq(store, Read + 1, last)
  BY DEF Rows, Read
<1> HIDE DEF last
<1>4. ASSUME NEW i \in Read + 1 .. last PROVE store[i] \in 1 .. MaxOrders
  <2>1. i \in 1 .. Len(store)
    BY <1>1, <1>2
  <2>2. QED
    BY <1>1, <2>1, ElementOfSeq
<1>5. /\ Rows \in Seq(1 .. MaxOrders)
      /\ Len(Rows) = IF Read + 1 <= last THEN last - (Read + 1) + 1 ELSE 0
      /\ \A k \in 1 .. last - (Read + 1) + 1 : Rows[k] = store[(Read + 1) + k - 1]
  BY <1>1, <1>2, <1>3, <1>4, SubSeqProperties
<1>6. Len(Rows) = IF Read >= Len(store) THEN 0
                  ELSE IF Read + limit <= Len(store) THEN limit ELSE Len(store) - Read
  BY <1>1, <1>5 DEF last
<1>7. ASSUME NEW k \in 1 .. Len(Rows) PROVE Rows[k] = store[Read + k]
  <2>1. k \in 1 .. last - (Read + 1) + 1
    BY <1>1, <1>2, <1>5
  <2>2. (Read + 1) + k - 1 = Read + k
    BY <1>1, <2>1
  <2>3. QED
    BY <1>5, <2>1, <2>2
<1>8. QED
  BY <1>5, <1>6, <1>7

(***************************************************************************)
(* A page is fetched.                                                      *)
(***************************************************************************)

\* What is collected after a page.
LEMMA FetchCollects ==
    ASSUME TypeOK, Fetch
    PROVE  /\ Rows \in Seq(1 .. MaxOrders)
           /\ orders' \in Seq(1 .. MaxOrders)
           /\ Len(orders') = Len(orders) + Len(Rows)
           /\ \A k \in 1 .. Len(orders) : orders'[k] = orders[k]
           /\ \A k \in 1 .. Len(Rows) : orders'[Len(orders) + k] = Rows[k]
           /\ \A k \in 1 .. Len(Rows) : Rows[k] \in Collected'
           /\ Collected \subseteq Collected'
<1>1. Rows \in Seq(1 .. MaxOrders)
  <2>1. CASE listing = "all"
    BY <2>1 DEF Rows, TypeOK
  <2>2. CASE listing # "all"
    BY <2>2, RowsFacts
  <2>3. QED
    BY <2>1, <2>2
<1>2. orders \in Seq(1 .. MaxOrders) /\ orders' = orders \o Rows
  BY DEF TypeOK, Fetch
<1>3. /\ orders' \in Seq(1 .. MaxOrders)
      /\ Len(orders') = Len(orders) + Len(Rows)
      /\ \A k \in 1 .. Len(orders) + Len(Rows) :
            orders'[k] = IF k <= Len(orders) THEN orders[k] ELSE Rows[k - Len(orders)]
  BY <1>1, <1>2, ConcatProperties
<1>4. Len(orders) \in Nat /\ Len(Rows) \in Nat
  BY <1>1, <1>2
<1>5. \A k \in 1 .. Len(orders) : orders'[k] = orders[k]
  BY <1>3, <1>4
<1>6. ASSUME NEW k \in 1 .. Len(Rows) PROVE orders'[Len(orders) + k] = Rows[k]
  <2>1. /\ Len(orders) + k \in 1 .. Len(orders) + Len(Rows)
        /\ ~(Len(orders) + k <= Len(orders))
        /\ (Len(orders) + k) - Len(orders) = k
    BY <1>4
  <2>2. QED
    BY <1>3, <2>1
<1>7. DOMAIN orders = 1 .. Len(orders) /\ DOMAIN orders' = 1 .. Len(orders')
  BY <1>2, <1>3
<1>8. ASSUME NEW k \in 1 .. Len(Rows) PROVE Rows[k] \in Collected'
  <2>1. Len(orders) + k \in DOMAIN orders'
    BY <1>3, <1>4, <1>7
  <2>2. QED
    BY <1>6, <2>1 DEF Collected
<1>9. Collected \subseteq Collected'
  <2>1. ASSUME NEW k \in DOMAIN orders PROVE orders[k] = orders'[k] /\ k \in DOMAIN orders'
    BY <1>3, <1>4, <1>5, <1>7
  <2>2. QED
    BY <2>1 DEF Collected
<1>10. QED
  BY <1>1, <1>3, <1>5, <1>6, <1>8, <1>9

\* The orders from the start that are on the pages read and on this one.
LEMMA FetchCovers ==
    ASSUME IInv, Fetch, listing # "all"
    PROVE  /\ listing = "newest" =>
                 \A k \in 1 .. before : k > Len(store) - (Read + limit) => k \in Collected'
           /\ listing = "oldest" =>
                 \A k \in 1 .. before : k <= Read + limit => k \in Collected'
<1>1. /\ TypeOK /\ result = "collecting"
      /\ before \in Nat /\ Len(store) \in Nat /\ before <= Len(store) /\ Len(store) <= MaxOrders
      /\ Read \in Nat /\ limit \in Nat \ {0}
  BY ReadFacts, BoundsAssumption DEF IInv, TypeOK, ListingInv, Fetch
<1>2. \A k \in 1 .. Len(store) : store[k] = IF listing = "newest" THEN Len(store) + 1 - k ELSE k
  BY <1>1, ListedFacts DEF IInv, ListingInv
<1>3. /\ Len(Rows) = IF Read >= Len(store) THEN 0
                     ELSE IF Read + limit <= Len(store) THEN limit ELSE Len(store) - Read
      /\ \A k \in 1 .. Len(Rows) : Rows[k] = store[Read + k]
  BY <1>1, RowsFacts
<1>4. Collected \subseteq Collected' /\ \A k \in 1 .. Len(Rows) : Rows[k] \in Collected'
  BY <1>1, FetchCollects
<1>5. \A i \in Read + 1 .. Read + limit : i <= Len(store) => store[i] \in Collected'
  <2> SUFFICES ASSUME NEW i \in Read + 1 .. Read + limit, i <= Len(store)
               PROVE  store[i] \in Collected'
    OBVIOUS
  <2>1. i - Read \in 1 .. Len(Rows) /\ Read + (i - Read) = i
    BY <1>1, <1>3
  <2>2. QED
    BY <1>3, <1>4, <2>1
<1>6. ASSUME listing = "newest", NEW k \in 1 .. before, k > Len(store) - (Read + limit)
      PROVE  k \in Collected'
  <2>1. CASE k > Len(store) - Read
    BY <1>1, <1>4, <1>6, <2>1 DEF IInv, CoverInv
  <2>2. CASE k <= Len(store) - Read
    <3>1. /\ Len(store) + 1 - k \in Read + 1 .. Read + limit
          /\ Len(store) + 1 - k \in 1 .. Len(store)
          /\ Len(store) + 1 - (Len(store) + 1 - k) = k
      BY <1>1, <1>6, <2>2
    <3>2. store[Len(store) + 1 - k] = k
      BY <1>2, <1>6, <3>1
    <3>3. QED
      BY <1>1, <1>5, <3>1, <3>2
  <2>3. QED
    BY <1>1, <2>1, <2>2
<1>7. ASSUME listing = "oldest", NEW k \in 1 .. before, k <= Read + limit
      PROVE  k \in Collected'
  <2>1. CASE k <= Read
    BY <1>1, <1>4, <1>7, <2>1 DEF IInv, CoverInv
  <2>2. CASE k > Read
    <3>1. k \in Read + 1 .. Read + limit /\ k \in 1 .. Len(store)
      BY <1>1, <1>7, <2>2
    <3>2. store[k] = k
      BY <1>2, <1>7, <3>1
    <3>3. QED
      BY <1>1, <1>5, <3>1, <3>2
  <2>3. QED
    BY <1>1, <2>1, <2>2
<1>8. QED
  BY <1>6, <1>7

\* Of a listing that did not change, the collection is a prefix.
LEMMA FetchCopies ==
    ASSUME IInv, Fetch, listing # "all", Len(store) = before, max_pages < MaxPage
    PROVE  /\ Len(orders') = Read + Len(Rows)
           /\ Read + Len(Rows) <= Len(store)
           /\ \A k \in 1 .. Read + Len(Rows) : orders'[k] = store[k]
           /\ orders' = SubSeq(store, 1, Read + Len(Rows))
<1>1. /\ TypeOK /\ result = "collecting" /\ Len(store) \in Nat /\ store \in Seq(1 .. MaxOrders)
      /\ Read \in Nat /\ limit \in Nat \ {0}
  BY ReadFacts DEF IInv, TypeOK, Fetch
<1>2. /\ Read <= Len(store) /\ Len(orders) = Read
      /\ \A k \in 1 .. Read : orders[k] = store[k]
  BY <1>1 DEF IInv, CopyInv
<1>3. /\ Len(Rows) \in Nat /\ Read + Len(Rows) <= Len(store)
      /\ \A k \in 1 .. Len(Rows) : Rows[k] = store[Read + k]
  BY <1>1, <1>2, RowsFacts
<1>4. /\ orders' \in Seq(1 .. MaxOrders) /\ Len(orders') = Read + Len(Rows)
      /\ \A k \in 1 .. Read : orders'[k] = orders[k]
      /\ \A k \in 1 .. Len(Rows) : orders'[Read + k] = Rows[k]
  BY <1>1, <1>2, FetchCollects
<1>5. ASSUME NEW k \in 1 .. Read + Len(Rows) PROVE orders'[k] = store[k]
  <2>1. CASE k <= Read
    BY <1>1, <1>2, <1>4, <2>1
  <2>2. CASE k > Read
    <3>1. k - Read \in 1 .. Len(Rows) /\ Read + (k - Read) = k
      BY <1>1, <1>3, <2>2
    <3>2. QED
      BY <1>3, <1>4, <3>1
  <2>3. QED
    BY <1>1, <1>3, <2>1, <2>2
<1> DEFINE n == Read + Len(Rows)
<1>6. n \in Nat /\ n <= Len(store)
  BY <1>1, <1>3
<1> HIDE DEF n
<1>7. /\ SubSeq(store, 1, n) \in Seq(1 .. MaxOrders)
      /\ Len(SubSeq(store, 1, n)) = n
      /\ \A k \in 1 .. n : SubSeq(store, 1, n)[k] = store[k]
  <2>1. ASSUME NEW i \in 1 .. n PROVE store[i] \in 1 .. MaxOrders
    <3>1. i \in 1 .. Len(store)
      BY <1>1, <1>6
    <3>2. QED
      BY <1>1, <3>1, ElementOfSeq
  <2>2. /\ SubSeq(store, 1, n) \in Seq(1 .. MaxOrders)
        /\ Len(SubSeq(store, 1, n)) = IF 1 <= n THEN n - 1 + 1 ELSE 0
        /\ \A i \in 1 .. n - 1 + 1 : SubSeq(store, 1, n)[i] = store[1 + i - 1]
    BY <1>6, <2>1, SubSeqProperties
  <2>3. QED
    BY <1>6, <2>2
<1>8. orders' = SubSeq(store, 1, n)
  BY <1>4, <1>5, <1>7, SeqEqual DEF n
<1>9. QED
  BY <1>3, <1>4, <1>5, <1>8 DEF n

\* How far the pages read reach after a fetch that goes on, and when it does not.
LEMMA FetchMoves ==
    ASSUME IInv, Fetch
    PROVE  /\ UNCHANGED <<limit, max_pages, listing, store, before>>
           /\ requests' = requests + 1
           /\ page' \in 1 .. MaxPage
           /\ Read \in Nat /\ limit \in Nat \ {0} /\ Len(Rows) \in Nat
           /\ max_pages \in Nat /\ max_pages > 0 /\ page <= max_pages
           /\ \/ /\ result' = "collecting" /\ Len(Rows) >= limit /\ page' <= max_pages
                 /\ Read' \in {Read, Read + limit}
                 /\ page < MaxPage => page' = page + 1 /\ Read' = Read + limit
              \/ /\ result' = "ok"
                 /\ Len(Rows) < limit \/ Read + limit = limit * max_pages
<1>1. TypeOK /\ page \in 1 .. MaxPage /\ result = "collecting" /\ page <= max_pages /\ max_pages > 0
  BY DEF IInv, TypeOK, CollectingInv, Fetch
<1>2. /\ Read \in Nat /\ limit \in Nat \ {0} /\ page * limit = Read + limit
      /\ max_pages \in Nat /\ page \in Nat /\ Len(Rows) \in Nat
  BY <1>1, ReadFacts, FetchCollects, ArgumentsAssumption DEF TypeOK
<1>3. /\ NextPage \in 1 .. MaxPage /\ NextPage \in {page, page + 1}
      /\ page < MaxPage => NextPage = page + 1
  BY <1>1, NextPageFacts
<1>4. /\ UNCHANGED <<limit, max_pages, listing, store, before>> /\ requests' = requests + 1
      /\ \/ /\ Len(Rows) >= limit /\ NextPage <= max_pages
            /\ page' = NextPage /\ result' = result
         \/ /\ ~(Len(Rows) >= limit /\ NextPage <= max_pages)
            /\ result' = "ok" /\ page' = page
  BY DEF Fetch, HasMore
<1>5. CASE Len(Rows) >= limit /\ NextPage <= max_pages
  <2>1. Read' = (page' - 1) * limit
    BY <1>4 DEF Read
  <2>2. page' = page \/ page' = page + 1
    BY <1>3, <1>4, <1>5
  <2>3. page' = page + 1 => Read' = Read + limit
    <3>1. (page + 1) - 1 = page
      BY <1>2
    <3>2. QED
      BY <1>2, <2>1, <3>1
  <2>4. page' = page => Read' = Read
    BY <2>1 DEF Read
  <2>5. QED
    BY <1>1, <1>2, <1>3, <1>4, <1>5, <2>2, <2>3, <2>4
<1>6. CASE ~(Len(Rows) >= limit /\ NextPage <= max_pages)
  <2>1. ASSUME Len(Rows) >= limit PROVE Read + limit = limit * max_pages
    <3>1. page = max_pages
      BY <1>1, <1>2, <1>3, <1>6, <2>1
    <3>2. QED
      BY <1>2, <3>1
  <2>2. QED
    BY <1>1, <1>2, <1>4, <1>6, <2>1
<1>7. QED
  BY <1>5, <1>6

LEMMA FetchStep ==
    ASSUME IInv, Fetch
    PROVE  IInv'
<1>1. /\ TypeOK /\ result = "collecting" /\ before \in Nat /\ Len(store) \in Nat
      /\ before <= Len(store) /\ Len(orders) \in Nat /\ page \in Nat /\ page <= MaxPage
  BY BoundsAssumption DEF IInv, TypeOK, ListingInv, Fetch
<1>2. /\ UNCHANGED <<limit, max_pages, listing, store, before>>
      /\ requests' = requests + 1 /\ page' \in 1 .. MaxPage
      /\ Read \in Nat /\ limit \in Nat \ {0} /\ Len(Rows) \in Nat
      /\ max_pages \in Nat /\ max_pages > 0 /\ page <= max_pages
  BY FetchMoves
<1>3. \/ /\ result' = "collecting" /\ Len(Rows) >= limit /\ page' <= max_pages
         /\ Read' \in {Read, Read + limit}
         /\ page < MaxPage => page' = page + 1 /\ Read' = Read + limit
      \/ /\ result' = "ok"
         /\ Len(Rows) < limit \/ Read + limit = limit * max_pages
  BY FetchMoves
<1>4. orders' \in Seq(1 .. MaxOrders) /\ Len(orders') = Len(orders) + Len(Rows)
  BY <1>1, FetchCollects
<1>5. TypeOK'
  BY <1>1, <1>2, <1>3, <1>4 DEF TypeOK
<1>6. ListingInv' /\ StartInv' /\ CollectingInv'
  BY <1>2, <1>3 DEF IInv, ListingInv, StartInv, CollectingInv
<1>7. CoverInv'
  <2> SUFFICES ASSUME result' = "collecting", listing # "all" PROVE CoverInv'
    BY <1>2 DEF CoverInv
  <2>1. Read' \in Nat /\ Read' <= Read + limit
    BY <1>2, <1>3
  <2>2. Len(orders') >= Read'
    BY <1>1, <1>2, <1>3, <1>4, <2>1 DEF IInv, CoverInv
  <2>3. ASSUME listing = "newest", NEW k \in 1 .. before, k > Len(store) - Read' PROVE k \in Collected'
    BY <1>1, <1>2, <2>1, <2>3, FetchCovers
  <2>4. ASSUME listing = "oldest", NEW k \in 1 .. before, k <= Read' PROVE k \in Collected'
    BY <1>1, <1>2, <2>1, <2>4, FetchCovers
  <2>5. QED
    BY <1>2, <2>2, <2>3, <2>4 DEF CoverInv
<1>8. RequestInv'
  <2> SUFFICES ASSUME max_pages < MaxPage
               PROVE  (result' = "collecting" => requests' = page' - 1) /\ requests' <= max_pages
    BY <1>2 DEF RequestInv
  <2>1. requests = page - 1 /\ page < MaxPage
    BY <1>1, <1>2, MaxPageAssumption DEF IInv, RequestInv
  <2>2. requests' = page
    BY <1>1, <1>2, <2>1
  <2>3. result' = "collecting" => page' = page + 1
    BY <1>3, <2>1
  <2>4. QED
    BY <1>1, <1>2, <2>2, <2>3
<1>9. CopyInv'
  <2> SUFFICES ASSUME max_pages < MaxPage, listing # "all", Len(store) = before, result' = "collecting"
               PROVE  Read' <= Len(store) /\ Len(orders') = Read' /\ \A k \in 1 .. Read' : orders'[k] = store[k]
    BY <1>2 DEF CopyInv
  <2>1. Read' = Read + limit /\ Len(Rows) >= limit
    BY <1>1, <1>2, <1>3, MaxPageAssumption
  <2>2. Len(Rows) = limit
    BY <1>1, <1>2, <2>1, RowsFacts
  <2>3. QED
    BY <2>1, <2>2, FetchCopies
<1>10. NothingIsSkipped'
  <2> SUFFICES ASSUME result' = "ok", listing # "all", Len(orders') < limit * max_pages,
                      NEW k \in 1 .. before
               PROVE  k \in Collected'
    BY <1>2 DEF NothingIsSkipped
  <2>1. Len(orders) >= Read
    BY <1>1 DEF IInv, CoverInv
  <2>2. Len(Rows) < limit
    <3>1. CASE Read + limit = limit * max_pages
      BY <1>1, <1>2, <1>4, <2>1, <3>1
    <3>2. QED
      BY <1>3, <3>1
  <2>3. Len(store) < Read + limit
    BY <1>1, <1>2, <2>2, RowsFacts
  <2>4. listing \in {"newest", "oldest"} /\ k \in Nat /\ k > 0 /\ k <= Len(store)
    BY <1>1 DEF TypeOK
  <2>5. k > Len(store) - (Read + limit) /\ k <= Read + limit
    BY <1>1, <1>2, <2>3, <2>4
  <2>6. QED
    BY <2>4, <2>5, FetchCovers
<1>11. max_pages < MaxPage => StaticListingIsCopied'
  <2> SUFFICES ASSUME max_pages < MaxPage, result' = "ok", listing # "all", Len(store) = before
               PROVE  \E n \in 0 .. before :
                         orders' = SubSeq(store, 1, n) /\ (n = before \/ n = limit * max_pages)
    BY <1>2 DEF StaticListingIsCopied
  <2>1. /\ Read + Len(Rows) \in 0 .. before
        /\ orders' = SubSeq(store, 1, Read + Len(Rows))
    BY <1>1, <1>2, FetchCopies
  <2>2. Read <= Len(store)
    BY <1>1 DEF IInv, CopyInv
  <2>3. CASE Len(Rows) < limit
    <3>1. Read + Len(Rows) = before
      BY <1>1, <1>2, <2>2, <2>3, RowsFacts
    <3>2. QED
      BY <2>1, <3>1
  <2>4. CASE Len(Rows) >= limit
    <3>1. Len(Rows) = limit
      BY <1>1, <1>2, <2>4, RowsFacts
    <3>2. Read + Len(Rows) = limit * max_pages
      BY <1>2, <1>3, <2>4, <3>1
    <3>3. QED
      BY <2>1, <3>2
  <2>5. QED
    BY <1>2, <2>3, <2>4
<1>12. QED
  BY <1>2, <1>5, <1>6, <1>7, <1>8, <1>9, <1>10, <1>11 DEF IInv

(***************************************************************************)
(* The other steps.                                                        *)
(***************************************************************************)

LEMMA InitIInv == Init => IInv
<1> SUFFICES ASSUME Init PROVE IInv
  OBVIOUS
<1>1. limit \in 1 .. MaxLimit
  BY ClampFacts, ArgumentsAssumption DEF Init
<1>2. before \in Nat /\ before <= MaxOrders /\ 1 \in 1 .. MaxPage /\ max_pages \in Nat
  BY BoundsAssumption, MaxPageAssumption, ArgumentsAssumption DEF Init
<1>3. store \in Seq(1 .. MaxOrders) /\ Len(store) = before
  BY <1>2, ListedFacts DEF Init
<1>4. TypeOK
  BY <1>1, <1>2, <1>3 DEF Init, TypeOK
<1>5. ListingInv /\ StartInv /\ CollectingInv
  BY <1>2, <1>3 DEF Init, ListingInv, StartInv, CollectingInv
<1>6. CoverInv /\ RequestInv /\ CopyInv /\ NothingIsSkipped /\ StaticListingIsCopied
  BY <1>2 DEF Init, CoverInv, RequestInv, CopyInv, NothingIsSkipped, StaticListingIsCopied
<1>7. QED
  BY <1>4, <1>5, <1>6 DEF IInv

LEMMA StartStep ==
    ASSUME IInv, Start
    PROVE  IInv'
<1>1. /\ TypeOK /\ page = 1 /\ requests = 0 /\ orders = <<>> /\ Len(store) = before
      /\ max_pages \in Nat /\ before \in Nat /\ limit \in Nat
  BY ArgumentsAssumption, BoundsAssumption, ReadFacts DEF IInv, TypeOK, StartInv, ListingInv, Start
<1>2. /\ UNCHANGED <<limit, max_pages, listing, store, before, page, requests, orders>>
      /\ result' = IF max_pages = 0 THEN "ok" ELSE "collecting"
  BY DEF Start
<1>3. Read' = 0 /\ Len(orders) = 0
  BY <1>1, <1>2 DEF Read
<1>4. TypeOK' /\ ListingInv' /\ StartInv' /\ CollectingInv'
  BY <1>1, <1>2 DEF IInv, TypeOK, ListingInv, StartInv, CollectingInv
<1>5. CoverInv'
  <2>1. Len(orders') >= Read'
    BY <1>2, <1>3
  <2>2. \A k \in 1 .. before' : ~(k > Len(store') - Read') /\ ~(k <= Read')
    BY <1>1, <1>2, <1>3
  <2>3. QED
    BY <2>1, <2>2 DEF CoverInv
<1>6. RequestInv' /\ CopyInv'
  BY <1>1, <1>2, <1>3 DEF RequestInv, CopyInv
<1>7. NothingIsSkipped'
  BY <1>1, <1>2 DEF NothingIsSkipped
<1>8. StaticListingIsCopied'
  <2> SUFFICES ASSUME max_pages = 0
               PROVE  \E n \in 0 .. before :
                         orders = SubSeq(store, 1, n) /\ (n = before \/ n = limit * max_pages)
    BY <1>2 DEF StaticListingIsCopied
  <2>1. SubSeq(store, 1, 0) = <<>> /\ 0 = limit * max_pages /\ 0 \in 0 .. before
    BY <1>1, SubSeqEmpty
  <2>2. QED
    BY <1>1, <2>1
<1>9. QED
  BY <1>4, <1>5, <1>6, <1>7, <1>8 DEF IInv

LEMMA FetchFailsStep ==
    ASSUME IInv, FetchFails
    PROVE  IInv'
<1>1. /\ result = "collecting" /\ result' = "err" /\ orders' = <<>> /\ requests' = requests + 1
      /\ UNCHANGED <<limit, max_pages, listing, store, before, page>>
  BY DEF FetchFails
<1>2. TypeOK'
  BY <1>1 DEF IInv, TypeOK
<1>3. RequestInv'
  BY <1>1, ArgumentsAssumption DEF IInv, TypeOK, RequestInv, CollectingInv
<1>4. QED
  BY <1>1, <1>2, <1>3
     DEF IInv, ListingInv, StartInv, CollectingInv, CoverInv, CopyInv, NothingIsSkipped,
         StaticListingIsCopied

LEMMA NewOrderStep ==
    ASSUME IInv, NewOrder
    PROVE  IInv'
<1>1. /\ result = "collecting" /\ Len(store) < MaxOrders /\ store' = Listed(Len(store) + 1, listing)
      /\ UNCHANGED <<limit, max_pages, listing, before, page, requests, orders, result>>
  BY DEF NewOrder
<1>2. /\ TypeOK /\ Len(store) \in Nat /\ before \in Nat /\ before <= Len(store) /\ MaxOrders \in Nat
  BY BoundsAssumption DEF IInv, TypeOK, ListingInv
<1>3. store' \in Seq(1 .. MaxOrders) /\ Len(store') = Len(store) + 1
  BY <1>1, <1>2, ListedFacts
<1>4. UNCHANGED <<Read, Collected>>
  BY <1>1 DEF Read, Collected
<1>5. Read \in Nat
  BY <1>2, ReadFacts
<1>6. TypeOK'
  BY <1>1, <1>3 DEF IInv, TypeOK
<1>7. ListingInv' /\ StartInv' /\ CollectingInv' /\ RequestInv'
  BY <1>1, <1>2, <1>3 DEF IInv, ListingInv, StartInv, CollectingInv, RequestInv
<1>8. CoverInv'
  BY <1>1, <1>2, <1>3, <1>4, <1>5 DEF IInv, CoverInv
<1>9. CopyInv' /\ NothingIsSkipped' /\ StaticListingIsCopied'
  BY <1>1, <1>2, <1>3 DEF CopyInv, NothingIsSkipped, StaticListingIsCopied
<1>10. QED
  BY <1>6, <1>7, <1>8, <1>9 DEF IInv

LEMMA NextIInv == IInv /\ [Next]_vars => IInv'
<1> SUFFICES ASSUME IInv, [Next]_vars PROVE IInv'
  OBVIOUS
<1>1. CASE Start
  BY <1>1, StartStep
<1>2. CASE Fetch
  BY <1>2, FetchStep
<1>3. CASE FetchFails
  BY <1>3, FetchFailsStep
<1>4. CASE NewOrder
  BY <1>4, NewOrderStep
<1>5. CASE UNCHANGED vars
  BY <1>5 DEF vars, IInv, TypeOK, ListingInv, StartInv, CollectingInv, CoverInv, RequestInv, CopyInv,
              NothingIsSkipped, StaticListingIsCopied, Read, Collected
<1>6. QED
  BY <1>1, <1>2, <1>3, <1>4, <1>5 DEF Next

LEMMA InvariantHolds == Spec => []IInv
BY InitIInv, NextIInv, PTL DEF Spec

\* The variables keep their types.
THEOREM TypeCorrect == Spec => []TypeOK
<1>1. IInv => TypeOK
  BY DEF IInv
<1>2. QED
  BY <1>1, InvariantHolds, PTL

\* A collection that ended on a page that was not full has every order there was
\* at its start, for every page size, bound and number of new orders, in a
\* listing with the newest or the oldest order first (client.rs 292-303).
THEOREM NothingSkipped == Spec => []NothingIsSkipped
<1>1. IInv => NothingIsSkipped
  BY DEF IInv
<1>2. QED
  BY <1>1, InvariantHolds, PTL

\* With a bound below the largest page number, no more pages are asked for than
\* the bound says (client.rs 274-303). At the largest page number the page
\* saturates, and neither this nor the next theorem holds.
THEOREM BoundedCollection ==
    ASSUME PageBounds \subseteq 0 .. MaxPage - 1
    PROVE  Spec => []StopsAfterMaxPages
<1>1. IInv => StopsAfterMaxPages
  <2> SUFFICES ASSUME IInv PROVE StopsAfterMaxPages
    OBVIOUS
  <2>1. max_pages < MaxPage
    BY MaxPageAssumption DEF IInv, TypeOK
  <2>2. QED
    BY <2>1 DEF IInv, RequestInv, StopsAfterMaxPages
<1>2. QED
  BY <1>1, InvariantHolds, PTL

\* With such a bound, what is collected of a listing that does not change is its
\* beginning, without a gap or a repetition, as far as the bound on the pages
\* reaches (client.rs 274-303).
THEOREM StaticListingCopied ==
    ASSUME PageBounds \subseteq 0 .. MaxPage - 1
    PROVE  Spec => []StaticListingIsCopied
<1>1. IInv => StaticListingIsCopied
  <2> SUFFICES ASSUME IInv PROVE StaticListingIsCopied
    OBVIOUS
  <2>1. max_pages < MaxPage
    BY MaxPageAssumption DEF IInv, TypeOK
  <2>2. QED
    BY <2>1 DEF IInv
<1>2. QED
  BY <1>1, InvariantHolds, PTL

=============================================================================
