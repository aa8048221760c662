----------------------------- MODULE Pagination -----------------------------
(***************************************************************************)
(* query_all_orders: pages of the merchant's orders are fetched one after  *)
(* the other while they are full, and collected. Each page is one          *)
(* QueryOrders call of GatewayCall, which may fail as a whole.             *)
(*                                                                         *)
(* The gateway is external. It lists orders newest or oldest first, new    *)
(* ones are created while the client is collecting, and some forks pay no  *)
(* attention to the paging parameters and always return every order.       *)
(***************************************************************************)

EXTENDS Integers, Sequences

CONSTANTS
    MaxLimit,    \* the page size requests are clamped to (50)
    MaxPage,     \* u32::MAX, the largest page number
    Limits,      \* `limit` arguments
    PageBounds,  \* `max_pages` arguments
    MaxOrders,   \* bound: orders the merchant ever has
    MaxRequests  \* bound: requests looked at, more than any max_pages

ASSUME MaxLimitAssumption == MaxLimit \in Nat \ {0}
ASSUME MaxPageAssumption == MaxPage \in Nat \ {0}
ASSUME ArgumentsAssumption == Limits \subseteq Nat /\ PageBounds \subseteq 0 .. MaxPage
ASSUME BoundsAssumption == MaxOrders \in Nat /\ MaxRequests \in Nat /\ MaxRequests > MaxPage

VARIABLES
    limit,      \* clamped
    max_pages,
    listing,    \* how the gateway lists: "newest", "oldest" or "all"
    store,      \* its orders in that order, as numbers of age
    before,     \* how many orders there were when the client started
    page,       \* the page to ask for next
    requests,   \* pages asked for
    orders,     \* collected so far
    result      \* "start", "collecting", "ok" or "err"

vars == <<limit, max_pages, listing, store, before, page, requests, orders, result>>

Clamp(n) == IF n < 1 THEN 1 ELSE IF n > MaxLimit THEN MaxLimit ELSE n

\* n orders; order k is the k-th one created.
Listed(n, by) == IF by = "newest" THEN [k \in 1 .. n |-> n + 1 - k] ELSE [k \in 1 .. n |-> k]

Init ==
    /\ \E argument \in Limits : limit = Clamp(argument)
    /\ max_pages \in PageBounds
    /\ listing \in {"newest", "oldest", "all"}
    /\ before \in 0 .. MaxOrders
    /\ store = Listed(before, listing)
    /\ page = 1
    /\ requests = 0
    /\ orders = <<>>
    /\ result = "start"

\* max_pages 0 performs no request.
Start ==
    /\ result = "start"
    /\ result' = IF max_pages = 0 THEN "ok" ELSE "collecting"
    /\ UNCHANGED <<limit, max_pages, listing, store, before, page, requests, orders>>

\* Fault: the offset is one page ahead.
RowsAhead ==
    LET offset == page * limit
        last   == IF offset + limit <= Len(store) THEN offset + limit ELSE Len(store)
    IN  IF listing = "all" THEN store ELSE SubSeq(store, offset + 1, last)

\* The rows the gateway answers with: query_orders_with asks for the page and
\* for the offset that goes with it.
Rows ==
    LET offset == (page - 1) * limit
        last   == IF offset + limit <= Len(store) THEN offset + limit ELSE Len(store)
    IN  IF listing = "all" THEN store ELSE SubSeq(store, offset + 1, last)

\* Fault: only a page longer than the limit has a successor.
HasMoreIfLonger(rows) == Len(rows) > limit

HasMore(rows) == Len(rows) >= limit

\* Fault: the loop asks for the same page again.
NextPageStays == page

\* saturating_add.
NextPage == IF page < MaxPage THEN page + 1 ELSE MaxPage

\* Fault: the bound is compared with the page just read.
FetchOneMore ==
    /\ result = "collecting"
    /\ requests < MaxRequests
    /\ requests' = requests + 1
    /\ orders' = orders \o Rows
    /\ IF HasMore(Rows) /\ page <= max_pages
       THEN page' = NextPage /\ UNCHANGED result
       ELSE result' = "ok" /\ UNCHANGED page
    /\ UNCHANGED <<limit, max_pages, listing, store, before>>

\* A page arrives and is collected; a full one leads to the next, within
\* max_pages.
Fetch ==
    /\ result = "collecting"
    /\ requests < MaxRequests
    /\ requests' = requests + 1
    /\ orders' = orders \o Rows
    /\ IF HasMore(Rows) /\ NextPage <= max_pages
       THEN page' = NextPage /\ UNCHANGED result
       ELSE result' = "ok" /\ UNCHANGED page
    /\ UNCHANGED <<limit, max_pages, listing, store, before>>

\* The call for a page fails: everything collected is given up.
FetchFails ==
    /\ result = "collecting"
    /\ requests < MaxRequests
    /\ requests' = requests + 1
    /\ orders' = <<>>
    /\ result' = "err"
    /\ UNCHANGED <<limit, max_pages, listing, store, before, page>>

\* An order is created while the pages are being read.
NewOrder ==
    /\ result = "collecting"
    /\ Len(store) < MaxOrders
    /\ store' = Listed(Len(store) + 1, listing)
    /\ UNCHANGED <<limit, max_pages, listing, before, page, requests, orders, result>>

Next == Start \/ Fetch \/ FetchFails \/ NewOrder

Spec == Init /\ [][Next]_vars

\* The call of a page ends (EveryCallEnds of GatewayCall), one way or the other.
FairSpec == Spec /\ WF_vars(Fetch \/ FetchFails)

-----------------------------------------------------------------------------
(* Properties *)

TypeOK ==
    /\ limit \in 1 .. MaxLimit
    /\ max_pages \in PageBounds
    /\ listing \in {"newest", "oldest", "all"}
    /\ store \in Seq(1 .. MaxOrders)
    /\ before \in 0 .. MaxOrders
    /\ page \in 1 .. MaxPage
    /\ requests \in Nat
    /\ orders \in Seq(1 .. MaxOrders)
    /\ result \in {"start", "collecting", "ok", "err"}

Collected == {orders[k] : k \in DOMAIN orders}

\* A collection that ended on a page that was not full is complete: every order
\* there was at its start is in it, also if new orders moved the old ones from
\* page to page meanwhile (client.rs 292-303, order.rs 214-221).
NothingIsSkipped ==
    result = "ok" /\ listing # "all" /\ max_pages > 0 /\ Len(orders) < limit * max_pages
        => 1 .. before \subseteq Collected

\* Without new orders, the collection is the listing itself from its first
\* order on, without gap or repetition, as far as max_pages reaches.
StaticListingIsCopied ==
    result = "ok" /\ listing # "all" /\ Len(store) = before
        => \E n \in 0 .. before :
              /\ orders = SubSeq(store, 1, n)
              /\ n = before \/ n = limit * max_pages

\* "stopping after max_pages pages (0 performs no request)" (client.rs 274-275),
\* and GUIDE.md 187: collection is bounded.
StopsAfterMaxPages == requests <= max_pages

\* Collecting comes to an end.
CollectingEnds == result = "collecting" ~> result \in {"ok", "err"}

=============================================================================
