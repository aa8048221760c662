# Verification of epay-sdk-rust

TLA+ models of the EPay SDK for Rust, model-checked with TLC on small
instances, and theorems about them checked with TLAPS. `PROJECT.json` lists the
runs, the lines each definition stands for, the seeded faults each property
catches, the hazards and the theorems. Paths below are relative to the
repository root.

    tlc -config MCGatewayCall.cfg MCGatewayCall      # a run: module and cfg of PROJECT.json
    tlapm GatewayCall_proofs.tla                     # the proofs

## 1. Inventory

The SDK is a client of a payment gateway (彩虹易支付 V1) and a verifier of the
callbacks the gateway sends. A `Client` is immutable and shared; what changes
during its use is the local state of the futures of its calls, the gateway
behind them, and the merchant's own records.

| component | source | state | operations | what is hard | what makes it correct |
|---|---|---|---|---|---|
| gateway calls | `src/client.rs`, `src/endpoint.rs` | per call: retries so far, attempt in progress, options | six `*_with` methods over `get_json` and `post_json` | lost and late answers, timeouts after the gateway acted, retries, a future dropped at an await | a write executes at most once; an error says truthfully whether it did; retries and time bounded; every call ends |
| errors | `src/error.rs` | none | classification, `is_retryable` | which error is safe to act on | see above |
| retry policy | `src/config.rs` | three numbers | `backoff`, `should_retry`, `with_backoff` | widths of shift and duration | delays double up to the maximum while the shift is wide enough, then stay, and never wrap |
| HTTP transport | `src/transport.rs` | body read so far | `send`, `read_response`, custom `Transport` | chunks against a limit, declared lengths, bodies that break or never end | bounded memory, no success on part of an answer |
| order listing | `src/client.rs`, `src/order.rs` | page, orders collected | `query_all_orders_with` | orders arriving between pages, forks that ignore paging, the last page number | nothing skipped, bounded |
| notification parser | `src/notify.rs`, `src/integrations/axum.rs` | entries read | `read_notify_params`, `parse_source`, `canonicalize` | two sources, one budget; duplicates and conflicts | exactly the unambiguous callbacks, with their meaning |
| notification verification | `src/notify.rs`, `src/signer.rs` | none | `verify_notify` | fields lost, rewritten or added on the way; letter case; other merchants' keys | what is accepted has the text the gateway signed for this merchant, and its contents where the text tells them; what is intact is never mistrusted |
| extractors, acknowledgement | `src/integrations/axum.rs` | none | `VerifiedNotify`, `NotifyAck`, `NotifyRejection` | the gateway stops notifying on "success" | "success" only for what is recorded |
| example merchant server | `examples/axum_server.rs` | `orders` under a lock | `form_pay`, `url_pay`, `qrcode_pay`, `notify` | notification against answer, repeated notifications, disconnects, restart | an order counts as paid only if it was, and in the end always if it was |
| request preparation | `src/payment.rs`, `src/refund.rs`, `src/validation.rs`, `src/limits.rs`, `src/protocol.rs` | the request being built | builders, `validate`, `prepare`, `resolve_callbacks`, `hidden_inputs`, `redirect_url` | overrides merged with defaults; a text escaped, decoded by a browser and verified elsewhere | a refused request is never sent, a sent one arrives as signed; no callback URL escapes the HTTPS policy |
| response validation | `src/order.rs`, `src/payment.rs`, `src/merchant.rs`, `src/serde_util.rs`, `src/types.rs` | none | `validate_success`, tolerant decoding | answer about another order or merchant, an old one, PHP's forms of numbers | payload bound to request and PID, usable, never paid unless it was |
| configuration | `src/config.rs`, `src/client.rs`, `src/protocol.rs` | settings while building, none after | builders, `from_env`, `build` | setters in any order and repeated, variables present but unusable, settings the chosen transport cannot honour | what was asked is in force or refused, but for the two settings a custom transport sets aside; no zero timeout, no insecure URL by accident |
| mock transport | `src/transport.rs` | queues under locks of their own | `push_*`, `next`, `sleep` | concurrent calls, a dry script | served once and in order; records pair with responses unless calls overlap |
| order numbers | `src/order.rs` | one atomic counter | `generate_out_trade_no` | wrap-around, clock steps | a whole window of successive numbers differs, whatever the clock does |
| money | `src/money.rs` | none | constructors, fen, JSON, wire text | exact or rounded, several texts of one amount | an amount survives its conversions |
| parameters, signing | `src/params.rs`, `src/signer.rs`, `src/secret.rs` | a sorted map | `insert`, `sign`, `verify` | empty values, letter case, values that hold the joining `&` | both sides sign the same text |
| logging, blocking wrapper, test fixtures, form example | `src/observe.rs`, `src/blocking.rs`, `src/test_util.rs`, `examples/form_payment.rs` | none | – | – | – |

How they interact: a call prepares a request (or refuses it), hands it to the
transport once (POST) or as often as its policy allows (GET), and judges the
answer. The gateway executes the operation at a time of its own. The payer
pays, the gateway notifies the merchant's server, whose extractor parses and
verifies the callback and whose handler records the payment and answers; the
gateway repeats the notification until it hears "success". The answer of
`create_payment` and the notification write the same order record.

## 2. Plan

Written in this order; all of it is done.

1. `Endpoint`, `Errors`, `RetryPolicy`: constants and operators of the calls.
2. `CallPromise`: the abstract call, what any caller may rely on.
3. `GatewayCall`: the concrete call, the network and the gateway; refines `CallPromise`.
4. `GatewayCall_proofs`: its invariant, its safety properties and the refinement.
5. `Transport`: one attempt chunk by chunk, which justifies `ReadOutcome` of `Errors`, the step `GatewayCall` takes at once.
6. `Pagination`: a listing over several calls.
7. `NotifyParse`: a callback from bytes to parameters.
8. `Checkout`: composes `CallPromise` with the order store, the notifications and the payer.
9. `ClientSettings`: from the settings to a client and to the callback URLs of its payments.
10. `OrderLedger`: what a merchant may rely on; `Checkout` implements it.
11. `Signing`, `Money`, `PaymentRequest`, `NotifyVerify`, and `SignedPayment`, which composes them.
12. `ResponseCheck`: the payloads of answers.
13. `MockTransport`, `OrderNumber`.
14. The proof modules: `Reading_proofs` (`Transport` and `NotifyParse`), `Pagination_proofs`, `Checkout_proofs`,
    `SignedPayment_proofs`, `ResponseCheck_proofs`, `MockTransport_proofs`, `Preparation_proofs` (`ClientSettings` and
    `OrderNumber`).

## 3. The modules and the code

**`GatewayCall`**: one function per local variable of a call's future. `pc` is
the await point: `ready` before a request leaves, `waiting` in
`transport.get/post_form`, `backoff` in `transport.sleep`. `Prepare`/`Reject` are
everything before the first attempt; `Send`, `ConnectFails`, `TimesOut`,
`ConnectionBreaks` and `Receive` are the ways one attempt goes; `FailAttempt`,
used by all of them, is the `match` of `get_json` and the `?` of `post_json`;
`Wake` ends a sleep; `Drop` drops the future. `Verdict` is `read_response`,
`finish`, `parse_json`, `response_code` and `validate_success` in their order.
The gateway is external: a request stays in `net` until the gateway executes
it (`Execute`) or it is refused or lost (`Refuse`), even when nobody waits for
the answer any more; a front end may answer 5xx meanwhile (`FrontEndAnswers`).
An answer with a JSON envelope tells the truth about success. Time is counted
inside attempts (`spent`) and in back-off (`slept`).

**`CallPromise`** is the contract: a call ends as `ok`, `refused`, `unknown` or
`abandoned`; a write is executed at most once, never after `refused`.
`Promise == INSTANCE CallPromise WITH ...` in `GatewayCall` maps `Api`, `Param`
and `Transport(Connect)` to `refused`, every other error to `unknown`.
`Connect` is definite for the SDK's own reqwest client, which follows no
redirects; a caller-supplied client with a redirect policy of its own may fail
to connect to the *second* host, and is outside this model.

**`RetryPolicy`** has `MaxDuration` (the largest `Duration`) and `ShiftWidth` (32)
as parameters, so that a small instance crosses both. `DoublesThenStays`, in
`MockTransport`, looks at the delays that calls really sleep: the first is the initial one, each of the next is
twice the one before up to the maximum, and from the sleep at which the exponent reaches the width of the shift
the delay stays what it was, which may be below the maximum (`.min(31)`, `src/config.rs` 257-263); the policies there have
their maximum no lower than the initial delay, because the fields of `RetryPolicy` are private and
`with_backoff` sees to it.

**`Transport`** is one attempt: `ResponseHead`, `Chunk`, `EndOfBody`, `BodyFails` are
the exits of `read_response`, `CustomReturns`/`CustomFails` a transport of the
application, `Finish` the check in `finish`. `JudgedAsAWhole` says that the
result is `ReadOutcome(status, Arrival)`, which is what `GatewayCall` uses.

**`Pagination`**: `Fetch` is one turn of the loop; the gateway lists newest first,
oldest first, or everything whatever the parameters say, and `NewOrder` happens
between two turns. `MaxPage` stands for `u32::MAX`.

**`NotifyParse`**: an input is a sequence of raw pairs per source, one unit of
length each; a pair is a field, blank, or not decodable. `ReadQuery`, `ReadBody`,
`CheckType` are `read_notify_params`; `ParsePair`, `NextSource` the loop of
`parse_source`; `Canonicalize` is `canonicalize` with the empty values `Params::insert`
drops.

**`Checkout`**: the server keeps an order (`Remember`) before it builds a form
or calls `create_payment`; the call is the one of `CallPromise` (`Promise!Open`,
`Promise!Execute`, ...), and `CallReturns` and `Finish` are separate because the
handler waits for the write lock between them. `Notify` is one step because the
handler holds the lock. Orders sold `elsewhere` stand for other services that share
the merchant id. `Stray` callbacks do not verify. `Restart` empties the memory.
An order is sold once: the handlers insert a record under a new number, and that
numbers differ is `RecentDiffer` of `OrderNumber`.

**`OrderLedger`** knows neither handlers nor calls nor notifications: per order
whether it was paid in full, its record, and whether "success" was given and
heard. `KeepsLedger` says that `Checkout` implements it, a record of
`"paid"` appearing only after the full payment and together with the answer.

**`ClientSettings`**: `settings` is the builder, `client` what `build` made of it,
`request` the last payment's callback URLs. `asked` is a history variable, the
last thing the caller or the environment said of each setting; the code has no such
record, the properties compare with it. `New` or `FromEnv` with one `ReadVariable` per
variable begin, `Set` is any setter, `Build` the checks in the order of `build`,
`HttpConfig` and `Config::from_parts`. `AskedIsInForce` compares every field of the client: a custom transport
sets aside the connect timeout and a supplied reqwest client, without an error, and nothing else. `Pay` is `validate_callback_overrides`
followed by `resolve_callbacks`. A check that fails is an early return: `FirstError`. A
URL is its scheme, whether it is well-formed, blank or beyond the length limit. A free-form
variable that is not UTF-8 counts as unset, as in `env::optional`. A form and an API
payment treat callback URLs alike, so one action stands for both.

**`SignedPayment`** is a payment from its builder to its notification. `PaymentRequest`
builds a request (`NewRequest`, `SetOption`), validates, signs and
sends it (`SendApi`, `SendForm`, with the size limit in `SignAndSend`). It travels
by POST, in a redirect URL, or as hidden inputs which a browser decodes and
submits (`Carried`); the gateway verifies what arrives. `NotifyVerify` is
`verify_notify` over a callback the gateway signed (`Emit`, with our key or another's)
and whose fields and digest something altered (`Alter`, `AlterSign`): `VerdictOn` is its checks in their order. A text is a
sequence of tokens of `Alphabet`, one for each kind of text the code tells apart, and HTML a
sequence of pieces, each a token or an ampersand with the name of an entity (a browser joins an
ampersand that nobody escaped with what follows it, and nothing is left in the place of the
second piece). MD5 is symbolic, a digest is what it was made of (`Signing`), so that two digests are
equal only if payload and key are. The payload is the joined text itself, names, `=` and `&` being tokens of it:
`sign_payload` does not encode the values, so two parameter maps may have one text when a value holds `&`, and
`AcceptedIsSigned` claims no more of an accepted notification than that its *text* was signed with our key. That its
data is what was signed is claimed where the text has one reading (`OneReading`): at most one field was
altered, or no value on either side holds `&`. `Money` counts thousandths of a yuan, one
digit finer than a fen.

**`ResponseCheck`**: the gateway keeps the orders of several merchants (`Books`; well-formed numbers that no order has are in `TradeNos` and `OrderNos`), pays,
reverses and closes them, and composes answers (`Respond`) about any of them, in any
form a PHP gateway writes columns, or damaged. `Check` decodes and validates later,
when the state may have moved on. `Order`, `Merchant`, `Settlement`, `Payment`, `Refund` are
the `Deserialize` implementations, `Valid...` the `validate_success` functions.

**`MockTransport`**: `Record` and `Take` are the two critical sections of `next`,
`Sleep` its `sleep`; the caller is the retry loop of a read, or a write. The history
variable `overlapped` says whether two calls were between the two locks at once.

**`OrderNumber`**: `ReadClock` and `Draw` (`fetch_add` and the formatting) are separate,
so threads interleave between them; `SetClock` moves the clock anywhere. `Width`
stands for 2^32 and `Modulus` for 10,000. `recent` is a history of the last
`SafeDraws` numbers: 10,000 if the modulus divides the width, else the remainder
(7,296), because a wrap of the counter starts the sequence anew that early.

Operators whose comment starts with "Fault:" are plausible bugs, not code: each
is the same operation with one mistake, used only to see that a property notices.

## 4. What the runs show

| run | size | shows |
|---|---|---|
| `call` (`MCGatewayCall.cfg`) | 88 k states | one payment, read or refund, every combination of per-call (also 0) and client timeouts and policies (none, two retries with a cut delay), statuses 200/302/501/502/504, codes -1/0/1, all answers and losses. Calls share nothing, so one call shows what any number does; the proofs cover any number. Two retries are the fewest with a second delay different from the first |
| `transport` (`MCTransport.cfg`) | 227 | limit 4, lengths below, at and above it, chunks of 1, 2 and 5 |
| `listing` (`MCPagination.cfg`) | 7.6 k | limits below, inside and above the clamp, up to 6 orders over pages of 1 to 3 |
| `parse` (`MCNotifyParse.cfg`) | 451 k | all inputs of up to 2 + 3 raw pairs over two keys and two values; budgets of 4 units and 3 fields are both exceeded |
| `checkout` (`MCCheckout.cfg`) | 318 k | two orders of the same or another price, three ways of selling, payments of the price or another amount, two trades each, one restart; safety, the refinement of `OrderLedger` and, until the restart, the recording of every payment. No symmetry, because of the liveness property |
| `settings` (`MCClientSettings.cfg`) | 544 k | every combination of the settings, from the constructor and from the environment, every setter from every state, and every pair of overrides of every client. There is nothing to bound: a setting has two to five values the checks tell apart (as a default, a blank URL stands for every malformed one) |
| `call_validated` | violated | finding: a refund's payload is not validated, although "every gateway call" is said to |
| `response` (`MCResponseCheck.cfg`) | 533 k | three orders of two merchants, two of them with one number, and a number that no order has; every endpoint and every way to name an order; seven forms of an integer, three of a text, balances and destinations of every kind, lists of two rows; orders paid, reversed and closed before and after the answer |
| `signed` (`MCSignedPayment.cfg`) | 339 k | three ways of sending; texts with quotes, ampersands, entity-like parts, line feeds, blanks, and beyond each limit; amounts exact, inexact, rounded and negative; one field varied at the gateway, and on the way a message differs in at most two places (`MaxAltered`) from what was sent, the digest being one; a field is lost, or rewritten to a text of `Rewritings` |
| `mock` (`MCMockTransport.cfg`) | 439 k | a read with five retries or none and a write, up to five queued responses, three windows of back-off over a shift of three bits and a largest duration that the doubling crosses; in one of them the width is reached below the maximum, in another the maximum first |
| `numbers` (`MCOrderNumber.cfg`) | 601 k | two threads, a counter of 14 values with modulus 5 (as 2^32 with 10,000 it is no multiple), three times and one before the epoch; the counter wraps many times |
| `signed_line_feed` (`MCSignedPaymentLineFeed.cfg`) | violated | finding: a line feed in `param`, or one inside a callback URL (which `Url::parse` passes over), does not survive a payment page, so its signature does not stay valid |

Deadlock is not checked where calls, collections, parses, payments, verdicts and refused settings end by design.

**Fairness.** `call`: weak fairness of the client's own steps, because the
executor polls a woken future, tokio's timers fire and reqwest enforces the
per-attempt timeout; nothing of the gateway, and no connection has to break.
`transport`: chunks of an endless body keep arriving; this is the adversary, and
no timeout is assumed. `listing`: a page's call ends, which is `EveryCallEnds`.
`mock`: the runtime polls the calls it has started; nothing is assumed of
the test, which may never queue a response. `checkout`: the gateway repeats a notification until it hears "success" and not
every repetition is lost; nothing is assumed of `create_payment` or of the buyer.

## 5. What is proved

`GatewayCall_proofs` proves, for every set of calls, endpoints, timeouts, policies,
statuses and codes that satisfies the named assumptions of `RetryPolicy` and
`GatewayCall`:

* `InvariantHolds`: `IInv` is an invariant. It is needed because none of the properties
  is inductive: that a write is executed once rests on there being one request
  (`attempts <= retries + 1` while waiting, and no retries for a write), on that request
  leaving `net` when it is executed, and on answers that claim or deny
  success only when the gateway did or did not execute; `LoopInv`, `GatewayInv` and `EndInv` say
  this in turn. One lemma per action shows that it is kept.
* `TypeCorrect`, `WritesAtMostOnce`, `DefiniteErrors`, `Successes`, `RetryBudget`, `LatencyBounded` follow from it.
  The two bounds on time need multiplication, so they rest on small lemmas about products.
* `EndedCallsStay`: the action property, by cases on the actions.
* `PromiseKept`: initial states map to initial states and every action to an
  action of `CallPromise` or a stutter, under `IInv`.

The other proof modules prove, likewise for every value of the constants that satisfies the
named assumptions of their modules, a type invariant (`TypeCorrect`) and:

* `Reading_proofs`, of one attempt: the two bounds (`BufferWithinLimit`, `ParsedWithinLimit`), `JudgedAsAWhole` and
  `NothingMissing`. While a body is read, `ReadingInv` equates the buffer with what arrived, which is within the
  limit; without it a chunk could be judged against an unrelated buffer.
* `Reading_proofs`, of the parser: `BudgetsAreShared`, `AcceptedIsMeant` and `SoundIsAccepted`, for any budgets, keys and values
  and raw inputs of any length. None of the three is inductive: what `canonicalize` sees are entries, what they speak of
  are the pairs sent. `EntriesStand` of `ParseInv` is the bridge: there is an increasing function
  from the entries to the places of the fields parsed so far (query before form), it misses none, and no
  pair parsed so far is malformed. So a duplicate or a conflict among the entries
  is one in the input, and the other way round.
* `Pagination_proofs`: `NothingIsSkipped` for any page size and number of orders. `CoverInv`
  is the argument: with the newest first, arriving orders push old ones to *later* pages,
  so an order beyond the rows already read is still to come. `StaticListingIsCopied` rests on `CopyInv`, what is collected
  of a listing that stands still is its beginning, row by row. It and `BoundedCollection`
  need bounds below `MaxPage`, where `next_page` saturates.
* `Checkout_proofs`: `RecordedIsPaid`, `SettledIsRecorded`, `RecordedStays` and the
  refinement of `OrderLedger` for any number of orders, trades and restarts. They rest on
  `Truthful` (a callback that verifies says what was paid, also when it is late),
  `TradeInv` (the answer of `create_payment` and the notification name the same
  trade, because `CallPromise` executes a write once), and `StoreInv`.
* `SignedPayment_proofs`, of a notification: `AcceptedIsSigned` and `IntactIsJudgedByContent` for any
  texts, keys and alterations. `SignInv`: the digest that arrives, in whatever case, was made from
  what was signed. `ReadingsAgree` says when two maps with one joined text are equal: if only one field may differ, the
  rest of the text is the same on both sides of it (`OneUnknown`); if no value holds `&`, the last pair begins at
  the last `&` (`OneText`), and so name by name from the end. The names are in a fixed order and none of them is `&`, `=` or a
  line feed (`NamesAssumption`). `IntactIsJudged` assumes that `NoData` is no notification data.
* `SignedPayment_proofs`, of a request: `RequestsAreUnderstood` and `EchoIsTheRequest` for any texts, amounts and ways of
  sending. `RoundTrip` is the lemma about the page: escaping, cutting at the first quote, decoding and normalizing
  give back every text without a line feed, also one that looks escaped already. `TripInv` then follows the request:
  what is sent passed its checks and is signed as a whole, and a trade is opened with what was asked for. The
  assumptions, all named and evaluated by the run: the inputs are texts of `Alphabet`, the PID is a plain text, and every amount the constructors yield has one.
* `ResponseCheck_proofs`: a query returns the order it asked for, rows of other merchants are
  refused, paid means paid. `AnswerInv` ties each row to an order of the gateway at the time it was
  composed and says what stays true of it although its status moves on. The other direction,
  `HonestIsReturned`, needs `RefusalInv`: a query is refused only for a row that fails a check. It assumes that the amounts of the
  books are amounts, that an `i32` holds the four statuses, and that a garbled text is none of the
  others.
* `MockTransport_proofs`: `ServedInOrder`, `PairedUnlessOverlapped` and `DoublesThenStays`, for any number of calls.
  `PairInv` counts the calls between the two locks. `SleepInv` says that the delay of a sleep is `Backoff` of its number
  among the sleeps of its call, and that this number is the retry about to be made; `BackoffDoubles` is the
  arithmetic. That 2^(n+1) is twice 2^n would take an induction; it is proved instead by counting the subsets of an
  interval (`PowersDouble`).
* `Preparation_proofs`, of the client: `AskedIsInForce`, `RefusedForAReason`, `CallbacksFollowPolicy`, `FitPaymentsAreSent`, for any
  sets of callback texts and quantities. `SettingsInv` says that until a refusal
  the settings are what was asked for last, which setters in any order keep, and that a client is made of settings that passed
  every check; the properties compare the two across `build` and a payment.
* `Preparation_proofs`, of order numbers: `RecentDiffer` for every width, modulus, set of threads and course
  of the clock. Its invariant says which value of the counter each recent number was
  made from; that those values have different remainders, also across a
  wrap, is arithmetic proved first.

Every invariant, action property and refinement that a passing run checks is proved. The type invariants of the modules
except `NotifyParse` and `ClientSettings`, `IInv` and `SuccessMeansExecuted` of `GatewayCall` (the
latter also part of `KeepsPromise`), `ParsedWithinLimit` (part of `JudgedAsAWhole`), `RecordedStays` and
`ServedInOrder` are proved and therefore not checked again by the runs.

Only model-checked: liveness (`EveryCallEnds`, `EndlessBodiesStop`, `CollectingEnds`,
`PaymentsAreRecorded`, `CallsEnd`), which needs fairness and ENABLED, out of reach of this prover, and the two findings,
which are single counterexamples.

## 6. Not modelled

* The blocking wrapper (`src/blocking.rs`): `block_on` around each call. It adds no step to the
  futures of `GatewayCall` and never drops one.
* Logging and redaction (`src/observe.rs`, the redacting functions of `src/error.rs`, `Debug`
  implementations): they change texts, not control.
* `payer_ip`: a pure look-up of headers; accessors, `Display` and the text tables of `PayType` and
  `Device`; the error codes and messages.
* The bytes below the tokens: MD5 itself, percent decoding, JSON syntax, the exact
  alphabets and lengths of identifiers. A token stands for every text of a kind. `<`, `>` and `'` are escaped like the
  quote and the ampersand.
* `debug` and `retry` settings and their variables: nothing in `ClientSettings` depends on them;
  a build without a reqwest feature; `Client::with_transport`.
* Caller-supplied reqwest clients are covered only as far as they behave like the SDK's own.
* `test_util.rs`, the unit tests and `examples/form_payment.rs`.

Some smaller disagreements between texts and code are visible in the models but have no run of
their own: `InvalidResponse` ("The gateway reported success but the payload is unusable") is
also the end of a call whose answer was no JSON at all; `Transport` ("before a response status was
available") is also reported for a chunk that fails after the status; and a default callback
URL beyond 1024 bytes passes `build`, after which every payment that relies on it is refused.
`RetryPolicy` says that the delay "doubles up to `max_backoff`" (`src/config.rs` 204-205), but after 31 doublings
it stays where it is even below the maximum, which takes more than 31 retries and an initial delay far below the
maximum. A reqwest client supplied along with a custom transport is set aside without an error.
`max_pages = u32::MAX` is no bound against a gateway whose pages are always full, hence the hypothesis of
`BoundedCollection`.
