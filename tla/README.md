# A verification of the shop's core logic

TLA+ models, TLC runs and TLAPS proofs for the services under `src/src/` (a fork of the
OpenTelemetry demo shop: some twenty services in Go, C#, C++, Rust, Java, Python,
TypeScript and others that call each other by gRPC, HTTP and one Kafka topic).

Contents: [the system](#the-system) · [the models](#the-models) ·
[what is checked](#what-is-checked) · [what the runs found](#what-the-runs-found) ·
[what is proved](#what-is-proved) · [what is only model-checked](#what-is-only-model-checked) ·
[what is not modelled](#what-is-not-modelled) · [plan](#plan)

## The system

| component | state it keeps | operations | talks to |
|---|---|---|---|
| **checkout** (Go) | none between requests; one Kafka producer shared by all of them | `PlaceOrder` | cart, product-catalog, currency, shipping, payment (gRPC), email (HTTP), Kafka |
| **cart** (C#) | the carts, in Valkey; a connection, a flag and a lock in memory | `AddItem`, `GetCart`, `EmptyCart` | Valkey |
| **payment** (Node) | none: a charge is a decision about one card and the date | `Charge` | – |
| **shipping** (Rust) | none | `GetQuote`, `ShipOrder` | quote (HTTP) |
| **quote** (PHP) | none | `/getquote` | – |
| **currency** (C++) | the table of rates, which lookups may extend | `Convert`, `GetSupportedCurrencies` | – |
| **email** (Ruby) | none | `/send_order_confirmation` | – |
| **product-catalog** (Go) | the products, read at start | `ListProducts`, `GetProduct`, `SearchProducts` | flagd |
| **recommendation** (Python) | `cached_ids`, `first_run`, shared by its threads | `ListRecommendations` | product-catalog, flagd |
| **ad** (Java) | a static map of ads; the worker list of `CPULoad` | `GetAds` | flagd |
| **accounting** (C#) | its offset in the Kafka group | consume, parse, log | Kafka |
| **fraud-detection** (Kotlin) | its offset, a count | poll, parse, log | Kafka, flagd |
| **flagd-ui** (Next.js) | the file with the flags; in every tab a copy of it, with edits, and one spinner | Basic view (select a variant, save), Advanced view (load the schemas, type, save); read and write routes | flagd's file |
| **frontend** (Next.js) | per tab: the session (user id, currency) in localStorage, a cart cache entry per currency, the picked quantity, the checkout form | add to cart, empty, place order, switch the currency; `/api/cart`, `/api/checkout`, ... | cart, checkout, currency, product-catalog, shipping, recommendation, ad |
| **react-native-app** (Expo) | the session in AsyncStorage; per launch a default session, the calls that await it, the form | start (font, tracer), session, API calls, place order | frontend-proxy, with it the frontend's routes |
| Kafka, Valkey, PostgreSQL, flagd, collectors, proxies, load generator | – | external, or configuration | – |

An order is a chain of remote calls from one handler of checkout: read the cart, read the
products, convert prices, ask for a shipping quote, add up, **charge**, **ship**, empty the
cart, mail the confirmation, publish to Kafka. There is no record of the order before it
is published, nothing is retried and nothing is undone.

What is hard here, and what makes each part correct:

* *checkout.* Every call may fail, take effect without its answer arriving, or be cut off
  by the caller's deadline and take effect after it; the process may die at any step, also by its own
  `panic`, and leaves requests under way; the customer changes the cart meanwhile, and may have two orders under way. Correct: nobody
  is sent what was not paid for, or pays twice; nothing is announced that did not
  happen; the status that is returned says what may have happened.
* *money.* Units and nanos with a sign each, added up with carry and borrow; a failing sum
  is a panic of the whole process. Correct: the amount is exact, and legal prices do not panic.
* *Kafka hand-over.* All handlers send to and receive from the channels of one producer; a
  background goroutine takes errors from the same channel; a flag starts goroutines that
  receive as well. Correct: nobody waits for ever, and no response is left behind
  that keeps its place in the producer.
* *cart store.* Read, modify, write and expire are four steps without a transaction. Correct:
  nothing is counted twice, no product is in a cart twice, abandoned carts expire.
* *cart connection.* A flag read without the lock, set and cleared by event handlers of
  connections that may be long replaced. Correct: a call finds a connection, one connect
  at a time, no thread keeps the lock.
* *currency, shipping, quote.* Conversions between decimal digits, doubles and integers.
  Correct: an amount survives them, and failure is not a price.
* *recommendation, ad.* Module-level state shared by threads without (enough) locks. Correct:
  a cache hit has something to return; workers are stopped when the flag goes off.
* *accounting, fraud-detection.* Offsets are committed apart from the processing. Correct: every
  published order is processed, and one bad record does not stop the others.
* *flagd-ui.* Whole-file writes from stale copies, two reads after every save whose answers come in
  any order, a spinner that four kinds of request set and clear. Correct: an edit changes the flag it
  edits, the file stays readable, a page shows its own save, no page stays covered.
* *frontend.* A cart cache around mutations that overlap with its fetches; a total computed in the
  browser; an order that names no items and reads the cart anew; a form that is mounted only while
  the cart has items. Correct: what is shown is what is in the cart, what is ordered and what is
  charged, and what the customer typed stays.
* *react-native-app.* All the calls of a first launch ask for a session that does not exist yet, and
  the app can be killed between reading and storing it; free text for a month; a start that waits for two
  set-ups that can fail. Correct: one user per installation, no completion without
  an order, the app opens (as pinned it does not, see the notes below).

`PROJECT.json` lists these hazards at their lines, with the property that would catch each.

## The models

| module | models | state ↔ code |
|---|---|---|
| `OrderPromise` | what `PlaceOrder` promises, abstractly: a charge at most once per order, a parcel only after it, a truthful answer, and after the answer nothing but what was asked for before it | – |
| `Checkout` | `checkout/main.go` 242-557 and, as its environment, the services it calls and AddItem, EmptyCart and expiry of the cart | `pc` is the line the handler has reached, `snapshot` is `prep.cartItems`, `total` the amount, `live` the contexts not cancelled; `asked` the requests under way; `charged`, `shipped`, `mailed`, `published` are the effects on the other services, as sequences so that a repetition shows |
| `Money` | `checkout/money/money.go` | `Sum` with its tests and branches; Go's truncating `/` and `%` |
| `OrderTotal` | `main.go` 268-275 with `MultiplySlow` and `Must` | `i` the lines taken, `out` and `n` of `MultiplySlow`, `total` |
| `KafkaProducer` | `main.go` 492-557 and `kafka/producer.go` | `pc` per handler and goroutine, `offered` the responses on `Successes()` and `Errors()` |
| `CartStore` | `ValkeyCartStore.cs` 122-221 and `CartService.cs` | `value` and `ttl` of the user's key, `pc` the next Valkey command of each call, `base` what an AddItem has read |
| `ValkeyConnection` | `EnsureRedisConnected`, `ValkeyCartStore.cs` 72-120 | `opened`, `redis`, `holder` are `_isRedisConnectionOpened`, `_redis`, `_locker`; `events` the handlers still to run |
| `Payment` | `payment/charge.js`, `payment/index.js` | no state; `Charge` is the card validator's verdict (external), the brand, the flag, and the months of card and clock compared |
| `CartQuery` | one entry of the query cache of `@tanstack/react-query` 5.64.1 as the web cart provider uses it (external) | `known`/`data`/`stale` the entry, `fetch`/`resp` the request in flight; `Fetch`, `Invalidate`, `Store`, `GiveUp` |
| `WebShop` | `frontend`: currency and cart providers, session and API gateways, product page, cart page, form, `/api/cart` and `/api/checkout` | `session` localStorage, `currency` `selectedCurrency`, `queries` the entry of each currency, `form` the form's state, `calls` the mutations (sent, read by the service, answered), `cart` and `placed` the services behind |
| `MobileShop` | `react-native-app`: session and API gateways, span processor, checkout form's values, `onPlaceOrder`, `request`; the same routes | `stored` AsyncStorage's session, `launch` the module-level id `v4()` drew, `calls` each API call from its first await to its answer, `orders` the shop's |
| `FlagEditor` | `flagd-ui`: both views, `Layout`, `FileEditor`, read and write routes | `file` the JSON file, `page` per tab the view's document, `loading` the spinner, `schema` the schema requests, `reads` the reads in flight (a bag: equal ones occur), `saves` the writes in flight |

The modules meet at named abstractions. `Checkout` takes the amount of a cart as a constant
operator `Amount`, with `Panic` as one of its results; `OrderTotal` is about that computation.
`Checkout` has a cart as a set of units, one per AddItem call, so that every unit's fate can
be told; `CartStore` has items with quantities and the wire-level steps. `Checkout` hands a
record to Kafka in one step; `KafkaProducer` has the waiting.

`WebShop` and `MobileShop` share `Payment`; each has the shop behind its routes as
far as its properties can tell: `WebShop` a cart with the number of its changes, so that snapshots can be
compared, and both of them orders. `WebShop` reuses nothing of `OrderTotal`: its `ShownTotal` is the browser's sum, which
`PaidAsShown` compares with what checkout's loop comes to (`Charged`), with a quote and prices of its own. `FlagEditor` stands alone:
flagd's own reading of the file has no effect on it.

*What the clients' modules leave out of the clients.* `FlagEditor`: each tab keeps its view, and following the
NavBar is another tab. `WebShop`: the home page, ads and recommendations, which only read; the
user id, since one tab never changes it. All of them add a way to fail to every request; `WebShop` has
"focus" as a reason to fetch the cart again, which is react-query's default. `MobileShop` is about the
gateways, whoever calls them: a component may make any call, start a span or submit the form at any time.

*Notes on the code* that the models keep, or set aside, on purpose:

* The web cart provider relies on invalidation. An invalidation drops a fetch in flight and asks again,
  except for the *first* fetch of an entry, which it joins: that answer may be older than the change
  and still counts as valid. `joined` and `late` record it, and the properties except it.
* `react-native-app` calls `useQuery` and `useMutation` with positional arguments, the form of
  react-query 4, and pins 5.64.1, which takes one object: `useQuery` throws at render, and `useMutation`
  would drop its options. So nothing below the
  cart provider runs as pinned, and neither the start nor the cache, the tabs and their badge are modelled;
  `MobileShop` says what holds of the gateways for any caller.
* `api/checkout.ts` 20-22 looks the products up after the order was placed; a failure there is the
  answer of the whole call. `ApiCheckoutEnds` and `ServeOrder` have it as an answer that is not ok: the
  order exists and the customer is told that it failed, or nothing.
* The web total (`CartDetail`) adds each product's price once whatever its quantity, so `PaidAsShown` is
  about orders with quantities of one; the order page's "Total" of an item is its unit cost. The web form labels month 12
  "January". The mobile product card divides nanos by 1e8. `useFonts`' error is not looked at, so a
  font that does not load leaves the app on its splash screen.
* The quote service draws the cost of an item anew for every quote (`routes.php` 29), and the cart page
  and checkout each ask for one (`main.go` 349, `CartItems.tsx` 30): what is charged for shipping is
  not what was shown. `PaidAsShown` takes both quotes out of the comparison. The page shows 0 until its quote arrives.
* In USD the page shows the catalog's price, and checkout has it converted from USD to USD. `getDouble`
  (`server.cpp` 149) loses the zeros that nanos begin with, so 57.08 is charged as 57.8. `WebShop` has both
  prices (`PriceIn`, `PriceAtCheckout`); `PaidAsShown` is about products for which they agree.

*Remote calls.* In `Checkout` a call that changes another service is a request in `asked`. The
service acts on it (`Charge`, `Ship`, `Empty`, `Mail`) at any later time, or never (`Miss`); the handler goes on once the
effect is there, or with an error at any moment, whichever the service did, does or will do. So a charge, a
shipment or an EmptyCart may come after the handler has gone on, has answered or has died. Both results of the
email call and of `EmptyCart` are treated alike by the code, which is why the handler's next step needs no
guard there. A call made after cancellation never leaves, as gRPC clients do it. A read is one step that works or
fails. The customer's own `EmptyCart`, the 60-minute expiry and a restart of the store are one action, `Clear`:
to an order they are the same.

*History variables* are named as such at their declaration (`openAtRead`, `overlapped`,
`resurrected`, `cleared`, `wrote`, `torn`, `stranded`, `due`, `breaks`, `closings`, `gaveUp`; `acked`, `typed`, `disturbed` of the
web shop; `used`, `completed` of the app; `kept`, `overwrote`, `causes`, `stuck`, `own`, `behind`
of the flag editor); no action's guard depends on one, except that `breaks` bounds the environment's `Break`.

*Mutants.* A definition whose comment starts with "Mutant" is not used by the specification. It
is a variant of the definition that follows it (or of one further down), with the kind of bug one might
make there; with the variant in its place a property must fail. `PROJECT.json` says which.

## What is checked

`tlc -config <cfg> <module>` for each run of `PROJECT.json`:

**checkout** (`MCCheckout`, 2.0 million states). Two orders and two units of one customer; one
of the three non-empty carts has a total that panics. Two orders is the least
number that can overlap, and every property speaks of at most two orders or of one unit and those
who met it; orders are symmetric, units are not (`Amount` tells them apart), so only orders are
in the symmetry set. The overload flag is off: its copies tell no more than the message does, and how they
are sent is `KafkaProducer`'s. `ShipmentPaidFor` and `AnnouncedOrderIsReal` are about
staleness, failure and late effects; `RebillHasACause` and `VanishHasACause` say exactly which interleavings bill a unit twice or lose
it, so that nothing else does: a unit is lost by the customer's own EmptyCart, by the store (expiry,
restart), or by an overlap of its AddItem with another one or with an order that had read the cart and could still empty it,
be it by an EmptyCart that is under way after the order's answer. `KeepsPromise` is the refinement of
`OrderPromise`: after Internal the charge may still come, after Unavailable the parcel, after success nothing.

**order_total** (`MCOrderTotal`, 27,000 states). All orders of up to two lines with costs from 0
to 1⅔ units (3 nanos to a unit) and quantities -1, 0, 1, 2, 3 in 3-bit words. The grid has amounts
below, at and above a unit, every carry and borrow, and a negative quantity that wraps to 7.
`TotalExact`; `PanicHasACause` says that only amounts below one unit panic.

**cart_store** (`MCCartStore`, 560,000 states). Three AddItem calls, two of them for the same
product with a sum that wraps, an EmptyCart, a GetCart; keys live two ticks. Three is what it takes for a lost
update between two calls and a third to see its effects. `EachCallCountsOnce`: the cart is always the sum
of *some* set of the calls that wrote, each counted once, and of all of them as long as it was not emptied,
dropped or overwritten by a call that had read another cart (`torn`). `ImmortalHasACause` and, as liveness,
`AbandonedCartExpires`: the 60-minute limit fails only after a call that ended between HSET and EXPIRE.

**kafka_producer** (`MCKafkaProducer`, 206,000 states). Two handlers, two overload goroutines each,
and room for two messages or responses, so that all of them contend. Deadlock is not checked: the
code really may stop, with a goroutine that waits for a response that was logged as an error, and
`StuckHasACause` says that nobody waits for a response that never comes for another reason (waiting for room is not
counted by it; `HealthyProducerServesAll` covers it as long as nothing fails). `LeftoverHasACause`: a place in the
producer is kept for good only by a response whose handler gave up its wait.

**valkey_connection** (`MCValkeyConnection`, 31,000 states). Three calls, two breaks: one call to
hold the lock, one to wait, one to arrive; and a stale and a current connection to break.

**web_shop** (`MCWebShop`, 1.7 million states). One tab, two products, two currencies, two overlapping
mutations, one move to another page or currency or a reload. Two calls are what it takes for a change and an order, or two
changes, to overlap; a second currency gives an entry that is not on the screen when it is invalidated. A unit has ten
nanos, so that the sums carry; there are two quotes, and one price that conversion to its own currency changes. `ValidEntryIsCurrent`: the cache never passes off a cart from before
an acknowledged change as valid. `OrderIsWhatWasShown`: an order placed when the page was settled
(no fetch under way, data valid, every call so far acknowledged) and with no second click is for what the page showed, although
checkout reads the cart anew. `PaidAsShown`: total and charge for the same items differ by what the two quotes
differ, and by nothing else where quantities are one and the two prices agree. `FormKeepsInput`.

**mobile_shop** (`MCMobileShop`, 2.3 million states). Three launches with a kill at any moment, three API calls, spans or
orders, months 1, 12 and 13. A second launch draws another user id, and a third meets what both of the others left;
three calls are two that race for the session and one that comes later. `OneUserPerInstall`:
however the awaits of the session interleave, every request names the one stored user.
`CompleteMeansPlaced`; `PaidWithUsableCard` (month 13 is January of the next year to `charge.js`, so
only an impossible month passes an expired card).

**flag_editor** (`MCFlagEditor`, 1.4 million states). Two tabs, one with each view, one flag, one edit,
two saves, one trouble (a page loaded again or a request that fails). Two saves are what can overlap or
undo each other; one edit tells an edited flag from one that was not. `BrokenFileHasACause`,
`LostUpdateHasACause`, `PageShowsOwnSave` and `StuckSpinnerHasACause` each say when the bad thing
may happen, and that nothing else leads to it.

*Fairness.* `WebShop` and `FlagEditor` claim safety only and have none. `Checkout`, `OrderTotal` and `MobileShop` have none either. `CartStore`: a call
that has started goes on (a command either is answered or times out) and time passes; calls need not
start. `KafkaProducer`: runnable goroutines run, and the producer answers what it accepted, as sarama
promises; nobody has to cancel. `ValkeyConnection`: runnable threads run, and `Connect` returns
(it has a finite number of retries). Connections need not come back, and events need not be handled.
All of it is weak fairness.

*Bounds.* `MaxBreaks` limits the breaks, `MaxCalls` and `MaxMoves` the web customer, `MaxLaunches` and `MaxCalls`
the mobile app, `MaxEdits`, `MaxSaves` and `MaxTroubles` the operators; larger values of these, tried with random simulation, found
nothing that the small ones do not have. Everything else is finite because calls and orders are given as constants,
and `Overload`, `Buffer`, `TTL`, `Width`, `MaxLines`, `NanosMod` are small in the runs and arbitrary
in the proofs.

## What the runs found

Four runs end in a counterexample, each to a sentence of the repository:

* **checkout_mail**: "We've sent you a confirmation email" is shown for every placed order; the
  handler ignores the failure of the mail call, and a cancelled context always makes it fail.
* **order_total_borrow**: the branch of `Sum` commented "different sign" is taken for two amounts
  that are both not negative when their units add up to 0. `0 + 0.99` is then 1 unit and -10,000,000
  nanos, which the next `Sum` rejects, and `Must` panics. Two of a product at 0.99, which the
  catalog has, still add up (1.98 has a unit to carry); two of anything below 0.50 make a malformed line and
  a panic; and with free shipping the first line below 1 leaves a malformed total, which is charged
  as it is if no other line follows and panics otherwise.
* **cart_store_name**: a cart emptied and filled again carries no user id.
* **kafka_own_response**: a handler logs the offset of another order's message as its own.

Some properties are weaker than one might wish because the code does not do better, and say so:
orders that overlap bill a cart twice (`RebillHasACause`), items can vanish
(`VanishHasACause`), a key can stay for ever (`ImmortalHasACause`), a goroutine can wait for ever
(`StuckHasACause`), the charge of a failed order stands, or comes after the error (`OrderPromise`'s `FailInternal`), a flag
file can be broken by an early, an overlapping or a failed write (`BrokenFileHasACause`), a save can undo
another operator's (`LostUpdateHasACause`), an old read can hide a save (`PageShowsOwnSave`), and a
spinner can stay for ever (`StuckSpinnerHasACause`).

## What is proved

The proofs hold for every value of the constants that satisfies the named `ASSUME` of its module
(`CheckoutAssumption`, `MoneyAssumption`, `OrderTotalAssumption`, `CartStoreAssumption`,
`KafkaProducerAssumption`, `ValkeyConnectionAssumption`; `ShopAssumption` and `FormAssumption` of
`WebShop`; `BoundAssumption` and `FormAssumption` of `MobileShop`; `NowAssumption`, `EditorAssumption`); TLC evaluates them in the runs.

* `CheckoutProofs`: all six properties of run checkout. The invariants are not inductive by
  themselves; `MoneyInv` ties `pc` and the requests under way to the effects so far (nothing charged or asked before "charge",
  exactly the total before "ship", the parcel equal to the snapshot after it, a charge under way only if
  none was made and no parcel asked for, ...) and `CartInv` ties snapshots,
  `emptied`, `openAtRead`, `cleared` and the cart together. The refinement follows from `MoneyInv`: each action
  is one of `OrderPromise`'s or a stutter, the services' late ones included.

Every safety property of every passing run is a theorem.

* `OrderTotalProofs`: types, `TotalExact` and `PanicHasACause`. `SumExact` (a sum that does not fail is worth
  its operands' sum), `SumGood` (what form the result has) and `NanosFit` (the int32 nanos do not overflow)
  are lemmas about `Money`; the loop invariant says that `total`, `out` and the turns to go make up `due`.
* `CartStoreProofs`: types, `OneItemPerProduct`, `EachCallCountsOnce` and `ImmortalHasACause`. Carts that calls have read
  must be free of duplicates too, since they are written back later; hence `BasesOK` in the invariant. For the
  same reason `CountInv` says of every cart that a call has read, and not only of the stored one, that it counts
  calls that wrote, each once and never the reader itself. Quantities are int32 sums: `WrapSum` says that
  wrapping after every addition is wrapping once (`ModTurns` is the arithmetic), and `AddedCounts` that
  writing a cart back with an item added counts one call more.
* *Sums over finite sets* (in `CartStoreProofs` and `WebShopProofs`). The community modules' sums fold over
  elements that `CHOOSE` picks, so nothing follows from their definition about taking out an element of one's own choice.
  `SumTakeOut` is that fact; it rests on `SumUnique` and `SumExists` (one function on the subsets of a finite
  set satisfies the fold's equation), proved by `SubsetInduction`: a family of subsets that has every subset
  whose proper subsets it has, has them all. It is stated for a set and not for a predicate, and so
  needs no operator as a parameter.
* `KafkaProducerProofs`: types and bound, `StuckHasACause`, `LeftoverHasACause`. `OnePlace` says that a message is
  in one place at a time, and `CopiesLater` that copies start after their handler is done; the `Ledger` then is
  exact: messages, responses and drained errors are together as many as the waiting senders and those that gave up.
* `ValkeyConnectionProofs`: types, mutual exclusion (`OneCallInside`), `UseHasMultiplexer`,
  `OneConnectPerClosing`. `Accounted` is the strengthening: a multiplexer that no closing accounts
  for yet is in use, or about to be, and the call about to connect knows that there is none.
* `WebShopProofs`: types, `ValidEntryIsCurrent`, `OrderIsWhatWasShown`, `PaidAsShown`, `FormKeepsInput`. `FreshInv` extends the first
  to every entry and to the answer in flight: it was read after the last acknowledged change, or an
  invalidation joined it. `SnapshotInv`: an answer with the number of the present cart *is* the present
  cart. `ToldInv`: when no call has failed, the tab knows of the last change, or is about to. From these `OrderInv`: a
  settled order shows the cart, nothing else is under way, so what checkout reads is what was shown.
  `PaidIsShown`: carrying keeps an amount (`CarryKeeps`), and the units and the nanos, added up apart over the products
  in the cart, are worth the sum of the amounts (`SumOfAmounts`), which is checkout's sum when every quantity is one.
  `FormInv` says why the form cannot be unmounted: as long as the cart was never emptied, nothing that
  is stored or on its way is an empty cart.
* `MobileShopProofs`: types, `OneUserPerInstall`, `CompleteMeansPlaced`, `PaidWithUsableCard`. `UserInv`: every id
  in use is the stored one, and whoever is about to store finds nothing stored or its own launch's id. `OrdersInv`: the completions
  shown and the orders acknowledged but not shown yet (`Owed`) are together at most the orders placed. `ExpiredIsPast`: months added to years times twelve
  compare as the calendar does for every month from 1 to 12.
* `FlagEditorProofs`: types, all four safety properties. `LostInv`
  follows a document from the file through read, page and save: if no save ended since, it differs from the
  file only in the edited flags. `BrokenInv` follows its kind the same way, with the cause already
  recorded, and says that two writes at once, or a write that ended inside another, are recorded as
  "overlap". `SpinnerInv`: under a spinner a schema request is under way, or a save whose end the tab will
  hear, or the tab is recorded as stuck. `ShowInv`: a read asked for since the tab's last save brings that
  save or a newer version, and as long as the page does not show it, such a read is in the bag of reads; `Counted`
  keeps the bag's multiplicities, so that removing one read does not remove its equals.

## What is only model-checked

* Liveness (`AbandonedCartExpires`, `CancelledHandlerEnds`, `HealthyProducerServesAll`, `EveryCallEnds`):
  the proof system does not handle fairness and ENABLED here.

## What is not modelled

* Formatting, logging, spans, metrics and configuration; the telemetry amounts of `main.go` 302-303,
  which drop the nanos, are part of that.
* In the clients: styles, toasts (the app's "added" and "emptied" come before the answer), image URLs, spans and
  baggage beyond the user id; ads and recommendations on the web pages.
* The small test of a new connection writes the key "cart" (`ValkeyCartStore.cs` 102), which is the key of a
  user of that name; user ids are UUIDs in the storefront.
* In the mobile app: the start, the cart provider's cache, the tabs and their badge, and the carts behind them. As pinned,
  the provider throws when it is first rendered. The session, the requests and the orders do not rest on it.
* Several checkout processes: an order never leaves its process, so that more of them add
  interleavings of the same kind as more orders.
* The components marked `not_modelled` in `PROJECT.json`, each with its reason; those in the plan come next.

## Plan

Done, in this order: `OrderPromise`, `Checkout`, `Money`, `OrderTotal`, `CartStore`, `KafkaProducer`,
`ValkeyConnection`, `Payment`, `CartQuery`, `WebShop`, `MobileShop`, `FlagEditor` and their proofs. To come:

1. `Pricing`: `getDouble`, `getUnitsAndNanos`, `Convert` with the table that grows (`currency`),
   `create_quote_from_float`, `get_quote` (`shipping`), `calculateQuote` with its `finally` (`quote`);
   as functions over digits and widths, against exact decimal conversion.
2. `OrderConsumers`: Kafka log, group offsets, timed commits, rebalance and crash for accounting and
   fraud-detection, against the abstract "every published order is processed at least once".
3. `Recommendation`, `CpuLoad`: threads on shared state.
4. A composition of `CartStore` and `Checkout` in which a unit is an AddItem call, to replace the
   two-step AddItem of `Checkout` by a refinement; and of `WebShop` with `Checkout`, whose `PlaceOrder` is
   two steps of `WebShop` now.
5. Proofs: that `due` is the sum over the lines (a fold over a sequence), and the compositions of step 4.
