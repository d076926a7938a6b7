------------------------------- MODULE WebShop -------------------------------
(***************************************************************************)
(* The web shop (src/src/frontend): one browser tab, the Next.js API routes *)
(* it calls, and the gRPC services behind them as far as the routes see      *)
(* them.  The tab is the currency provider, the cart provider with its query *)
(* and its mutations, the product page, the cart page with the checkout form *)
(* and the page of a placed order.                                           *)
(*                                                                           *)
(* A cart is a function from products to quantities; the server's cart also  *)
(* counts its changes, so that snapshots can be compared.                    *)
(***************************************************************************)
EXTENDS Integers, FiniteSets, SequencesExt, CartQuery, Payment

CONSTANTS
  Currency,             \* model values
  DefaultCurrency,      \* 'USD', the currency of a new session
  ListPrice,            \* ListPrice[p]: the catalog's price, in DefaultCurrency
  Converted,            \* Converted[c][p]: what the currency service makes of it for c
  Quotes,               \* what the shipping of a cart may cost
  Earlier,              \* what the user's cart may hold from an earlier visit
  Nano,                 \* nanos in a unit: 10^9 in the code
  MaxQuantity,          \* the largest quantity the product page offers
  Numbers, Years, Months,  \* what a customer types and selects for the card
  MaxCalls,             \* bound: mutations the customer starts
  MaxMoves              \* bound: currency switches, window focuses and reloads

ASSUME ShopAssumption ==
  /\ DefaultCurrency \in Currency
  /\ Product # {} /\ IsFiniteSet(Product)
  /\ Nano \in Nat \ {0}
  /\ ListPrice \in [Product -> [units : Nat, nanos : Nat]]
  /\ Converted \in [Currency -> [Product -> [units : Nat, nanos : Nat]]]
  /\ Quotes \subseteq [units : Nat, nanos : Nat]
  /\ Earlier \subseteq [Product -> Nat]
  /\ MaxQuantity \in Nat \ {0}
  /\ MaxCalls \in Nat

Quantity == 1..MaxQuantity

\* What picked is on another page than a product's.
NoPick == [product |-> CHOOSE p \in Product : TRUE, quantity |-> 1]

DefaultForm == [number |-> "visa", year |-> 2030, month |-> 1]

VARIABLES
  session,      \* localStorage: the currency of the session
  currency,     \* CurrencyProvider: selectedCurrency
  page,         \* the route: "product", "cart" or "done" (a placed order)
  picked,       \* the product page: [product, quantity]
  queries,      \* the cart query, one entry per currency
  form,         \* CheckoutForm: the card in its state
  calls,        \* the mutations, in the order they were started
  cart,         \* cart service: the user's cart and the number of its changes
  placed,       \* checkout service: the last order placed for the user, if any
  moves,        \* bound used
  acked,        \* history: the newest cart change the tab was told of
  typed,        \* history: the card as the customer typed it on this visit
  disturbed     \* history: what may have cost the customer the form: "switched"
                \* or "loaded" since the cart page was opened, "emptied" ever

tabVars == <<currency, page, picked, queries, form>>
serverVars == <<cart, placed>>
histVars == <<acked, typed, disturbed>>
vars == <<session, currency, page, picked, queries, form, calls, cart, placed,
          moves, acked, typed, disturbed>>

Card == [number : Numbers, year : Years, month : Months]

ASSUME FormAssumption == DefaultForm \in Card

-----------------------------------------------------------------------------
(* What the customer sees.                                                  *)

\* useQuery in CartProvider: the entry of the selected currency, or no items.
Shown == queries[currency].data.items

ItemCount(items) == FoldFunctionOnSet(LAMBDA a, b : a + b, 0, items, Product)

\* getProductPrice: a price is converted unless the currency is the catalog's.
PriceIn(c, p) == IF c = DefaultCurrency THEN ListPrice[p] ELSE Converted[c][p]

\* prepOrderItems: checkout has every price converted.  In DefaultCurrency that
\* need not give the price back: the currency service loses the zeros that the
\* nanos begin with.
PriceAtCheckout(c, p) == Converted[c][p]

Free == [units |-> 0, nanos |-> 0]

\* GetQuote: what the shipping of some items may cost.  The quote service draws
\* the cost of an item anew for every quote.
ShippingOf(items) == IF ItemCount(items) = 0 THEN {Free} ELSE Quotes

\* The cart page shows the details, with the form, only for a cart with items.
DetailShown(where, items) == where = "cart" /\ items # NoItems

\* CartItems: the price of each product once, whatever its quantity, plus the
\* shipping, with the nanos carried into units.
InCart(items) == {p \in Product : items[p] > 0}

UnitSum(items, c, shipping) ==
  SumFunctionOnSet([p \in Product |-> PriceIn(c, p).units], InCart(items)) + shipping.units

NanoSum(items, c, shipping) ==
  SumFunctionOnSet([p \in Product |-> PriceIn(c, p).nanos], InCart(items)) + shipping.nanos

\* Mutant: the nanos carried into units are not taken from the nanos.
ShownTotalCarriesTwice(items, c, shipping) ==
  [units |-> UnitSum(items, c, shipping) + NanoSum(items, c, shipping) \div Nano,
   nanos |-> NanoSum(items, c, shipping)]

ShownTotal(items, c, shipping) ==
  [units |-> UnitSum(items, c, shipping) + NanoSum(items, c, shipping) \div Nano,
   nanos |-> NanoSum(items, c, shipping) % Nano]

\* ProductPrice: units + nanos / 10^9, here in nanos.
PriceShown(m) == m.units * Nano + m.nanos

\* PlaceOrder charges each product times its quantity, and the shipping.
Charged(o, shipping) ==
  SumFunctionOnSet([p \in Product |-> o.items[p] * PriceShown(PriceAtCheckout(o.currency, p))],
                   Product) + PriceShown(shipping)

-----------------------------------------------------------------------------
(* The tab: loading, the currency, the pages and the form.                  *)

\* The cart entries of a fresh tab.  The first render asks for the cart in
\* currency '', an entry that is never shown; the first effect selects the
\* session's currency, and the fetch of its entry starts.
Loaded(c) == [d \in Currency |-> IF d = c THEN Fetch(NewEntry) ELSE NewEntry]

Init ==
  /\ session = DefaultCurrency
  /\ currency = session
  /\ page \in {"product", "cart"}
  /\ picked \in IF page = "product" THEN [product : Product, quantity : {1}] ELSE {NoPick}
  /\ queries = Loaded(session)
  /\ form = DefaultForm
  /\ calls = <<>>
  /\ cart \in [items : Earlier, version : {0}]
  /\ placed = {}
  /\ moves = 0
  /\ acked = 0
  /\ typed = DefaultForm
  /\ disturbed = {}

\* Mutant: the form is mounted again whenever the cart is rendered.
FormResets(where, items) == form' = DefaultForm

\* A tab whose cart page is no longer shown, or shown empty, loses the form's
\* state: CheckoutForm is unmounted, and mounted again with its defaults.
FormStays(where, items) ==
  form' = IF DetailShown(where, items) THEN form ELSE DefaultForm

Disturb(how) == disturbed' = disturbed \union {how} /\ typed' = DefaultForm

\* The cart page is opened: the form is mounted with its defaults.
OpenForm == disturbed' = disturbed \intersect {"emptied"} /\ typed' = DefaultForm

Move == moves < MaxMoves /\ moves' = moves + 1

\* setSessionValue: localStorage survives the tab.
setSessionValue(c) == session' = c

\* onSelectCurrency: the state and the session; the entry of the currency is
\* on the screen from now on, and fetched whatever it holds.
onSelectCurrency(c) ==
  /\ currency' = c
  /\ setSessionValue(c)
  /\ queries' = [queries EXCEPT ![c] = Fetch(@)]

\* The switcher of the header, on every page; the form goes while the entry of
\* the new currency has no items.
SelectCurrency(c) ==
  /\ c # currency
  /\ Move
  /\ onSelectCurrency(c)
  /\ FormStays(page, queries[c].data.items)
  /\ Disturb("switched")
  /\ UNCHANGED <<page, picked, calls, serverVars, acked>>

\* Mutant: the page of another product starts with none selected.
ProductPageUnset(p) == [product |-> p, quantity |-> 0]

\* The product page: another product starts at quantity 1.
ProductPage(p) == [product |-> p, quantity |-> 1]

\* A product card, on any page: the link to its product, which is the page
\* shown already or another one.
OpenProduct(p) ==
  /\ page' = "product"
  /\ picked' = IF page = "product" /\ p = picked.product THEN picked ELSE ProductPage(p)
  /\ FormStays("product", Shown)
  /\ UNCHANGED <<session, currency, queries, calls, serverVars, moves, histVars>>

PickQuantity(n) ==
  /\ page = "product"
  /\ picked' = [picked EXCEPT !.quantity = n]
  /\ UNCHANGED <<session, currency, page, queries, form, calls, serverVars,
                 moves, histVars>>

\* Go to Shopping Cart, in the dropdown of the header.
OpenCart ==
  /\ page # "cart"
  /\ page' = "cart"
  /\ picked' = NoPick
  /\ FormStays("cart", Shown)
  /\ OpenForm
  /\ UNCHANGED <<session, currency, queries, calls, serverVars,
                 moves, acked>>

\* handleChange of CheckoutForm: one field changes, the others stay.
EditForm(f, v) ==
  /\ DetailShown(page, Shown)
  /\ form' = [form EXCEPT ![f] = v]
  /\ typed' = IF disturbed # {} THEN typed ELSE [typed EXCEPT ![f] = v]
  /\ UNCHANGED <<session, currency, page, picked, queries, calls, serverVars,
                 moves, acked, disturbed>>

\* The fields of the card, and what the form lets the customer enter in them.
EditSomeField ==
  \/ \E n \in Numbers : EditForm("number", n)
  \/ \E y \in Years : EditForm("year", y)
  \/ \E m \in Months : EditForm("month", m)

\* The window gets the focus back: the entry on the screen is fetched again.
Refocus ==
  /\ Move
  /\ queries' = [queries EXCEPT ![currency] = Fetch(@)]
  /\ UNCHANGED <<session, currency, page, picked, form, calls, serverVars,
                 histVars>>

\* A call is "sent"; that of an order is "read" once the checkout service has
\* the cart; it is answered "ok" and then, handled by the tab, "acked".  An
\* answer that is no JSON, or none, rejects the promise: the call has "failed",
\* nothing is invalidated and the awaiting handler ends.
Stage == {"sent", "read", "ok", "acked", "failed"}

NoCall ==
  [kind |-> "none", stage |-> "sent", heard |-> TRUE, item |-> NoPick,
   currency |-> DefaultCurrency, card |-> DefaultForm, shown |-> NoItems,
   settled |-> FALSE, read |-> NoItems, version |-> 0]

Failed == [NoCall EXCEPT !.stage = "failed"]

\* A call whose answer nobody waits for any more.
Unheard(c) ==
  IF c.stage \in {"sent", "read"} THEN [c EXCEPT !.heard = FALSE] ELSE Failed

\* The page is loaded again: everything but the session is lost, and nobody
\* waits for the calls that are under way.
Reload ==
  /\ Move
  /\ currency' = session
  /\ queries' = Loaded(session)
  /\ picked' = [picked EXCEPT !.quantity = 1]
  /\ form' = DefaultForm
  /\ calls' = [m \in DOMAIN calls |-> Unheard(calls[m])]
  /\ Disturb("loaded")
  /\ UNCHANGED <<session, page, serverVars, acked>>

-----------------------------------------------------------------------------
(* The mutations of the cart provider, as the tab sees them.                *)

\* The screen shows a valid cart entry, and every call has been acknowledged.
Settled ==
  /\ queries[currency].known /\ queries[currency].fetch = "idle"
  /\ ~queries[currency].stale /\ ~queries[currency].late
  /\ \A m \in DOMAIN calls : calls[m].stage = "acked"

\* mutateAsync: the request of a click, with what its closure holds.  Nothing
\* keeps the customer from a second click while a call is under way.
Start(call) ==
  /\ Len(calls) < MaxCalls
  /\ calls' = Append(calls, call)
  /\ UNCHANGED <<session, currency, page, picked, queries, form, serverVars,
                 moves, histVars>>

\* Add To Cart on the product page, with the quantity selected.
ClickAdd ==
  /\ page = "product"
  /\ Start([NoCall EXCEPT !.kind = "add", !.item = picked])

\* Empty Cart on the cart page.
ClickEmpty ==
  /\ DetailShown(page, Shown)
  /\ Start([NoCall EXCEPT !.kind = "empty"])

\* Place Order: the form's values as they are, and the selected currency.
ClickPlaceOrder ==
  /\ DetailShown(page, Shown)
  /\ Start([NoCall EXCEPT !.kind = "order", !.currency = currency, !.card = form,
                          !.shown = Shown, !.settled = Settled])

\* The awaiting handlers: the cart page after Add To Cart, wherever the customer
\* is by then; nothing after Empty Cart; the order's page after Place Order.
AfterCall(kind) ==
  CASE kind = "add" -> "cart" [] kind = "empty" -> page [] kind = "order" -> "done"

\* Mutant: the carts are left alone.
ForgetCarts == UNCHANGED queries

\* onSuccess of the mutations: every cart entry is invalidated.
InvalidateCarts == queries' = [c \in Currency |-> Invalidate(queries[c], c = currency)]

\* The answer of a mutation: onSuccess, and the awaiting handler goes on.
CallSucceeds(m) ==
  /\ calls[m].stage = "ok"
  /\ calls' = [calls EXCEPT ![m] = [NoCall EXCEPT !.stage = "acked"]]
  /\ InvalidateCarts
  /\ page' = AfterCall(calls[m].kind)
  /\ picked' = IF page' = "product" THEN picked ELSE NoPick
  /\ FormStays(page', Shown)
  /\ acked' = IF calls[m].version > acked THEN calls[m].version ELSE acked
  /\ IF page # "cart" /\ page' = "cart"
     THEN OpenForm
     ELSE UNCHANGED <<typed, disturbed>>
  /\ UNCHANGED <<session, currency, serverVars, moves>>

\* The answer of a fetch of the cart is stored.
FetchSettles(c) ==
  /\ queries[c].fetch = "answered"
  /\ queries' = [queries EXCEPT ![c] = Store(@)]
  /\ FormStays(page, queries'[currency].data.items)
  /\ UNCHANGED <<session, currency, page, picked, calls, serverVars,
                 moves, histVars>>

-----------------------------------------------------------------------------
(* The API routes.                                                          *)

\* GET /api/cart: the cart as it is now; a product that cannot be looked up or
\* converted makes the whole answer an error, and so often that the retries of
\* the query are used up.
ApiGetCart(c) ==
  /\ queries[c].fetch = "asked"
  /\ \/ queries' = [queries EXCEPT ![c].fetch = "answered", ![c].resp = cart]
     \/ queries' = [queries EXCEPT ![c] = GiveUp(@)]
  /\ UNCHANGED <<session, currency, page, picked, form, calls, serverVars,
                 moves, histVars>>

\* The cart changes, and the call remembers which change it was.
Change(items) == cart' = [items |-> items, version |-> cart.version + 1]

\* The end of a route that has had its effect: an answer, or an error because a
\* later step of the route failed or the answer was lost.
Answer(m, ok) ==
  LET c == calls[m]
  IN  calls' = [calls EXCEPT ![m] =
                  IF ok /\ c.heard
                  THEN [NoCall EXCEPT !.kind = c.kind, !.stage = "ok", !.version = cart'.version]
                  ELSE Failed]

\* An error before any effect.
Refuse(m) == UNCHANGED cart /\ Answer(m, FALSE)

\* POST /api/cart: addItem, then getCart for the answer.
ApiAddItem(m) ==
  /\ calls[m].kind = "add" /\ calls[m].stage = "sent"
  /\ LET i == calls[m].item
     IN  \/ /\ Change([cart.items EXCEPT ![i.product] = @ + i.quantity])
            /\ \E ok \in BOOLEAN : Answer(m, ok)
         \/ Refuse(m)
  /\ UNCHANGED <<session, tabVars, placed, moves, histVars>>

\* DELETE /api/cart.
ApiEmptyCart(m) ==
  /\ calls[m].kind = "empty" /\ calls[m].stage = "sent"
  /\ \/ /\ Change(NoItems)
        /\ \E ok \in BOOLEAN : Answer(m, ok)
        /\ Disturb("emptied")
     \/ Refuse(m) /\ UNCHANGED <<disturbed, typed>>
  /\ UNCHANGED <<session, tabVars, placed, moves, acked>>

\* POST /api/checkout, first half of PlaceOrder: the checkout service reads the
\* cart, or fails before it has charged anything.
ApiCheckoutReads(m) ==
  /\ calls[m].kind = "order" /\ calls[m].stage = "sent"
  /\ \/ /\ calls' = [calls EXCEPT ![m].stage = "read", ![m].read = cart.items,
                                  ![m].settled = @ /\ m = Len(calls)]
        /\ UNCHANGED cart
     \/ Refuse(m)
  /\ UNCHANGED <<session, tabVars, placed, moves, histVars>>

\* Second half: the card is charged, the order placed, and the cart emptied if
\* that call succeeds (its error is ignored); then the route looks up every
\* product of the order, and an error there is the answer of the whole call.
ApiCheckoutEnds(m) ==
  /\ calls[m].stage = "read"
  /\ \/ /\ \E unlucky \in BOOLEAN : ~ChargeSucceeds(calls[m].card, unlucky)
        /\ Refuse(m)
        /\ UNCHANGED <<placed, disturbed, typed>>
     \/ /\ \E unlucky \in BOOLEAN : ChargeSucceeds(calls[m].card, unlucky)
        /\ placed' = {[items |-> calls[m].read, shown |-> calls[m].shown,
                       settled |-> calls[m].settled, currency |-> calls[m].currency,
                       card |-> calls[m].card]}
        /\ Change(NoItems) \/ UNCHANGED cart
        /\ \E ok \in BOOLEAN : Answer(m, ok)
        /\ Disturb("emptied")
  /\ UNCHANGED <<session, tabVars, moves, acked>>

-----------------------------------------------------------------------------
Customer ==
  \/ \E c \in Currency : SelectCurrency(c)
  \/ \E p \in Product : OpenProduct(p)
  \/ \E n \in Quantity : PickQuantity(n)
  \/ OpenCart \/ EditSomeField \/ Refocus \/ Reload
  \/ ClickAdd \/ ClickEmpty \/ ClickPlaceOrder

Server(m) == ApiAddItem(m) \/ ApiEmptyCart(m) \/ ApiCheckoutReads(m) \/ ApiCheckoutEnds(m)

Next ==
  \/ Customer
  \/ \E m \in DOMAIN calls : CallSucceeds(m) \/ Server(m)
  \/ \E c \in Currency : FetchSettles(c) \/ ApiGetCart(c)

Spec == Init /\ [][Next]_vars

-----------------------------------------------------------------------------
CallState ==
  [kind : {"none", "add", "empty", "order"}, stage : Stage, heard : BOOLEAN,
   item : [product : Product, quantity : Quantity], currency : Currency, card : Card,
   shown : [Product -> Nat], settled : BOOLEAN, read : [Product -> Nat], version : Nat]

Order ==
  [items : [Product -> Nat], shown : [Product -> Nat], settled : BOOLEAN,
   currency : Currency, card : Card]

TypeOK ==
  /\ session \in Currency /\ currency \in Currency
  /\ page \in {"product", "cart", "done"}
  /\ picked \in [product : Product, quantity : Quantity]
  /\ queries \in [Currency -> Entry]
  /\ form \in Card /\ typed \in Card
  /\ calls \in Seq(CallState) /\ Len(calls) <= MaxCalls
  /\ cart \in Cart /\ acked \in 0..cart.version
  /\ placed \subseteq Order
  /\ disturbed \subseteq {"switched", "loaded", "emptied"}

\* Cart provider, onSuccess: once the tab was told that a change of the cart
\* succeeded, a valid cart entry holds that change or a newer one.  A response
\* that was on its way when the change happened never counts as valid, unless
\* it answers the first fetch of its entry, which an invalidation joins.
ValidEntryIsCurrent ==
  LET q == queries[currency]
  IN  q.known /\ q.fetch = "idle" /\ ~q.stale /\ ~q.late => q.data.version >= acked

\* Cart page and checkout: an order placed from a settled page, with no second
\* click before the checkout service has read the cart, is for the items the
\* page showed, although the cart is read again and by another service.
OrderIsWhatWasShown ==
  \A o \in placed : o.settled => o.items = o.shown

\* Cart page total and charge: the total on the page and what the card is charged
\* for the same items differ by what the two quotes differ, and by nothing else:
\* if every quantity is 1, and the products cost checkout what the page says.
\* While the page waits for its quote it shows a free shipping.
PaidAsShown ==
  \A o \in placed :
    /\ o.items = o.shown
    /\ \A p \in InCart(o.items) :
         o.items[p] = 1 /\ PriceShown(PriceIn(o.currency, p)) = PriceShown(PriceAtCheckout(o.currency, p))
    => \A shown \in ShippingOf(o.shown) \union {Free}, charged \in ShippingOf(o.items) :
         PriceShown(ShownTotal(o.shown, o.currency, shown)) - PriceShown(shown)
           = Charged(o, charged) - PriceShown(charged)

\* Checkout form: what the customer typed stays in the form while the cart page
\* is open, through every refetch of the cart, unless the currency is switched,
\* the page loaded again or the cart emptied.
FormKeepsInput == DetailShown(page, Shown) /\ disturbed = {} => form = typed
=============================================================================
