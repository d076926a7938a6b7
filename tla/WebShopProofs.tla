--------------------------- MODULE WebShopProofs ---------------------------
(***************************************************************************)
(* Proofs about WebShop, for any products, currencies, prices and bounds:    *)
(* types, the cart cache, the checkout form, and what an order is for.       *)
(***************************************************************************)
EXTENDS WebShop, FiniteSetTheorems, WellFoundedInduction, TLAPS

-----------------------------------------------------------------------------
(* The values of the operators.                                             *)

LEMMA CartTypes == NoItems \in [Product -> Nat] /\ EmptyCart \in Cart
  BY DEF NoItems, EmptyCart, Cart

\* What Fetch, Invalidate, Store and GiveUp do with the fields of an entry.
LEMMA FetchFields ==
  ASSUME NEW q \in Entry
  PROVE  /\ Fetch(q) \in Entry
         /\ Fetch(q).known = q.known /\ Fetch(q).data = q.data /\ Fetch(q).resp = q.resp
         /\ Fetch(q).stale = q.stale /\ Fetch(q).joined = q.joined /\ Fetch(q).late = q.late
         /\ Fetch(q).fetch = "answered" => q.fetch = "answered"
  BY DEF Entry, Fetch

LEMMA InvalidateFields ==
  ASSUME NEW q \in Entry, NEW active \in BOOLEAN
  PROVE  /\ Invalidate(q, active) \in Entry
         /\ Invalidate(q, active).known = q.known /\ Invalidate(q, active).data = q.data
         /\ Invalidate(q, active).stale /\ Invalidate(q, active).late = q.late
         /\ Invalidate(q, active).fetch = "answered" =>
              /\ Invalidate(q, active).resp = q.resp
              /\ Invalidate(q, active).joined
              /\ q.fetch = "answered"
  BY CartTypes DEF Entry, Invalidate

LEMMA StoreFields ==
  ASSUME NEW q \in Entry
  PROVE  /\ Store(q) \in Entry
         /\ Store(q).known /\ Store(q).data = q.resp /\ Store(q).fetch = "idle"
         /\ ~Store(q).stale /\ Store(q).late = q.joined
  BY CartTypes DEF Entry, Store

LEMMA GiveUpFields ==
  ASSUME NEW q \in Entry
  PROVE  /\ GiveUp(q) \in Entry
         /\ GiveUp(q).known = q.known /\ GiveUp(q).data = q.data
         /\ GiveUp(q).stale = q.stale /\ GiveUp(q).late = q.late /\ GiveUp(q).fetch = "idle"
  BY DEF Entry, GiveUp

LEMMA AnsweredFields ==
  ASSUME NEW q \in Entry, NEW ct \in Cart
  PROVE  LET r == [q EXCEPT !.fetch = "answered", !.resp = ct]
         IN  /\ r \in Entry
             /\ r.known = q.known /\ r.data = q.data /\ r.resp = ct /\ r.stale = q.stale
             /\ r.late = q.late /\ r.joined = q.joined /\ r.fetch = "answered"
  BY DEF Entry

LEMMA NewEntryFields ==
  /\ NewEntry \in Entry
  /\ NewEntry.known = FALSE /\ NewEntry.data = EmptyCart /\ NewEntry.fetch = "idle"
  BY CartTypes DEF NewEntry, Entry

\* The entries of a fresh tab have no data and no answer.
LEMMA LoadedFields ==
  ASSUME NEW c \in Currency
  PROVE  /\ Loaded(c) \in [Currency -> Entry]
         /\ \A d \in Currency : /\ Loaded(c)[d].known = FALSE /\ Loaded(c)[d].data = EmptyCart
                                /\ Loaded(c)[d].fetch # "answered"
<1>1. ASSUME NEW d \in Currency
      PROVE  /\ Loaded(c)[d] \in Entry /\ Loaded(c)[d].known = FALSE
             /\ Loaded(c)[d].data = EmptyCart /\ Loaded(c)[d].fetch # "answered"
  BY NewEntryFields, FetchFields DEF Loaded
<1>2. QED
  BY <1>1 DEF Loaded

LEMMA PickTypes ==
  /\ NoPick \in [product : Product, quantity : Quantity]
  /\ \A p \in Product : [product |-> p, quantity |-> 1] \in [product : Product, quantity : Quantity]
<1> DEFINE first == CHOOSE p \in Product : TRUE
<1>1. first \in Product /\ 1 \in Quantity
  BY ShopAssumption DEF Quantity
<1>2. NoPick = [product |-> first, quantity |-> 1]
  BY DEF NoPick
<1> HIDE DEF first
<1>3. QED
  BY <1>1, <1>2

LEMMA NoCallType ==
  /\ NoCall \in CallState
  /\ NoCall.stage = "sent" /\ NoCall.settled = FALSE /\ NoCall.heard = TRUE
  BY PickTypes, CartTypes, ShopAssumption, FormAssumption DEF NoCall, CallState, Stage

LEMMA FailedType == Failed \in CallState /\ Failed.stage = "failed" /\ Failed.settled = FALSE
  BY NoCallType DEF Failed, CallState, Stage

\* A call nobody waits for keeps what it holds, or has failed.
LEMMA UnheardFields ==
  ASSUME NEW c \in CallState
  PROVE  /\ Unheard(c) \in CallState
         /\ \/ /\ c.stage \in {"sent", "read"}
               /\ Unheard(c).stage = c.stage /\ Unheard(c).settled = c.settled
               /\ Unheard(c).shown = c.shown /\ Unheard(c).read = c.read
               /\ Unheard(c).kind = c.kind
            \/ c.stage \notin {"sent", "read"} /\ Unheard(c) = Failed
  BY FailedType DEF Unheard, CallState

\* Sequences of calls: a call is replaced, appended, or all are replaced.
LEMMA CallReplaced ==
  ASSUME calls \in Seq(CallState), NEW m \in DOMAIN calls, NEW c \in CallState,
         calls' = [calls EXCEPT ![m] = c]
  PROVE  /\ calls' \in Seq(CallState) /\ Len(calls') = Len(calls) /\ DOMAIN calls' = DOMAIN calls
         /\ calls'[m] = c /\ \A j \in DOMAIN calls : j # m => calls'[j] = calls[j]
  OBVIOUS

LEMMA CallAppended ==
  ASSUME calls \in Seq(CallState), NEW c \in CallState, calls' = Append(calls, c)
  PROVE  /\ calls' \in Seq(CallState) /\ Len(calls') = Len(calls) + 1
         /\ DOMAIN calls' = DOMAIN calls \union {Len(calls) + 1}
         /\ calls'[Len(calls) + 1] = c /\ \A j \in DOMAIN calls : calls'[j] = calls[j]
  OBVIOUS

LEMMA CallsUnheard ==
  ASSUME calls \in Seq(CallState), calls' = [m \in DOMAIN calls |-> Unheard(calls[m])]
  PROVE  /\ calls' \in Seq(CallState) /\ Len(calls') = Len(calls) /\ DOMAIN calls' = DOMAIN calls
         /\ \A m \in DOMAIN calls : calls[m] \in CallState /\ calls'[m] = Unheard(calls[m])
<1>1. Len(calls) \in Nat /\ DOMAIN calls = 1..Len(calls)
      /\ \A m \in DOMAIN calls : calls[m] \in CallState
  OBVIOUS
<1>2. \A m \in 1..Len(calls) : calls'[m] \in CallState
  BY <1>1, UnheardFields
<1>3. calls' \in [1..Len(calls) -> CallState]
  BY <1>1, <1>2
<1>4. QED
  BY <1>1, <1>3

-----------------------------------------------------------------------------
(* Types.                                                                   *)

\* The steps, one by one.
LEMMA Steps ==
  ASSUME [Next]_vars
  PROVE  \/ \E c \in Currency : SelectCurrency(c) \/ FetchSettles(c) \/ ApiGetCart(c)
         \/ \E p \in Product : OpenProduct(p)
         \/ \E n \in Quantity : PickQuantity(n)
         \/ OpenCart \/ EditSomeField \/ Refocus \/ Reload
         \/ ClickAdd \/ ClickEmpty \/ ClickPlaceOrder
         \/ \E m \in DOMAIN calls : \/ CallSucceeds(m) \/ ApiAddItem(m) \/ ApiEmptyCart(m)
                                    \/ ApiCheckoutReads(m) \/ ApiCheckoutEnds(m)
         \/ UNCHANGED vars
  BY DEF Next, Customer, Server

\* The form keeps the card, or goes back to the defaults.
LEMMA FormTypes ==
  ASSUME form \in Card, NEW where, NEW items, FormStays(where, items)
  PROVE  form' \in Card
  BY FormAssumption DEF FormStays

LEMMA ShownType == TypeOK => Shown \in [Product -> Nat]
  BY DEF TypeOK, Shown, Entry, Cart

LEMMA InitTypes == Init => TypeOK
<1> SUFFICES ASSUME Init PROVE TypeOK
  OBVIOUS
<1>1. session \in Currency /\ currency \in Currency
  BY ShopAssumption DEF Init
<1>2. queries \in [Currency -> Entry]
  BY <1>1, LoadedFields DEF Init
<1>3. picked \in [product : Product, quantity : Quantity]
  BY PickTypes, ShopAssumption DEF Init, Quantity
<1>4. calls \in Seq(CallState) /\ Len(calls) <= MaxCalls
  BY ShopAssumption DEF Init
<1>5. cart \in Cart /\ acked \in 0..cart.version
  BY ShopAssumption DEF Init, Cart
<1>6. form \in Card /\ typed \in Card /\ page \in {"product", "cart", "done"}
      /\ placed \subseteq Order /\ disturbed \subseteq {"switched", "loaded", "emptied"}
  BY FormAssumption DEF Init
<1>7. QED
  BY <1>1, <1>2, <1>3, <1>4, <1>5, <1>6 DEF TypeOK

\* A click adds a call, and nothing else happens.
LEMMA StartStep ==
  ASSUME TypeOK, NEW call \in CallState, Start(call)
  PROVE  /\ UNCHANGED <<session, currency, page, picked, queries, form, cart, placed,
                        moves, acked, typed, disturbed>>
         /\ calls' = Append(calls, call)
         /\ calls' \in Seq(CallState) /\ Len(calls') = Len(calls) + 1 /\ Len(calls') <= MaxCalls
         /\ DOMAIN calls' = DOMAIN calls \union {Len(calls) + 1}
         /\ calls'[Len(calls) + 1] = call /\ \A j \in DOMAIN calls : calls'[j] = calls[j]
<1>1. /\ UNCHANGED <<session, currency, page, picked, queries, form, cart, placed,
                     moves, acked, typed, disturbed>>
      /\ calls' = Append(calls, call) /\ Len(calls) < MaxCalls
  BY DEF Start, serverVars, histVars
<1>2. calls \in Seq(CallState) /\ Len(calls) \in Nat /\ MaxCalls \in Nat
  BY ShopAssumption DEF TypeOK
<1>3. QED
  BY <1>1, <1>2, CallAppended

\* The clicks, and what their calls hold.
LEMMA Clicks ==
  ASSUME TypeOK, ClickAdd \/ ClickEmpty \/ ClickPlaceOrder
  PROVE  \E call \in CallState :
           /\ Start(call) /\ call.stage = "sent" /\ call.kind # "none"
           /\ call.settled => Settled /\ call.shown = Shown
<1>1. CASE ClickAdd
  <2> DEFINE call == [NoCall EXCEPT !.kind = "add", !.item = picked]
  <2>1. call \in CallState /\ call.stage = "sent" /\ call.settled = FALSE /\ call.kind # "none"
    BY NoCallType DEF TypeOK, CallState
  <2>2. Start(call)
    BY <1>1 DEF ClickAdd
  <2>3. QED
    BY <2>1, <2>2
<1>2. CASE ClickEmpty
  <2> DEFINE call == [NoCall EXCEPT !.kind = "empty"]
  <2>1. call \in CallState /\ call.stage = "sent" /\ call.settled = FALSE /\ call.kind # "none"
    BY NoCallType DEF CallState
  <2>2. Start(call)
    BY <1>2 DEF ClickEmpty
  <2>3. QED
    BY <2>1, <2>2
<1>3. CASE ClickPlaceOrder
  <2> DEFINE call == [NoCall EXCEPT !.kind = "order", !.currency = currency, !.card = form,
                                    !.shown = Shown, !.settled = Settled]
  <2>1. Settled \in BOOLEAN
    BY DEF Settled
  <2>2. call \in CallState /\ call.stage = "sent" /\ call.shown = Shown /\ call.settled = Settled
        /\ call.kind # "none"
    BY <2>1, NoCallType, ShownType DEF TypeOK, CallState
  <2>3. Start(call)
    BY <1>3 DEF ClickPlaceOrder
  <2>4. QED
    BY <2>2, <2>3
<1>4. QED
  BY <1>1, <1>2, <1>3

LEMMA ChangeTypes ==
  ASSUME cart \in Cart, NEW items \in [Product -> Nat], Change(items)
  PROVE  /\ cart' \in Cart /\ cart'.items = items
         /\ cart'.version = cart.version + 1 /\ cart.version \in Nat
  BY DEF Change, Cart

LEMMA AnswerStep ==
  ASSUME TypeOK, NEW m \in DOMAIN calls, NEW ok \in BOOLEAN, cart' \in Cart, Answer(m, ok)
  PROVE  /\ calls' \in Seq(CallState) /\ Len(calls') = Len(calls) /\ DOMAIN calls' = DOMAIN calls
         /\ calls'[m].settled = FALSE /\ calls'[m].stage \in {"ok", "failed"}
         /\ calls'[m].stage = "ok" => /\ calls'[m].version = cart'.version
                                      /\ calls'[m].kind = calls[m].kind
         /\ \A j \in DOMAIN calls : j # m => calls'[j] = calls[j]
<1> DEFINE c == calls[m]
           r == IF ok /\ c.heard
                THEN [NoCall EXCEPT !.kind = c.kind, !.stage = "ok", !.version = cart'.version]
                ELSE Failed
<1>1. c \in CallState /\ calls \in Seq(CallState)
  BY DEF TypeOK
<1>2. c.kind \in {"none", "add", "empty", "order"} /\ cart'.version \in Nat
  BY <1>1 DEF CallState, Cart
<1>3. /\ r \in CallState /\ r.settled = FALSE /\ r.stage \in {"ok", "failed"}
      /\ r.stage = "ok" => r.version = cart'.version /\ r.kind = c.kind
  BY <1>2, NoCallType, FailedType DEF CallState, Stage
<1>4. calls' = [calls EXCEPT ![m] = r]
  BY DEF Answer
<1> HIDE DEF r
<1>5. QED
  BY <1>1, <1>3, <1>4, CallReplaced

\* The steps of the API that end a call: the cart stays or changes once, and the
\* call is answered or has failed.
Served(m) ==
  /\ calls[m].stage \in {"sent", "read"}
  /\ cart' \in Cart
  /\ cart' = cart \/ cart'.version = cart.version + 1
  /\ \E ok \in BOOLEAN : Answer(m, ok)
  /\ UNCHANGED <<session, currency, page, picked, queries, form, moves, acked>>

LEMMA RefuseStep ==
  ASSUME TypeOK, NEW m \in DOMAIN calls, Refuse(m)
  PROVE  cart' = cart /\ cart' \in Cart /\ \E ok \in BOOLEAN : Answer(m, ok)
  BY DEF Refuse, TypeOK

LEMMA AddStep ==
  ASSUME TypeOK, NEW m \in DOMAIN calls, ApiAddItem(m)
  PROVE  /\ Served(m) /\ UNCHANGED <<placed, typed, disturbed>>
         /\ cart'.items = NoItems => cart.items = NoItems
<1>1. UNCHANGED <<session, currency, page, picked, queries, form, moves, acked, placed, typed, disturbed>>
      /\ calls[m].stage = "sent"
  BY DEF ApiAddItem, tabVars, histVars
<1>2. CASE Refuse(m)
  BY <1>1, <1>2, RefuseStep DEF Served
<1>3. CASE /\ Change([cart.items EXCEPT ![calls[m].item.product] = @ + calls[m].item.quantity])
           /\ \E ok \in BOOLEAN : Answer(m, ok)
  <2> DEFINE p == calls[m].item.product
             n == calls[m].item.quantity
             items == [cart.items EXCEPT ![p] = @ + n]
  <2>0. calls[m] \in CallState
    BY DEF TypeOK
  <2>1. p \in Product /\ n \in Quantity
    BY <2>0 DEF CallState
  <2>2. n \in Nat /\ n > 0
    BY <2>1, ShopAssumption DEF Quantity
  <2>3. cart \in Cart /\ cart.items \in [Product -> Nat]
    BY DEF TypeOK, Cart
  <2>4. items \in [Product -> Nat] /\ items[p] = cart.items[p] + n /\ cart.items[p] \in Nat
    BY <2>1, <2>2, <2>3
  <2>5. items # NoItems
    BY <2>1, <2>2, <2>4 DEF NoItems
  <2> HIDE DEF items
  <2>6. cart' \in Cart /\ cart'.items = items /\ cart'.version = cart.version + 1
    BY <1>3, <2>3, <2>4, ChangeTypes DEF items
  <2>7. QED
    BY <1>1, <1>3, <2>5, <2>6 DEF Served
<1>4. QED
  BY <1>2, <1>3 DEF ApiAddItem

LEMMA EmptyStep ==
  ASSUME TypeOK, NEW m \in DOMAIN calls, ApiEmptyCart(m)
  PROVE  /\ Served(m) /\ UNCHANGED placed
         /\ \/ disturbed' = disturbed \union {"emptied"} /\ typed' = DefaultForm
            \/ UNCHANGED <<cart, typed, disturbed>>
<1>1. UNCHANGED <<session, currency, page, picked, queries, form, moves, acked, placed>>
      /\ calls[m].stage = "sent"
  BY DEF ApiEmptyCart, tabVars
<1>2. CASE Refuse(m) /\ UNCHANGED <<disturbed, typed>>
  BY <1>1, <1>2, RefuseStep DEF Served
<1>3. CASE Change(NoItems) /\ (\E ok \in BOOLEAN : Answer(m, ok)) /\ Disturb("emptied")
  <2>1. cart' \in Cart /\ cart'.version = cart.version + 1
    BY <1>3, ChangeTypes, CartTypes DEF TypeOK
  <2>2. QED
    BY <1>1, <1>3, <2>1 DEF Served, Disturb
<1>4. QED
  BY <1>2, <1>3 DEF ApiEmptyCart

LEMMA EndStep ==
  ASSUME TypeOK, NEW m \in DOMAIN calls, ApiCheckoutEnds(m)
  PROVE  /\ Served(m) /\ calls[m].stage = "read"
         /\ \/ UNCHANGED <<cart, placed, typed, disturbed>>
            \/ /\ disturbed' = disturbed \union {"emptied"} /\ typed' = DefaultForm
               /\ placed' = {[items |-> calls[m].read, shown |-> calls[m].shown,
                              settled |-> calls[m].settled, currency |-> calls[m].currency,
                              card |-> calls[m].card]}
<1>1. UNCHANGED <<session, currency, page, picked, queries, form, moves, acked>>
      /\ calls[m].stage = "read"
  BY DEF ApiCheckoutEnds, tabVars
<1>2. CASE Refuse(m) /\ UNCHANGED <<placed, disturbed, typed>>
  BY <1>1, <1>2, RefuseStep DEF Served
<1>3. CASE /\ placed' = {[items |-> calls[m].read, shown |-> calls[m].shown,
                          settled |-> calls[m].settled, currency |-> calls[m].currency,
                          card |-> calls[m].card]}
           /\ Change(NoItems) \/ UNCHANGED cart
           /\ \E ok \in BOOLEAN : Answer(m, ok)
           /\ Disturb("emptied")
  <2>1. cart' \in Cart /\ (cart' = cart \/ cart'.version = cart.version + 1)
    BY <1>3, ChangeTypes, CartTypes DEF TypeOK
  <2>2. QED
    BY <1>1, <1>3, <2>1 DEF Served, Disturb
<1>4. QED
  BY <1>2, <1>3 DEF ApiCheckoutEnds

LEMMA ReadStep ==
  ASSUME TypeOK, NEW m \in DOMAIN calls, ApiCheckoutReads(m)
  PROVE  \/ Served(m) /\ UNCHANGED <<cart, placed, typed, disturbed>>
         \/ /\ UNCHANGED <<session, currency, page, picked, queries, form, cart, placed,
                           moves, acked, typed, disturbed>>
            /\ calls[m].stage = "sent"
            /\ calls' \in Seq(CallState) /\ Len(calls') = Len(calls)
            /\ DOMAIN calls' = DOMAIN calls
            /\ calls'[m].stage = "read" /\ calls'[m].read = cart.items
            /\ calls'[m].shown = calls[m].shown /\ calls'[m].kind = calls[m].kind
            /\ calls'[m].settled = (calls[m].settled /\ m = Len(calls))
            /\ \A j \in DOMAIN calls : j # m => calls'[j] = calls[j]
<1>1. UNCHANGED <<session, currency, page, picked, queries, form, moves, acked, placed, typed, disturbed>>
      /\ calls[m].stage = "sent"
  BY DEF ApiCheckoutReads, tabVars, histVars
<1>2. CASE Refuse(m)
  BY <1>1, <1>2, RefuseStep DEF Served
<1>3. CASE /\ calls' = [calls EXCEPT ![m].stage = "read", ![m].read = cart.items,
                                     ![m].settled = @ /\ m = Len(calls)]
           /\ UNCHANGED cart
  <2> DEFINE last == calls[m].settled /\ m = Len(calls)
             r == [calls[m] EXCEPT !.stage = "read", !.read = cart.items, !.settled = last]
  <2>1. calls[m] \in CallState /\ calls \in Seq(CallState) /\ cart.items \in [Product -> Nat]
    BY DEF TypeOK, Cart
  <2>2. last \in BOOLEAN
    OBVIOUS
  <2>3. calls' = [calls EXCEPT ![m] = r]
    BY <1>3
  <2> HIDE DEF last
  <2>4. /\ r \in CallState /\ r.stage = "read" /\ r.read = cart.items
        /\ r.shown = calls[m].shown /\ r.kind = calls[m].kind /\ r.settled = last
    BY <2>1, <2>2 DEF CallState, Stage
  <2> HIDE DEF r
  <2>5. QED
    BY <1>1, <1>3, <2>1, <2>3, <2>4, CallReplaced DEF last
<1>4. QED
  BY <1>2, <1>3 DEF ApiCheckoutReads

\* A call under way or answered is a mutation's, and an answered one is for a
\* change the cart has had.
CallsOK ==
  \A m \in DOMAIN calls :
    /\ calls[m].stage \in {"sent", "read", "ok"} => calls[m].kind # "none"
    /\ calls[m].stage = "ok" => calls[m].version <= cart.version

LEMMA SucceedStep ==
  ASSUME TypeOK, CallsOK, NEW m \in DOMAIN calls, CallSucceeds(m)
  PROVE  /\ UNCHANGED <<session, currency, cart, placed, moves>>
         /\ calls[m].stage = "ok" /\ calls'[m].stage = "acked" /\ calls'[m].settled = FALSE
         /\ calls' \in Seq(CallState) /\ Len(calls') = Len(calls) /\ DOMAIN calls' = DOMAIN calls
         /\ \A j \in DOMAIN calls : j # m => calls'[j] = calls[j]
         /\ queries' \in [Currency -> Entry]
         /\ \A c \in Currency : queries'[c] = Invalidate(queries[c], c = currency)
         /\ acked' = (IF calls[m].version > acked THEN calls[m].version ELSE acked)
         /\ acked' \in 0..cart.version
         /\ page' \in {page, "cart", "done"} /\ FormStays(page', Shown) /\ form' \in Card
         /\ picked' \in [product : Product, quantity : Quantity]
         /\ IF page # "cart" /\ page' = "cart" THEN OpenForm ELSE UNCHANGED <<typed, disturbed>>
<1> DEFINE done == [NoCall EXCEPT !.stage = "acked"]
<1>1. calls[m] \in CallState /\ calls \in Seq(CallState)
  BY DEF TypeOK
<1>2. done \in CallState /\ done.stage = "acked" /\ done.settled = FALSE
  BY NoCallType DEF CallState, Stage
<1>3. calls' = [calls EXCEPT ![m] = done]
  BY DEF CallSucceeds
<1> HIDE DEF done
<1>4. /\ calls' \in Seq(CallState) /\ Len(calls') = Len(calls) /\ DOMAIN calls' = DOMAIN calls
      /\ calls'[m] = done /\ \A j \in DOMAIN calls : j # m => calls'[j] = calls[j]
  BY <1>1, <1>2, <1>3, CallReplaced
<1>5. /\ queries' \in [Currency -> Entry]
      /\ \A c \in Currency : queries'[c] = Invalidate(queries[c], c = currency)
  BY InvalidateFields DEF TypeOK, CallSucceeds, InvalidateCarts
<1>6. calls[m].stage = "ok" /\ calls[m].kind \in {"add", "empty", "order"}
      /\ calls[m].version \in Nat /\ calls[m].version <= cart.version
  BY <1>1 DEF CallSucceeds, CallsOK, CallState
<1>7. page' \in {page, "cart", "done"}
  BY <1>6 DEF CallSucceeds, AfterCall
<1>8. FormStays(page', Shown)
  BY DEF CallSucceeds
<1>9. form' \in Card
  BY FormAssumption DEF TypeOK, CallSucceeds, FormStays
<1>10. picked' \in [product : Product, quantity : Quantity]
  BY PickTypes DEF TypeOK, CallSucceeds
<1>11. acked' = (IF calls[m].version > acked THEN calls[m].version ELSE acked)
       /\ acked' \in 0..cart.version
  BY <1>6 DEF TypeOK, CallSucceeds, Cart
<1>12. UNCHANGED <<session, currency, cart, placed, moves>>
       /\ IF page # "cart" /\ page' = "cart" THEN OpenForm ELSE UNCHANGED <<typed, disturbed>>
  BY DEF CallSucceeds, serverVars
<1>13. QED
  BY <1>2, <1>4, <1>5, <1>6, <1>7, <1>8, <1>9, <1>10, <1>11, <1>12

LEMMA TypeStep == TypeOK /\ CallsOK /\ [Next]_vars => TypeOK'
<1> SUFFICES ASSUME TypeOK, CallsOK, [Next]_vars PROVE TypeOK'
  OBVIOUS
<1>0. /\ session \in Currency /\ currency \in Currency /\ page \in {"product", "cart", "done"}
      /\ picked \in [product : Product, quantity : Quantity]
      /\ queries \in [Currency -> Entry] /\ form \in Card /\ typed \in Card
      /\ calls \in Seq(CallState) /\ Len(calls) <= MaxCalls /\ Len(calls) \in Nat
      /\ cart \in Cart /\ cart.version \in Nat /\ acked \in 0..cart.version
      /\ placed \subseteq Order /\ disturbed \subseteq {"switched", "loaded", "emptied"}
  BY DEF TypeOK, Cart
<1>1. ASSUME NEW c \in Currency, SelectCurrency(c) PROVE TypeOK'
  <2>1. currency' = c /\ session' = c /\ queries' = [queries EXCEPT ![c] = Fetch(@)]
        /\ form' \in Card /\ typed' \in Card /\ disturbed' = disturbed \union {"switched"}
    BY <1>0, <1>1, FormTypes, FormAssumption
    DEF SelectCurrency, onSelectCurrency, setSessionValue, Disturb
  <2>2. queries' \in [Currency -> Entry]
    BY <1>0, <2>1, FetchFields
  <2>3. QED
    BY <1>0, <1>1, <2>1, <2>2 DEF SelectCurrency, serverVars, TypeOK
<1>2. ASSUME NEW c \in Currency, FetchSettles(c) PROVE TypeOK'
  <2>1. queries' = [queries EXCEPT ![c] = Store(@)] /\ form' \in Card
    BY <1>0, <1>2, FormTypes DEF FetchSettles
  <2>2. queries' \in [Currency -> Entry]
    BY <1>0, <2>1, StoreFields
  <2>3. QED
    BY <1>0, <1>2, <2>1, <2>2 DEF FetchSettles, serverVars, histVars, TypeOK
<1>3. ASSUME NEW c \in Currency, ApiGetCart(c) PROVE TypeOK'
  <2>1. PICK q \in Entry : queries' = [queries EXCEPT ![c] = q]
    <3>1. [queries[c] EXCEPT !.fetch = "answered", !.resp = cart] \in Entry
          /\ GiveUp(queries[c]) \in Entry
      BY <1>0, AnsweredFields, GiveUpFields
    <3>2. CASE queries' = [queries EXCEPT ![c].fetch = "answered", ![c].resp = cart]
      <4>1. queries' = [queries EXCEPT ![c] = [queries[c] EXCEPT !.fetch = "answered", !.resp = cart]]
        BY <1>0, <3>2
      <4>2. QED
        BY <3>1, <4>1
    <3>3. CASE queries' = [queries EXCEPT ![c] = GiveUp(@)]
      BY <3>1, <3>3
    <3>4. QED
      BY <1>3, <3>2, <3>3 DEF ApiGetCart
  <2>2. queries' \in [Currency -> Entry]
    BY <1>0, <2>1
  <2>3. QED
    BY <1>0, <1>3, <2>2 DEF ApiGetCart, serverVars, histVars, TypeOK
<1>4. ASSUME NEW p \in Product, OpenProduct(p) PROVE TypeOK'
  <2>1. form' \in Card /\ page' \in {"product", "cart", "done"}
        /\ picked' \in [product : Product, quantity : Quantity]
    BY <1>0, <1>4, FormTypes, PickTypes DEF OpenProduct, ProductPage
  <2>2. QED
    BY <1>0, <1>4, <2>1 DEF OpenProduct, serverVars, histVars, TypeOK
<1>5. ASSUME NEW n \in Quantity, PickQuantity(n) PROVE TypeOK'
  <2>1. picked' \in [product : Product, quantity : Quantity]
    BY <1>0, <1>5 DEF PickQuantity
  <2>2. QED
    BY <1>0, <1>5, <2>1 DEF PickQuantity, serverVars, histVars, TypeOK
<1>6. CASE OpenCart
  <2>1. form' \in Card /\ page' = "cart" /\ picked' = NoPick /\ typed' = DefaultForm
        /\ disturbed' \subseteq disturbed
    BY <1>0, <1>6, FormTypes DEF OpenCart, OpenForm
  <2>2. QED
    BY <1>0, <1>6, <2>1, PickTypes, FormAssumption DEF OpenCart, serverVars, TypeOK
<1>7. CASE EditSomeField
  <2>1. PICK f \in {"number", "year", "month"}, v \in Numbers \union Years \union Months :
          /\ EditForm(f, v)
          /\ f = "number" => v \in Numbers
          /\ f = "year" => v \in Years
          /\ f = "month" => v \in Months
    BY <1>7 DEF EditSomeField
  <2>2. form' = [form EXCEPT ![f] = v] /\ (typed' = typed \/ typed' = [typed EXCEPT ![f] = v])
    BY <2>1 DEF EditForm
  <2>3. form' \in Card /\ typed' \in Card
    BY <1>0, <2>1, <2>2 DEF Card
  <2>4. QED
    BY <1>0, <2>1, <2>3 DEF EditForm, serverVars, TypeOK
<1>8. CASE Refocus
  <2>1. queries' \in [Currency -> Entry]
    BY <1>0, <1>8, FetchFields DEF Refocus
  <2>2. QED
    BY <1>0, <1>8, <2>1 DEF Refocus, serverVars, histVars, TypeOK
<1>9. CASE Reload
  <2>1. calls' = [m \in DOMAIN calls |-> Unheard(calls[m])]
    BY <1>9 DEF Reload
  <2>2. calls' \in Seq(CallState) /\ Len(calls') = Len(calls)
    BY <1>0, <2>1, CallsUnheard
  <2>3. queries' \in [Currency -> Entry]
    BY <1>0, <1>9, LoadedFields DEF Reload
  <2>4. 1 \in Quantity
    BY ShopAssumption DEF Quantity
  <2>5. picked' \in [product : Product, quantity : Quantity]
    BY <1>0, <1>9, <2>4 DEF Reload
  <2>6. currency' = session /\ form' = DefaultForm /\ typed' = DefaultForm
        /\ disturbed' = disturbed \union {"loaded"}
        /\ UNCHANGED <<session, page, cart, placed, acked>>
    BY <1>9 DEF Reload, Disturb, serverVars
  <2>7. QED
    BY <1>0, <2>2, <2>3, <2>5, <2>6, FormAssumption DEF TypeOK
<1>10. CASE ClickAdd \/ ClickEmpty \/ ClickPlaceOrder
  <2>1. PICK call \in CallState : Start(call)
    BY <1>10, Clicks
  <2>2. calls' \in Seq(CallState) /\ Len(calls') <= MaxCalls
        /\ UNCHANGED <<session, currency, page, picked, queries, form, cart, placed,
                       moves, acked, typed, disturbed>>
    BY <2>1, StartStep
  <2>3. QED
    BY <1>0, <2>2 DEF TypeOK
<1>11. ASSUME NEW m \in DOMAIN calls, CallSucceeds(m) PROVE TypeOK'
  <2>1. typed' \in Card /\ disturbed' \subseteq disturbed
    BY <1>0, <1>11, SucceedStep, FormAssumption DEF OpenForm
  <2>2. /\ UNCHANGED <<session, currency, cart, placed>>
        /\ page' \in {"product", "cart", "done"} /\ form' \in Card
        /\ picked' \in [product : Product, quantity : Quantity]
        /\ queries' \in [Currency -> Entry] /\ acked' \in 0..cart'.version
        /\ calls' \in Seq(CallState) /\ Len(calls') = Len(calls)
    BY <1>0, <1>11, SucceedStep
  <2>3. QED
    BY <1>0, <2>1, <2>2 DEF TypeOK
<1>12. ASSUME NEW m \in DOMAIN calls, Served(m), placed' \subseteq Order, typed' \in Card,
              disturbed' \subseteq {"switched", "loaded", "emptied"}
       PROVE  TypeOK'
  <2>1. calls' \in Seq(CallState) /\ Len(calls') = Len(calls)
    BY <1>12, AnswerStep DEF Served
  <2>2. cart' \in Cart /\ acked \in 0..cart'.version
    BY <1>0, <1>12 DEF Served
  <2>3. QED
    BY <1>0, <1>12, <2>1, <2>2 DEF Served, TypeOK
<1>13. ASSUME NEW m \in DOMAIN calls, ApiAddItem(m) \/ ApiEmptyCart(m) PROVE TypeOK'
  <2>1. /\ Served(m) /\ placed' = placed
        /\ typed' \in {typed, DefaultForm} /\ disturbed' \subseteq disturbed \union {"emptied"}
    BY <1>13, AddStep, EmptyStep
  <2>2. QED
    BY <1>0, <1>12, <2>1, FormAssumption
<1>14. ASSUME NEW m \in DOMAIN calls, ApiCheckoutReads(m) PROVE TypeOK'
  <2>1. CASE Served(m) /\ UNCHANGED <<cart, placed, typed, disturbed>>
    BY <1>0, <1>12, <2>1
  <2>2. CASE /\ UNCHANGED <<session, currency, page, picked, queries, form, cart, placed,
                            moves, acked, typed, disturbed>>
             /\ calls' \in Seq(CallState) /\ Len(calls') = Len(calls)
    BY <1>0, <2>2 DEF TypeOK
  <2>3. QED
    BY <1>14, <2>1, <2>2, ReadStep
<1>15. ASSUME NEW m \in DOMAIN calls, ApiCheckoutEnds(m) PROVE TypeOK'
  <2>1. calls[m] \in CallState
    BY <1>0
  <2>2. [items |-> calls[m].read, shown |-> calls[m].shown, settled |-> calls[m].settled,
         currency |-> calls[m].currency, card |-> calls[m].card] \in Order
    BY <2>1 DEF CallState, Order
  <2>3. /\ Served(m) /\ placed' \subseteq Order
        /\ typed' \in {typed, DefaultForm} /\ disturbed' \subseteq disturbed \union {"emptied"}
    BY <1>0, <1>15, <2>2, EndStep
  <2>4. QED
    BY <1>0, <1>12, <2>3, FormAssumption
<1>16. CASE UNCHANGED vars
  BY <1>0, <1>16 DEF vars, TypeOK
<1>17. QED
  BY <1>1, <1>2, <1>3, <1>4, <1>5, <1>6, <1>7, <1>8, <1>9, <1>10, <1>11, <1>13, <1>14,
     <1>15, <1>16, Steps

LEMMA CallsStep == TypeOK /\ CallsOK /\ [Next]_vars => CallsOK'
<1> SUFFICES ASSUME TypeOK, CallsOK, [Next]_vars PROVE CallsOK'
  OBVIOUS
<1>1. ASSUME UNCHANGED <<calls, cart>> PROVE CallsOK'
  BY <1>1 DEF CallsOK
<1>2. ASSUME ClickAdd \/ ClickEmpty \/ ClickPlaceOrder PROVE CallsOK'
  <2>1. PICK call \in CallState : Start(call) /\ call.stage = "sent" /\ call.kind # "none"
    BY <1>2, Clicks
  <2>2. QED
    BY <2>1, StartStep DEF CallsOK
<1>3. ASSUME Reload PROVE CallsOK'
  <2>1. /\ calls \in Seq(CallState) /\ calls' = [m \in DOMAIN calls |-> Unheard(calls[m])]
        /\ cart' = cart
    BY <1>3 DEF TypeOK, Reload, serverVars
  <2>2. DOMAIN calls' = DOMAIN calls
        /\ \A m \in DOMAIN calls : calls[m] \in CallState /\ calls'[m] = Unheard(calls[m])
    BY <2>1, CallsUnheard
  <2>3. QED
    BY <2>1, <2>2, UnheardFields, FailedType DEF CallsOK
<1>4. ASSUME NEW m \in DOMAIN calls, CallSucceeds(m) PROVE CallsOK'
  <2>1. /\ DOMAIN calls' = DOMAIN calls /\ cart' = cart /\ calls'[m].stage = "acked"
        /\ \A j \in DOMAIN calls : j # m => calls'[j] = calls[j]
    BY <1>4, SucceedStep
  <2>2. QED
    BY <2>1 DEF CallsOK
<1>5. ASSUME NEW m \in DOMAIN calls, Served(m) PROVE CallsOK'
  <2>1. cart.version \in Nat /\ cart'.version \in Nat /\ cart.version <= cart'.version
    BY <1>5 DEF Served, TypeOK, Cart
  <2>2. ASSUME NEW j \in DOMAIN calls PROVE calls[j].version \in Nat
    <3>1. calls[j] \in CallState
      BY DEF TypeOK
    <3>2. QED
      BY <3>1 DEF CallState
  <2>3. /\ calls[m].stage \in {"sent", "read"} /\ DOMAIN calls' = DOMAIN calls
        /\ calls'[m].stage \in {"ok", "failed"}
        /\ calls'[m].stage = "ok" => /\ calls'[m].version = cart'.version
                                     /\ calls'[m].kind = calls[m].kind
        /\ \A j \in DOMAIN calls : j # m => calls'[j] = calls[j]
    BY <1>5, AnswerStep DEF Served
  <2>4. QED
    BY <2>1, <2>2, <2>3 DEF CallsOK
<1>6. ASSUME NEW m \in DOMAIN calls, ApiCheckoutReads(m) PROVE CallsOK'
  BY <1>5, <1>6, ReadStep DEF CallsOK
<1>7. ASSUME NEW m \in DOMAIN calls, ApiAddItem(m) \/ ApiEmptyCart(m) \/ ApiCheckoutEnds(m)
      PROVE  CallsOK'
  BY <1>5, <1>7, AddStep, EmptyStep, EndStep
<1>8. ASSUME NEW c \in Currency, SelectCurrency(c) \/ FetchSettles(c) \/ ApiGetCart(c)
      PROVE  UNCHANGED <<calls, cart>>
  BY <1>8 DEF SelectCurrency, FetchSettles, ApiGetCart, serverVars
<1>9. ASSUME NEW p \in Product, OpenProduct(p) PROVE UNCHANGED <<calls, cart>>
  BY <1>9 DEF OpenProduct, serverVars
<1>10. ASSUME NEW n \in Quantity, PickQuantity(n) PROVE UNCHANGED <<calls, cart>>
  BY <1>10 DEF PickQuantity, serverVars
<1>11. ASSUME OpenCart \/ EditSomeField \/ Refocus \/ UNCHANGED vars
       PROVE  UNCHANGED <<calls, cart>>
  BY <1>11 DEF OpenCart, EditSomeField, EditForm, Refocus, vars, serverVars
<1>12. QED
  BY <1>1, <1>2, <1>3, <1>4, <1>6, <1>7, <1>8, <1>9, <1>10, <1>11, Steps

-----------------------------------------------------------------------------
(* What a step does with the cart and with an entry of the cache.           *)

LEMMA CartSteps ==
  ASSUME TypeOK, CallsOK, [Next]_vars
  PROVE  /\ cart' = cart \/ cart'.version = cart.version + 1
         /\ cart'.items = NoItems => cart.items = NoItems \/ "emptied" \in disturbed'
         /\ "emptied" \in disturbed => "emptied" \in disturbed'
<1>1. ASSUME NEW m \in DOMAIN calls, CallSucceeds(m)
      PROVE  cart' = cart /\ ("emptied" \in disturbed => "emptied" \in disturbed')
  BY <1>1, SucceedStep DEF OpenForm
<1>2. ASSUME NEW m \in DOMAIN calls, ApiAddItem(m)
      PROVE  /\ cart' = cart \/ cart'.version = cart.version + 1
             /\ cart'.items = NoItems => cart.items = NoItems
             /\ disturbed' = disturbed
  BY <1>2, AddStep DEF Served
<1>3. ASSUME NEW m \in DOMAIN calls, ApiEmptyCart(m) \/ ApiCheckoutEnds(m)
      PROVE  /\ cart' = cart \/ cart'.version = cart.version + 1
             /\ (cart' = cart /\ disturbed' = disturbed) \/ disturbed' = disturbed \union {"emptied"}
  BY <1>3, EmptyStep, EndStep DEF Served
<1>4. ASSUME NEW m \in DOMAIN calls, ApiCheckoutReads(m)
      PROVE  cart' = cart /\ disturbed' = disturbed
  BY <1>4, ReadStep
<1>5. ASSUME NEW c \in Currency, SelectCurrency(c) \/ FetchSettles(c) \/ ApiGetCart(c)
      PROVE  cart' = cart /\ disturbed \subseteq disturbed'
  BY <1>5 DEF SelectCurrency, FetchSettles, ApiGetCart, Disturb, serverVars, histVars
<1>6. ASSUME NEW p \in Product, OpenProduct(p) PROVE cart' = cart /\ disturbed' = disturbed
  BY <1>6 DEF OpenProduct, serverVars, histVars
<1>7. ASSUME NEW n \in Quantity, PickQuantity(n) PROVE cart' = cart /\ disturbed' = disturbed
  BY <1>7 DEF PickQuantity, serverVars, histVars
<1>8. ASSUME OpenCart \/ EditSomeField \/ Refocus \/ Reload \/ UNCHANGED vars
      PROVE  cart' = cart /\ ("emptied" \in disturbed => "emptied" \in disturbed')
  BY <1>8 DEF OpenCart, OpenForm, EditSomeField, EditForm, Refocus, Reload, Disturb, vars,
              serverVars, histVars
<1>9. ASSUME ClickAdd \/ ClickEmpty \/ ClickPlaceOrder PROVE cart' = cart /\ disturbed' = disturbed
  BY <1>9, Clicks, StartStep
<1>10. QED
  BY <1>1, <1>2, <1>3, <1>4, <1>5, <1>6, <1>7, <1>8, <1>9, Steps

\* An entry r after a step, of q before it: fetched again or given up or left
\* alone; answered by the server; stored; invalidated; or new.
Kept(q, r) ==
  /\ r.known = q.known /\ r.data = q.data /\ r.stale = q.stale /\ r.late = q.late
  /\ r.fetch = "answered" => q.fetch = "answered" /\ r.resp = q.resp /\ r.joined = q.joined

Answered(q, r) ==
  /\ r.known = q.known /\ r.data = q.data /\ r.stale = q.stale /\ r.late = q.late
  /\ r.fetch = "answered" /\ r.resp = cart

Stored(q, r) ==
  /\ q.fetch = "answered" /\ r.fetch = "idle"
  /\ r.known /\ r.data = q.resp /\ r.late = q.joined

Invalidated(q, r) ==
  /\ r.known = q.known /\ r.data = q.data /\ r.stale
  /\ r.fetch = "answered" => q.fetch = "answered" /\ r.resp = q.resp /\ r.joined

Forgotten(r) == ~r.known /\ r.data = EmptyCart /\ r.fetch # "answered"

LEMMA EntrySteps ==
  ASSUME TypeOK, CallsOK, [Next]_vars, NEW d \in Currency
  PROVE  \/ Kept(queries[d], queries'[d]) /\ acked' = acked
         \/ Answered(queries[d], queries'[d]) /\ cart' = cart /\ acked' = acked
         \/ Stored(queries[d], queries'[d]) /\ cart' = cart /\ acked' = acked
         \/ Invalidated(queries[d], queries'[d]) /\ cart' = cart
         \/ Forgotten(queries'[d]) /\ cart' = cart /\ acked' = acked
<1>0. queries \in [Currency -> Entry] /\ queries[d] \in Entry /\ cart \in Cart
  BY DEF TypeOK
<1>1. ASSUME UNCHANGED queries \/ queries'[d] = queries[d] PROVE Kept(queries[d], queries'[d])
  BY <1>1 DEF Kept
<1>2. ASSUME NEW c \in Currency, queries' = [queries EXCEPT ![c] = Fetch(@)]
      PROVE  Kept(queries[d], queries'[d])
  BY <1>0, <1>2, FetchFields DEF Kept
<1>3. ASSUME NEW c \in Currency, SelectCurrency(c)
      PROVE  Kept(queries[d], queries'[d]) /\ acked' = acked
  BY <1>2, <1>3 DEF SelectCurrency, onSelectCurrency
<1>4. ASSUME NEW c \in Currency, FetchSettles(c)
      PROVE  /\ Kept(queries[d], queries'[d]) \/ Stored(queries[d], queries'[d])
             /\ cart' = cart /\ acked' = acked
  <2>1. /\ queries[c].fetch = "answered" /\ queries' = [queries EXCEPT ![c] = Store(@)]
        /\ cart' = cart /\ acked' = acked
    BY <1>4 DEF FetchSettles, serverVars, histVars
  <2>2. CASE d = c
    BY <1>0, <2>1, <2>2, StoreFields DEF Stored
  <2>3. CASE d # c
    BY <1>0, <1>1, <2>1, <2>3
  <2>4. QED
    BY <2>1, <2>2, <2>3
<1>5. ASSUME NEW c \in Currency, ApiGetCart(c)
      PROVE  /\ Kept(queries[d], queries'[d]) \/ Answered(queries[d], queries'[d])
             /\ cart' = cart /\ acked' = acked
  <2>1. cart' = cart /\ acked' = acked
    BY <1>5 DEF ApiGetCart, serverVars, histVars
  <2>2. CASE queries' = [queries EXCEPT ![c].fetch = "answered", ![c].resp = cart]
    <3> DEFINE a == [queries[c] EXCEPT !.fetch = "answered", !.resp = cart]
    <3>1. queries' = [queries EXCEPT ![c] = a]
      BY <1>0, <2>2
    <3>2. CASE d = c
      <4>1. queries[c] \in Entry
        BY <1>0
      <4>2. /\ a.known = queries[c].known /\ a.data = queries[c].data /\ a.resp = cart
            /\ a.stale = queries[c].stale /\ a.late = queries[c].late /\ a.fetch = "answered"
        BY <1>0, <4>1, AnsweredFields
      <4> HIDE DEF a
      <4>3. queries'[d] = a
        BY <1>0, <3>1, <3>2
      <4>4. QED
        BY <2>1, <3>2, <4>2, <4>3 DEF Answered
    <3>3. CASE d # c
      <4> HIDE DEF a
      <4>1. QED
        BY <1>0, <1>1, <2>1, <3>1, <3>3
    <3>4. QED
      BY <2>1, <3>2, <3>3
  <2>3. CASE queries' = [queries EXCEPT ![c] = GiveUp(@)]
    BY <1>0, <1>1, <2>1, <2>3, GiveUpFields DEF Kept
  <2>4. QED
    BY <1>5, <2>2, <2>3 DEF ApiGetCart
<1>6. CASE Refocus
  BY <1>2, <1>6 DEF Refocus, histVars, TypeOK
<1>7. CASE Reload
  <2>1. session \in Currency
    BY DEF TypeOK
  <2>2. QED
    BY <1>7, <2>1, LoadedFields DEF Reload, Forgotten, serverVars
<1>8. ASSUME NEW m \in DOMAIN calls, CallSucceeds(m)
      PROVE  Invalidated(queries[d], queries'[d]) /\ cart' = cart
  <2>1. queries'[d] = Invalidate(queries[d], d = currency) /\ cart' = cart
    BY <1>8, SucceedStep
  <2>2. QED
    BY <1>0, <2>1, InvalidateFields DEF Invalidated
<1>9. ASSUME NEW p \in Product, OpenProduct(p) PROVE queries' = queries /\ acked' = acked
  BY <1>9 DEF OpenProduct, histVars
<1>10. ASSUME NEW n \in Quantity, PickQuantity(n) PROVE queries' = queries /\ acked' = acked
  BY <1>10 DEF PickQuantity, histVars
<1>11. ASSUME OpenCart \/ EditSomeField \/ UNCHANGED vars PROVE queries' = queries /\ acked' = acked
  BY <1>11 DEF OpenCart, EditSomeField, EditForm, vars
<1>12. ASSUME ClickAdd \/ ClickEmpty \/ ClickPlaceOrder PROVE queries' = queries /\ acked' = acked
  BY <1>12, Clicks, StartStep
<1>13. ASSUME NEW m \in DOMAIN calls,
              ApiAddItem(m) \/ ApiEmptyCart(m) \/ ApiCheckoutReads(m) \/ ApiCheckoutEnds(m)
       PROVE  queries' = queries /\ acked' = acked
  BY <1>13, AddStep, EmptyStep, ReadStep, EndStep DEF Served
<1>14. QED
  BY <1>1, <1>3, <1>4, <1>5, <1>6, <1>7, <1>8, <1>9, <1>10, <1>11, <1>12, <1>13, Steps

-----------------------------------------------------------------------------
(* The cart cache.                                                          *)

\* What is stored, or will be, with no invalidation since it was asked for, is
\* as new as what the tab was told.
FreshInv ==
  \A c \in Currency :
    /\ queries[c].fetch = "answered" /\ ~queries[c].joined => queries[c].resp.version >= acked
    /\ queries[c].known /\ ~queries[c].stale /\ ~queries[c].late
         => queries[c].data.version >= acked

LEMMA FreshStep == TypeOK /\ CallsOK /\ FreshInv /\ [Next]_vars => FreshInv'
<1> SUFFICES ASSUME TypeOK, CallsOK, FreshInv, [Next]_vars, NEW d \in Currency
             PROVE  LET r == queries'[d]
                    IN  /\ r.fetch = "answered" /\ ~r.joined => r.resp.version >= acked'
                        /\ r.known /\ ~r.stale /\ ~r.late => r.data.version >= acked'
  BY DEF FreshInv
<1> DEFINE q == queries[d]
           r == queries'[d]
<1>1. /\ q.fetch = "answered" /\ ~q.joined => q.resp.version >= acked
      /\ q.known /\ ~q.stale /\ ~q.late => q.data.version >= acked
  BY DEF FreshInv
<1>2. cart.version >= acked /\ cart.version \in Nat /\ acked \in Nat
  BY DEF TypeOK, Cart
<1>3. q \in Entry
  BY DEF TypeOK
<1>4. q.joined \in BOOLEAN /\ q.known \in BOOLEAN /\ q.stale \in BOOLEAN
  BY <1>3 DEF Entry
<1>5. CASE Kept(q, r) /\ acked' = acked
  BY <1>1, <1>5 DEF Kept
<1>6. CASE Answered(q, r) /\ acked' = acked
  BY <1>1, <1>2, <1>6 DEF Answered
<1>7. CASE Stored(q, r) /\ acked' = acked
  BY <1>1, <1>7 DEF Stored
<1>8. CASE Invalidated(q, r)
  BY <1>8 DEF Invalidated
<1>9. CASE Forgotten(r)
  BY <1>9 DEF Forgotten
<1>10. QED
  BY <1>5, <1>6, <1>7, <1>8, <1>9, EntrySteps

\* What a client has of the cart ct: nothing newer than the cart, and the very
\* items of the cart if no change separates the two.
Snapshot(s, ct) == s.version <= ct.version /\ (s.version = ct.version => s.items = ct.items)

SnapshotInv ==
  \A c \in Currency :
    /\ queries[c].known => Snapshot(queries[c].data, cart)
    /\ queries[c].fetch = "answered" => Snapshot(queries[c].resp, cart)

LEMMA SnapshotKept ==
  ASSUME TypeOK, CallsOK, [Next]_vars, NEW s \in Cart, Snapshot(s, cart)
  PROVE  Snapshot(s, cart')
<1>1. s.version \in Nat /\ cart.version \in Nat
  BY DEF TypeOK, Cart
<1>2. cart' = cart \/ cart'.version = cart.version + 1
  BY CartSteps
<1>3. QED
  BY <1>1, <1>2 DEF Snapshot

LEMMA SnapshotStep == TypeOK /\ CallsOK /\ SnapshotInv /\ [Next]_vars => SnapshotInv'
<1> SUFFICES ASSUME TypeOK, CallsOK, SnapshotInv, [Next]_vars, NEW d \in Currency
             PROVE  /\ queries'[d].known => Snapshot(queries'[d].data, cart')
                    /\ queries'[d].fetch = "answered" => Snapshot(queries'[d].resp, cart')
  BY DEF SnapshotInv
<1> DEFINE q == queries[d]
           r == queries'[d]
<1>1. /\ q.known => Snapshot(q.data, cart)
      /\ q.fetch = "answered" => Snapshot(q.resp, cart)
  BY DEF SnapshotInv
<1>2. q \in Entry /\ cart \in Cart
  BY DEF TypeOK
<1>3. q.data \in Cart /\ q.resp \in Cart
  BY <1>2 DEF Entry
<1>4. /\ q.known => Snapshot(q.data, cart')
      /\ q.fetch = "answered" => Snapshot(q.resp, cart')
  BY <1>1, <1>3, SnapshotKept
<1>5. Snapshot(cart, cart)
  BY <1>2 DEF Snapshot, Cart
<1>6. CASE Kept(q, r)
  BY <1>4, <1>6 DEF Kept
<1>7. CASE Answered(q, r) /\ cart' = cart
  BY <1>4, <1>5, <1>7 DEF Answered
<1>8. CASE Stored(q, r)
  BY <1>4, <1>8 DEF Stored
<1>9. CASE Invalidated(q, r)
  BY <1>4, <1>9 DEF Invalidated
<1>10. CASE Forgotten(r)
  BY <1>10 DEF Forgotten
<1>11. QED
  BY <1>6, <1>7, <1>8, <1>9, <1>10, EntrySteps

-----------------------------------------------------------------------------
(* What an order is for.                                                    *)

\* As long as no call has failed, the tab was told of the cart's last change,
\* or is about to be.
ToldInv ==
  (\A m \in DOMAIN calls : calls[m].stage # "failed")
    => \/ acked = cart.version
       \/ \E m \in DOMAIN calls : calls[m].stage = "ok" /\ calls[m].version = cart.version

\* The order of a settled page, as long as it is the last call: nobody else can
\* change the cart before it is read.  After that it holds what was shown.
OrderInv ==
  /\ \A m \in DOMAIN calls :
       /\ calls[m].stage = "sent" /\ calls[m].settled /\ m = Len(calls)
            => /\ calls[m].shown = cart.items
               /\ \A j \in DOMAIN calls : j # m => calls[j].stage \in {"acked", "failed"}
       /\ calls[m].stage = "read" /\ calls[m].settled => calls[m].read = calls[m].shown
  /\ OrderIsWhatWasShown

LEMMA SettledShowsCart ==
  ASSUME TypeOK, FreshInv, SnapshotInv, ToldInv, Settled
  PROVE  Shown = cart.items /\ \A m \in DOMAIN calls : calls[m].stage = "acked"
<1> DEFINE q == queries[currency]
<1>1. /\ q.known /\ ~q.stale /\ ~q.late
      /\ \A m \in DOMAIN calls : calls[m].stage = "acked"
  BY DEF Settled
<1>2. acked = cart.version
  BY <1>1 DEF ToldInv
<1>3. currency \in Currency /\ q \in Entry /\ cart \in Cart
  BY DEF TypeOK
<1>4. q.data.version >= acked /\ Snapshot(q.data, cart)
  BY <1>1, <1>3 DEF FreshInv, SnapshotInv
<1>5. q.data.version \in Nat /\ cart.version \in Nat
  BY <1>3 DEF Entry, Cart
<1>6. QED
  BY <1>1, <1>2, <1>4, <1>5 DEF Snapshot, Shown

LEMMA ToldStep == TypeOK /\ CallsOK /\ ToldInv /\ [Next]_vars => ToldInv'
<1> SUFFICES ASSUME TypeOK, CallsOK, ToldInv, [Next]_vars PROVE ToldInv'
  OBVIOUS
<1>1. ASSUME UNCHANGED <<calls, cart, acked>> PROVE ToldInv'
  BY <1>1 DEF ToldInv
<1>2. ASSUME ClickAdd \/ ClickEmpty \/ ClickPlaceOrder PROVE ToldInv'
  <2>1. PICK call \in CallState : Start(call) /\ call.stage = "sent"
    BY <1>2, Clicks
  <2>2. /\ UNCHANGED <<cart, acked>>
        /\ DOMAIN calls \subseteq DOMAIN calls' /\ \A j \in DOMAIN calls : calls'[j] = calls[j]
    BY <2>1, StartStep
  <2>3. QED
    BY <2>2 DEF ToldInv
<1>3. ASSUME Reload PROVE ToldInv'
  <2>1. /\ calls \in Seq(CallState) /\ calls' = [m \in DOMAIN calls |-> Unheard(calls[m])]
        /\ UNCHANGED <<cart, acked>>
    BY <1>3 DEF TypeOK, Reload, serverVars
  <2>2. DOMAIN calls' = DOMAIN calls
        /\ \A m \in DOMAIN calls : calls[m] \in CallState /\ calls'[m] = Unheard(calls[m])
    BY <2>1, CallsUnheard
  <2>3. \A m \in DOMAIN calls :
          calls'[m].stage # "failed" => calls[m].stage \in {"sent", "read"}
    BY <2>2, UnheardFields, FailedType
  <2>4. QED
    BY <2>1, <2>2, <2>3 DEF ToldInv
<1>4. ASSUME NEW m \in DOMAIN calls, CallSucceeds(m) PROVE ToldInv'
  <2>1. /\ DOMAIN calls' = DOMAIN calls /\ cart' = cart /\ calls[m].stage = "ok"
        /\ \A j \in DOMAIN calls : j # m => calls'[j] = calls[j]
        /\ acked' = (IF calls[m].version > acked THEN calls[m].version ELSE acked)
        /\ acked' \in 0..cart.version
    BY <1>4, SucceedStep
  <2>2. acked \in 0..cart.version /\ cart.version \in Nat /\ calls[m] \in CallState
    BY DEF TypeOK, Cart
  <2>3. calls[m].version \in Nat
    BY <2>2 DEF CallState
  <2>4. acked = cart.version \/ calls[m].version = cart.version => acked' = cart'.version
    BY <2>1, <2>2, <2>3
  <2>5. QED
    BY <2>1, <2>4 DEF ToldInv
<1>5. ASSUME NEW m \in DOMAIN calls, Served(m) PROVE ToldInv'
  <2>1. /\ DOMAIN calls' = DOMAIN calls /\ calls'[m].stage \in {"ok", "failed"}
        /\ calls'[m].stage = "ok" => calls'[m].version = cart'.version
    BY <1>5, AnswerStep DEF Served
  <2>2. QED
    BY <2>1 DEF ToldInv
<1>6. ASSUME NEW m \in DOMAIN calls, ApiCheckoutReads(m) PROVE ToldInv'
  <2>1. CASE Served(m)
    BY <1>5, <2>1
  <2>2. CASE /\ UNCHANGED <<cart, acked>> /\ calls[m].stage = "sent"
             /\ DOMAIN calls' = DOMAIN calls
             /\ \A j \in DOMAIN calls : j # m => calls'[j] = calls[j]
    BY <2>2 DEF ToldInv
  <2>3. QED
    BY <1>6, <2>1, <2>2, ReadStep
<1>7. ASSUME NEW m \in DOMAIN calls, ApiAddItem(m) \/ ApiEmptyCart(m) \/ ApiCheckoutEnds(m)
      PROVE  ToldInv'
  BY <1>5, <1>7, AddStep, EmptyStep, EndStep
<1>8. ASSUME NEW c \in Currency, SelectCurrency(c) \/ FetchSettles(c) \/ ApiGetCart(c)
      PROVE  UNCHANGED <<calls, cart, acked>>
  BY <1>8 DEF SelectCurrency, FetchSettles, ApiGetCart, serverVars, histVars
<1>9. ASSUME NEW p \in Product, OpenProduct(p) PROVE UNCHANGED <<calls, cart, acked>>
  BY <1>9 DEF OpenProduct, serverVars, histVars
<1>10. ASSUME NEW n \in Quantity, PickQuantity(n) PROVE UNCHANGED <<calls, cart, acked>>
  BY <1>10 DEF PickQuantity, serverVars, histVars
<1>11. ASSUME OpenCart \/ EditSomeField \/ Refocus \/ UNCHANGED vars
       PROVE  UNCHANGED <<calls, cart, acked>>
  BY <1>11 DEF OpenCart, EditSomeField, EditForm, Refocus, vars, serverVars, histVars
<1>12. QED
  BY <1>1, <1>2, <1>3, <1>4, <1>6, <1>7, <1>8, <1>9, <1>10, <1>11, Steps

LEMMA OrderStep ==
  ASSUME TypeOK, CallsOK, FreshInv, SnapshotInv, ToldInv, OrderInv, [Next]_vars
  PROVE  OrderInv'
<1>1. ASSUME UNCHANGED <<calls, cart, placed>> PROVE OrderInv'
  BY <1>1 DEF OrderInv, OrderIsWhatWasShown
<1>2. ASSUME ClickAdd \/ ClickEmpty \/ ClickPlaceOrder PROVE OrderInv'
  <2>1. PICK call \in CallState :
          Start(call) /\ call.stage = "sent" /\ (call.settled => Settled /\ call.shown = Shown)
    BY <1>2, Clicks
  <2>2. /\ UNCHANGED <<cart, placed>> /\ Len(calls') = Len(calls) + 1
        /\ DOMAIN calls' = DOMAIN calls \union {Len(calls) + 1}
        /\ calls'[Len(calls) + 1] = call /\ \A j \in DOMAIN calls : calls'[j] = calls[j]
    BY <2>1, StartStep
  <2>3. DOMAIN calls = 1..Len(calls) /\ Len(calls) \in Nat
    BY DEF TypeOK
  <2>4. call.settled => call.shown = cart.items /\ \A j \in DOMAIN calls : calls[j].stage = "acked"
    BY <2>1, SettledShowsCart
  <2>5. QED
    BY <2>1, <2>2, <2>3, <2>4 DEF OrderInv, OrderIsWhatWasShown
<1>3. ASSUME Reload PROVE OrderInv'
  <2>1. /\ calls \in Seq(CallState) /\ calls' = [m \in DOMAIN calls |-> Unheard(calls[m])]
        /\ UNCHANGED <<cart, placed>>
    BY <1>3 DEF TypeOK, Reload, serverVars
  <2>2. /\ DOMAIN calls' = DOMAIN calls /\ Len(calls') = Len(calls)
        /\ \A m \in DOMAIN calls : calls[m] \in CallState /\ calls'[m] = Unheard(calls[m])
    BY <2>1, CallsUnheard
  <2>3. ASSUME NEW m \in DOMAIN calls
        PROVE  \/ /\ calls'[m].stage = calls[m].stage /\ calls'[m].settled = calls[m].settled
                  /\ calls'[m].shown = calls[m].shown /\ calls'[m].read = calls[m].read
               \/ calls'[m].stage = "failed" /\ calls'[m].settled = FALSE
                  /\ calls[m].stage \notin {"sent", "read"}
    BY <2>2, UnheardFields, FailedType
  <2>4. DOMAIN calls' = DOMAIN calls /\ Len(calls') = Len(calls) /\ UNCHANGED <<cart, placed>>
    BY <2>1, <2>2
  <2>5. ASSUME NEW m \in DOMAIN calls, calls'[m].stage = "sent", calls'[m].settled, m = Len(calls)
        PROVE  /\ calls'[m].shown = cart.items
               /\ \A j \in DOMAIN calls : j # m => calls'[j].stage \in {"acked", "failed"}
    BY <2>3, <2>5 DEF OrderInv
  <2>6. ASSUME NEW m \in DOMAIN calls, calls'[m].stage = "read", calls'[m].settled
        PROVE  calls'[m].read = calls'[m].shown
    BY <2>3, <2>6 DEF OrderInv
  <2>7. QED
    BY <2>4, <2>5, <2>6 DEF OrderInv, OrderIsWhatWasShown
<1>4. ASSUME NEW m \in DOMAIN calls, CallSucceeds(m) PROVE OrderInv'
  <2>1. /\ DOMAIN calls' = DOMAIN calls /\ Len(calls') = Len(calls) /\ UNCHANGED <<cart, placed>>
        /\ calls[m].stage = "ok" /\ calls'[m].stage = "acked"
        /\ \A j \in DOMAIN calls : j # m => calls'[j] = calls[j]
    BY <1>4, SucceedStep
  <2>2. QED
    BY <2>1 DEF OrderInv, OrderIsWhatWasShown
<1>5. ASSUME NEW m \in DOMAIN calls, Served(m), OrderIsWhatWasShown' PROVE OrderInv'
  <2>1. /\ calls[m].stage \in {"sent", "read"}
        /\ DOMAIN calls' = DOMAIN calls /\ Len(calls') = Len(calls)
        /\ calls'[m].settled = FALSE
        /\ \A j \in DOMAIN calls : j # m => calls'[j] = calls[j]
    BY <1>5, AnswerStep DEF Served
  <2>2. QED
    BY <1>5, <2>1 DEF OrderInv
<1>6. ASSUME NEW m \in DOMAIN calls, ApiCheckoutReads(m) PROVE OrderInv'
  <2>1. CASE Served(m) /\ UNCHANGED placed
    BY <1>5, <2>1 DEF OrderInv, OrderIsWhatWasShown
  <2>2. CASE /\ UNCHANGED <<cart, placed>>
             /\ calls[m].stage = "sent"
             /\ Len(calls') = Len(calls) /\ DOMAIN calls' = DOMAIN calls
             /\ calls'[m].stage = "read" /\ calls'[m].read = cart.items
             /\ calls'[m].shown = calls[m].shown
             /\ calls'[m].settled = (calls[m].settled /\ m = Len(calls))
             /\ \A j \in DOMAIN calls : j # m => calls'[j] = calls[j]
    <3>1. calls'[m].settled => calls'[m].read = calls'[m].shown
      BY <2>2 DEF OrderInv
    <3>2. QED
      BY <2>2, <3>1 DEF OrderInv, OrderIsWhatWasShown
  <2>3. QED
    BY <1>6, <2>1, <2>2, ReadStep
<1>7. ASSUME NEW m \in DOMAIN calls, ApiAddItem(m) \/ ApiEmptyCart(m) PROVE OrderInv'
  <2>1. Served(m) /\ placed' = placed
    BY <1>7, AddStep, EmptyStep
  <2>2. QED
    BY <1>5, <2>1 DEF OrderInv, OrderIsWhatWasShown
<1>8. ASSUME NEW m \in DOMAIN calls, ApiCheckoutEnds(m) PROVE OrderInv'
  <2>1. /\ Served(m) /\ calls[m].stage = "read"
        /\ \/ placed' = placed
           \/ placed' = {[items |-> calls[m].read, shown |-> calls[m].shown,
                          settled |-> calls[m].settled, currency |-> calls[m].currency,
                          card |-> calls[m].card]}
    BY <1>8, EndStep
  <2>2. OrderIsWhatWasShown'
    BY <2>1 DEF OrderInv, OrderIsWhatWasShown
  <2>3. QED
    BY <1>5, <2>1, <2>2
<1>9. ASSUME NEW c \in Currency, SelectCurrency(c) \/ FetchSettles(c) \/ ApiGetCart(c)
      PROVE  UNCHANGED <<calls, cart, placed>>
  BY <1>9 DEF SelectCurrency, FetchSettles, ApiGetCart, serverVars
<1>10. ASSUME NEW p \in Product, OpenProduct(p) PROVE UNCHANGED <<calls, cart, placed>>
  BY <1>10 DEF OpenProduct, serverVars
<1>11. ASSUME NEW n \in Quantity, PickQuantity(n) PROVE UNCHANGED <<calls, cart, placed>>
  BY <1>11 DEF PickQuantity, serverVars
<1>12. ASSUME OpenCart \/ EditSomeField \/ Refocus \/ UNCHANGED vars
       PROVE  UNCHANGED <<calls, cart, placed>>
  BY <1>12 DEF OpenCart, EditSomeField, EditForm, Refocus, vars, serverVars
<1>13. QED
  BY <1>1, <1>2, <1>3, <1>4, <1>6, <1>7, <1>8, <1>9, <1>10, <1>11, <1>12, Steps

-----------------------------------------------------------------------------
(* The checkout form.                                                       *)

\* A form that is not on the page has its defaults; a cart that nobody emptied
\* is not shown empty again, now or by an answer on its way; so the form of an
\* undisturbed cart page is what was typed.
FormInv ==
  /\ ~DetailShown(page, Shown) => form = DefaultForm
  /\ page = "cart" /\ disturbed = {} => form = typed
  /\ "emptied" \notin disturbed =>
       \A c \in Currency :
         /\ queries[c].data.items # NoItems => cart.items # NoItems
         /\ queries[c].fetch = "answered" =>
              /\ queries[c].data.items # NoItems => queries[c].resp.items # NoItems
              /\ queries[c].resp.items # NoItems => cart.items # NoItems

LEMMA FilledStep ==
  ASSUME TypeOK, CallsOK, FormInv, [Next]_vars, "emptied" \notin disturbed', NEW d \in Currency
  PROVE  /\ queries'[d].data.items # NoItems => cart'.items # NoItems
         /\ queries'[d].fetch = "answered" =>
              /\ queries'[d].data.items # NoItems => queries'[d].resp.items # NoItems
              /\ queries'[d].resp.items # NoItems => cart'.items # NoItems
<1> DEFINE q == queries[d]
           r == queries'[d]
<1>1. "emptied" \notin disturbed /\ (cart.items # NoItems => cart'.items # NoItems)
  BY CartSteps
<1>2. /\ q.data.items # NoItems => cart.items # NoItems
      /\ q.fetch = "answered" =>
           /\ q.data.items # NoItems => q.resp.items # NoItems
           /\ q.resp.items # NoItems => cart.items # NoItems
  BY <1>1 DEF FormInv
<1>3. CASE Kept(q, r)
  BY <1>1, <1>2, <1>3 DEF Kept
<1>4. CASE Answered(q, r) /\ cart' = cart
  BY <1>1, <1>2, <1>4 DEF Answered
<1>5. CASE Stored(q, r) /\ cart' = cart
  BY <1>1, <1>2, <1>5 DEF Stored
<1>6. CASE Invalidated(q, r)
  BY <1>1, <1>2, <1>6 DEF Invalidated
<1>7. CASE Forgotten(r)
  BY <1>7 DEF Forgotten, EmptyCart
<1>8. QED
  BY <1>3, <1>4, <1>5, <1>6, <1>7, EntrySteps

\* The form after a step that shows items on the page where, or leaves it.
LEMMA FormFollows ==
  ASSUME NEW where, NEW items, FormStays(where, items)
  PROVE  /\ DetailShown(where, items) => form' = form
         /\ ~DetailShown(where, items) => form' = DefaultForm
  BY DEF FormStays

LEMMA FormStep ==
  ASSUME TypeOK, CallsOK, FormInv, [Next]_vars
  PROVE  /\ ~DetailShown(page', Shown') => form' = DefaultForm
         /\ page' = "cart" /\ disturbed' = {} => form' = typed'
<1> DEFINE Goal == /\ ~DetailShown(page', Shown') => form' = DefaultForm
                   /\ page' = "cart" /\ disturbed' = {} => form' = typed'
<1>0. /\ ~DetailShown(page, Shown) => form = DefaultForm
      /\ page = "cart" /\ disturbed = {} => form = typed
      /\ queries \in [Currency -> Entry] /\ currency \in Currency
  BY DEF FormInv, TypeOK
<1>1. ASSUME UNCHANGED <<page, form>>, Shown' = Shown,
             UNCHANGED <<typed, disturbed>> \/ disturbed' # {}
      PROVE  Goal
  BY <1>0, <1>1
<1>2. ASSUME UNCHANGED <<queries, currency>> PROVE Shown' = Shown
  BY <1>2 DEF Shown
<1>3. ASSUME NEW c \in Currency, SelectCurrency(c) PROVE Goal
  <2>1. /\ currency' = c /\ page' = page /\ FormStays(page, queries[c].data.items)
        /\ queries' = [queries EXCEPT ![c] = Fetch(@)] /\ disturbed' # {}
    BY <1>3 DEF SelectCurrency, onSelectCurrency, Disturb
  <2>2. queries'[c].data = queries[c].data
    BY <1>0, <2>1, FetchFields
  <2>3. Shown' = queries[c].data.items
    BY <2>1, <2>2 DEF Shown
  <2>4. QED
    BY <2>1, <2>3, FormFollows
<1>4. ASSUME NEW c \in Currency, FetchSettles(c) PROVE Goal
  <2>1. /\ currency' = currency /\ page' = page /\ UNCHANGED <<typed, disturbed>>
        /\ FormStays(page, Shown')
        /\ queries[c].fetch = "answered" /\ queries' = [queries EXCEPT ![c] = Store(@)]
    BY <1>4 DEF FetchSettles, histVars, Shown
  <2>2. queries'[currency].data = queries[currency].data
        \/ /\ queries[currency].fetch = "answered"
           /\ queries'[currency].data = queries[currency].resp
    BY <1>0, <2>1, StoreFields
  <2>3. disturbed = {} /\ Shown # NoItems => Shown' # NoItems
    BY <1>0, <2>1, <2>2 DEF FormInv, Shown
  <2>4. DetailShown(page, Shown') => form' = form
    BY <2>1, FormFollows
  <2>5. ~DetailShown(page, Shown') => form' = DefaultForm
    BY <2>1, FormFollows
  <2>6. QED
    BY <1>0, <2>1, <2>3, <2>4, <2>5 DEF DetailShown
<1>5. ASSUME NEW c \in Currency, ApiGetCart(c) PROVE Goal
  <2>1. /\ UNCHANGED <<currency, page, form, typed, disturbed>>
        /\ \/ queries' = [queries EXCEPT ![c].fetch = "answered", ![c].resp = cart]
           \/ queries' = [queries EXCEPT ![c] = GiveUp(@)]
    BY <1>5 DEF ApiGetCart, histVars
  <2>2. CASE queries' = [queries EXCEPT ![c].fetch = "answered", ![c].resp = cart]
    <3> DEFINE a == [queries[c] EXCEPT !.fetch = "answered", !.resp = cart]
    <3>1. queries' = [queries EXCEPT ![c] = a] /\ queries[c] \in Entry /\ cart \in Cart
      BY <1>0, <2>2 DEF TypeOK
    <3>2. a.data = queries[c].data
      BY <3>1, AnsweredFields
    <3> HIDE DEF a
    <3>3. queries'[currency].data = queries[currency].data
      BY <1>0, <3>1, <3>2
    <3>4. QED
      BY <1>1, <2>1, <3>3 DEF Shown
  <2>3. CASE queries' = [queries EXCEPT ![c] = GiveUp(@)]
    <3>1. queries'[currency].data = queries[currency].data
      BY <1>0, <2>3, GiveUpFields
    <3>2. QED
      BY <1>1, <2>1, <3>1 DEF Shown
  <2>4. QED
    BY <2>1, <2>2, <2>3
<1>6. ASSUME Refocus PROVE Goal
  <2>1. /\ queries' = [queries EXCEPT ![currency] = Fetch(@)]
        /\ UNCHANGED <<currency, page, form, typed, disturbed>>
    BY <1>6 DEF Refocus, histVars
  <2>2. queries'[currency].data = queries[currency].data
    BY <1>0, <2>1, FetchFields
  <2>3. QED
    BY <1>1, <2>1, <2>2 DEF Shown
<1>7. ASSUME Reload PROVE Goal
  BY <1>7 DEF Reload, Disturb
<1>8. ASSUME NEW p \in Product, OpenProduct(p) PROVE Goal
  <2>1. page' = "product" /\ FormStays("product", Shown)
    BY <1>8 DEF OpenProduct
  <2>2. QED
    BY <2>1, FormFollows DEF DetailShown
<1>9. ASSUME OpenCart PROVE Goal
  <2>1. /\ page # "cart" /\ FormStays("cart", Shown) /\ typed' = DefaultForm
    BY <1>9 DEF OpenCart, OpenForm
  <2>2. form = DefaultForm
    BY <1>0, <2>1 DEF DetailShown
  <2>3. form' = DefaultForm
    BY <2>1, <2>2, FormFollows
  <2>4. QED
    BY <2>1, <2>3
<1>10. ASSUME EditSomeField PROVE Goal
  <2>1. PICK f \in {"number", "year", "month"}, v \in Numbers \union Years \union Months :
          EditForm(f, v)
    BY <1>10 DEF EditSomeField
  <2>2. /\ DetailShown(page, Shown) /\ UNCHANGED <<page, currency, queries, disturbed>>
        /\ form' = [form EXCEPT ![f] = v]
        /\ typed' = IF disturbed # {} THEN typed ELSE [typed EXCEPT ![f] = v]
    BY <2>1 DEF EditForm
  <2>3. Shown' = Shown
    BY <1>2, <2>2
  <2>4. QED
    BY <1>0, <2>2, <2>3 DEF DetailShown
<1>11. ASSUME NEW m \in DOMAIN calls, CallSucceeds(m) PROVE Goal
  <2>1. /\ currency' = currency /\ page' \in {page, "cart", "done"} /\ FormStays(page', Shown)
        /\ queries'[currency] = Invalidate(queries[currency], currency = currency)
        /\ IF page # "cart" /\ page' = "cart" THEN OpenForm ELSE UNCHANGED <<typed, disturbed>>
    BY <1>0, <1>11, SucceedStep
  <2>2. queries'[currency].data = queries[currency].data
    BY <1>0, <2>1, InvalidateFields
  <2>3. Shown' = Shown
    BY <2>1, <2>2 DEF Shown
  <2>4. /\ DetailShown(page', Shown) => form' = form
        /\ ~DetailShown(page', Shown) => form' = DefaultForm
    BY <2>1 DEF FormStays
  <2>5. QED
    BY <1>0, <2>1, <2>3, <2>4 DEF DetailShown, OpenForm
<1>12. ASSUME NEW m \in DOMAIN calls,
              ApiAddItem(m) \/ ApiEmptyCart(m) \/ ApiCheckoutReads(m) \/ ApiCheckoutEnds(m)
       PROVE  Goal
  <2>1. /\ UNCHANGED <<page, form, queries, currency>>
        /\ UNCHANGED <<typed, disturbed>> \/ disturbed' # {}
    BY <1>12, AddStep, EmptyStep, ReadStep, EndStep DEF Served
  <2>2. QED
    BY <1>1, <1>2, <2>1
<1>13. ASSUME ClickAdd \/ ClickEmpty \/ ClickPlaceOrder PROVE Goal
  <2>1. UNCHANGED <<page, form, queries, currency, typed, disturbed>>
    BY <1>13, Clicks, StartStep
  <2>2. QED
    BY <1>1, <1>2, <2>1
<1>14. ASSUME NEW n \in Quantity, PickQuantity(n) PROVE Goal
  <2>1. UNCHANGED <<page, form, queries, currency, typed, disturbed>>
    BY <1>14 DEF PickQuantity, histVars
  <2>2. QED
    BY <1>1, <1>2, <2>1
<1>15. ASSUME UNCHANGED vars PROVE Goal
  BY <1>1, <1>2, <1>15 DEF vars
<1> HIDE DEF Goal
<1>16. Goal
  BY <1>3, <1>4, <1>5, <1>6, <1>7, <1>8, <1>9, <1>10, <1>11, <1>12, <1>13, <1>14, <1>15, Steps
<1>17. QED
  BY <1>16 DEF Goal

-----------------------------------------------------------------------------
(* Sums over finite sets.  SumFunctionOnSet is a fold, which picks the        *)
(* elements in an order of its own: what is shown here is that any of them    *)
(* may be taken out first.  The induction is over the subsets of a finite     *)
(* set, ordered by strict inclusion.                                          *)

\* The element a fold begins with, and the sum as the recursion that it is.
Pick(s) == CHOOSE x \in s : TRUE
SumRec(f, S, w) == f = [s \in SUBSET S |-> IF s = {} THEN 0 ELSE w[Pick(s)] + f[s \ {Pick(s)}]]
SumOf(S, w) == (CHOOSE f : SumRec(f, S, w))[S]

LEMMA SumIs ==
  ASSUME NEW S, NEW w
  PROVE  SumFunctionOnSet(w, S) = SumOf(S, w)
  BY DEF SumFunctionOnSet, FoldFunctionOnSet, MapThenFoldSet, SumOf, SumRec, Pick

\* A set of subsets that holds a set as soon as it holds all that is smaller.
LEMMA SubsetInduction ==
  ASSUME NEW S, IsFiniteSet(S), NEW T,
         \A s \in SUBSET S : (\A u \in SUBSET s : u # s => u \in T) => s \in T
  PROVE  SUBSET S \subseteq T
<1> DEFINE Bad == (SUBSET S) \ T
<1>1. Bad \subseteq FiniteSubsetsOf(S)
  BY FS_Subset DEF FiniteSubsetsOf
<1>2. ASSUME Bad # {} PROVE FALSE
  <2>1. IsWellFoundedOn(StrictSubsetOrdering(S), FiniteSubsetsOf(S))
    BY FS_StrictSubsetOrderingWellFounded
  <2>2. PICK x \in Bad : \A y \in Bad : ~(<<y, x>> \in StrictSubsetOrdering(S))
    <3> HIDE DEF Bad
    <3>1. QED
      BY <1>1, <1>2, <2>1, WFMin
  <2>3. ASSUME NEW u \in SUBSET x, u # x PROVE u \in T
    BY <2>2, <2>3 DEF StrictSubsetOrdering
  <2>4. QED
    BY <2>2, <2>3
<1>3. QED
  BY <1>2

LEMMA SumStep ==
  ASSUME NEW S, NEW w, NEW f, SumRec(f, S, w), NEW s \in SUBSET S
  PROVE  f[s] = IF s = {} THEN 0 ELSE w[Pick(s)] + f[s \ {Pick(s)}]
  BY DEF SumRec

\* The recursion has one solution, on a set and on its subsets alike.
LEMMA SumUnique ==
  ASSUME NEW S, IsFiniteSet(S), NEW T, NEW w, NEW f, NEW g, SumRec(f, S, w), SumRec(g, T, w)
  PROVE  \A s \in SUBSET S : s \subseteq T => f[s] = g[s]
<1> DEFINE Same == {s \in SUBSET S : s \subseteq T => f[s] = g[s]}
<1>1. ASSUME NEW s \in SUBSET S, \A u \in SUBSET s : u # s => u \in Same
      PROVE  s \in Same
  <2>1. ASSUME s \subseteq T, s # {} PROVE f[s] = g[s]
    <3>1. Pick(s) \in s
      BY <2>1 DEF Pick
    <3>2. s \ {Pick(s)} \in Same
      BY <1>1, <3>1
    <3>3. f[s \ {Pick(s)}] = g[s \ {Pick(s)}]
      BY <2>1, <3>2
    <3>4. f[s] = w[Pick(s)] + f[s \ {Pick(s)}] /\ g[s] = w[Pick(s)] + g[s \ {Pick(s)}]
      BY <2>1 DEF SumRec
    <3>5. QED
      BY <3>3, <3>4
  <2>2. ASSUME s = {}, s \subseteq T PROVE f[s] = g[s]
    BY <2>2 DEF SumRec
  <2>3. QED
    BY <2>1, <2>2
<1>2. SUBSET S \subseteq Same
  <2> HIDE DEF Same
  <2>1. QED
    BY <1>1, SubsetInduction
<1>3. QED
  BY <1>2

LEMMA SumExists ==
  ASSUME NEW S, IsFiniteSet(S), NEW w
  PROVE  \A s \in SUBSET S : SumRec(CHOOSE f : SumRec(f, s, w), s, w)
<1> DEFINE Good == {s \in SUBSET S : \E f : SumRec(f, s, w)}
           Sol(s) == CHOOSE f : SumRec(f, s, w)
<1>1. ASSUME NEW s \in SUBSET S, \A u \in SUBSET s : u # s => u \in Good
      PROVE  s \in Good
  <2> DEFINE less(u) == u \ {Pick(u)}
             G == [u \in SUBSET s |-> IF u = {} THEN 0 ELSE w[Pick(u)] + Sol(less(u))[less(u)]]
  <2>1. ASSUME NEW u \in SUBSET s, u # s PROVE SumRec(Sol(u), u, w)
    BY <1>1, <2>1
  <2>2. ASSUME NEW u \in SUBSET s, u # {} PROVE less(u) \in SUBSET u /\ less(u) # u /\ less(u) # s
    BY <2>2 DEF Pick
  <2>3. ASSUME NEW u \in SUBSET s, u # s PROVE G[u] = Sol(u)[u]
    <3>0. SumRec(Sol(u), u, w) /\ u \in SUBSET u
      BY <2>1, <2>3
    <3>1. CASE u = {}
      <4> HIDE DEF Sol
      <4>1. Sol(u)[u] = 0
        BY <3>0, <3>1, SumStep
      <4>2. QED
        BY <3>1, <4>1
    <3>2. CASE u # {}
      <4>1. Sol(u)[u] = w[Pick(u)] + Sol(u)[less(u)]
        <5> HIDE DEF Sol
        <5>1. QED
          BY <3>0, <3>2, SumStep
      <4>2. SumRec(Sol(less(u)), less(u), w) /\ SumRec(Sol(u), u, w) /\ less(u) \in SUBSET u
        BY <2>1, <2>2, <2>3, <3>2
      <4>3. IsFiniteSet(less(u))
        BY <4>2, FS_Subset
      <4> HIDE DEF Sol, less
      <4>4. Sol(less(u))[less(u)] = Sol(u)[less(u)]
        BY <4>2, <4>3, SumUnique
      <4>5. G[u] = w[Pick(u)] + Sol(less(u))[less(u)]
        BY <3>2
      <4>6. QED
        BY <4>1, <4>4, <4>5
    <3>3. QED
      BY <3>1, <3>2
  <2>4. G = [u \in SUBSET s |-> IF u = {} THEN 0 ELSE w[Pick(u)] + G[less(u)]]
    <3>1. ASSUME NEW u \in SUBSET s, u # {} PROVE G[less(u)] = Sol(less(u))[less(u)]
      BY <2>2, <2>3, <3>1
    <3>2. \A u \in SUBSET s : G[u] = IF u = {} THEN 0 ELSE w[Pick(u)] + G[less(u)]
      <4> HIDE DEF less, Sol
      <4>1. QED
        BY <3>1
    <3> HIDE DEF less, Sol
    <3>3. G = [u \in SUBSET s |-> G[u]]
      OBVIOUS
    <3> HIDE DEF G
    <3>4. QED
      BY <3>2, <3>3
  <2>5. SumRec(G, s, w)
    <3> HIDE DEF G
    <3>1. QED
      BY <2>4 DEF SumRec
  <2> HIDE DEF G
  <2>6. QED
    BY <2>5
<1>2. SUBSET S \subseteq Good
  <2> HIDE DEF Good
  <2>1. QED
    BY <1>1, SubsetInduction
<1>3. QED
  BY <1>2

\* What a sum is: of nothing, and with its terms taken out.
LEMMA SumLess ==
  ASSUME NEW S, IsFiniteSet(S), NEW w, S # {}
  PROVE  SumOf(S, w) = w[Pick(S)] + SumOf(S \ {Pick(S)}, w)
<1> DEFINE f == CHOOSE f : SumRec(f, S, w)
           r == S \ {Pick(S)}
           g == CHOOSE g : SumRec(g, r, w)
<1>1. SumRec(f, S, w) /\ SumRec(g, r, w)
  BY SumExists
<1>2. SumOf(S, w) = f[S] /\ SumOf(r, w) = g[r]
  BY DEF SumOf
<1> HIDE DEF f, g
<1>3. f[S] = w[Pick(S)] + f[r]
  BY <1>1, SumStep
<1>4. f[r] = g[r]
  <2>1. r \in SUBSET S /\ IsFiniteSet(r)
    BY FS_Subset
  <2> HIDE DEF r
  <2>2. QED
    BY <1>1, <2>1, SumUnique
<1>5. QED
  BY <1>2, <1>3, <1>4

LEMMA SumEmpty == ASSUME NEW w PROVE SumOf({}, w) = 0
<1> DEFINE f == CHOOSE f : SumRec(f, {}, w)
<1>1. SumRec(f, {}, w)
  BY SumExists, FS_EmptySet
<1>2. SumOf({}, w) = f[{}]
  BY DEF SumOf
<1> HIDE DEF f
<1>3. QED
  BY <1>1, <1>2, SumStep

LEMMA SumType ==
  ASSUME NEW S, IsFiniteSet(S), NEW w, \A x \in S : w[x] \in Int
  PROVE  \A s \in SUBSET S : SumOf(s, w) \in Int
<1> DEFINE Good == {s \in SUBSET S : SumOf(s, w) \in Int}
<1>1. ASSUME NEW s \in SUBSET S, \A u \in SUBSET s : u # s => u \in Good
      PROVE  s \in Good
  <2>1. CASE s = {}
    BY <2>1, SumEmpty
  <2>2. CASE s # {}
    <3>1. Pick(s) \in s /\ IsFiniteSet(s)
      BY <2>2, FS_Subset DEF Pick
    <3>2. s \ {Pick(s)} \in Good
      BY <1>1, <3>1
    <3>3. w[Pick(s)] \in Int /\ SumOf(s \ {Pick(s)}, w) \in Int
      BY <3>1, <3>2
    <3>4. SumOf(s, w) = w[Pick(s)] + SumOf(s \ {Pick(s)}, w)
      BY <2>2, <3>1, SumLess
    <3>5. SumOf(s, w) \in Int
      BY <3>3, <3>4
    <3>6. QED
      BY <3>5
  <2>3. QED
    BY <2>1, <2>2
<1>2. SUBSET S \subseteq Good
  <2> HIDE DEF Good
  <2>1. QED
    BY <1>1, SubsetInduction
<1>3. QED
  BY <1>2

LEMMA SumTakeOut ==
  ASSUME NEW S, IsFiniteSet(S), NEW w, \A x \in S : w[x] \in Int
  PROVE  \A s \in SUBSET S : \A x \in s : SumOf(s, w) = w[x] + SumOf(s \ {x}, w)
<1> DEFINE Good == {s \in SUBSET S : \A x \in s : SumOf(s, w) = w[x] + SumOf(s \ {x}, w)}
<1>1. ASSUME NEW s \in SUBSET S, \A u \in SUBSET s : u # s => u \in Good, NEW x \in s
      PROVE  SumOf(s, w) = w[x] + SumOf(s \ {x}, w)
  <2> DEFINE y == Pick(s)
             both == (s \ {x}) \ {y}
  <2>1. y \in s /\ SumOf(s, w) = w[y] + SumOf(s \ {y}, w)
    BY FS_Subset, SumLess DEF Pick
  <2>2. CASE x # y
    <3>1. s \ {y} \in Good /\ s \ {x} \in Good
      BY <1>1, <2>1
    <3>2. SumOf(s \ {y}, w) = w[x] + SumOf((s \ {y}) \ {x}, w)
      BY <2>1, <2>2, <3>1
    <3>3. SumOf(s \ {x}, w) = w[y] + SumOf(both, w)
      BY <2>1, <2>2, <3>1
    <3>4. (s \ {y}) \ {x} = both
      OBVIOUS
    <3>5. both \in SUBSET S /\ w[x] \in Int /\ w[y] \in Int
      BY <2>1
    <3>6. SumOf(both, w) \in Int
      <4> HIDE DEF both
      <4>1. QED
        BY <3>5, SumType
    <3>7. SumOf((s \ {y}) \ {x}, w) = SumOf(both, w)
      BY <3>4
    <3> HIDE DEF both, y
    <3>8. SumOf(s, w) = w[y] + (w[x] + SumOf(both, w))
      BY <2>1, <3>2, <3>7
    <3>9. SumOf(s, w) = w[x] + (w[y] + SumOf(both, w))
      BY <3>5, <3>6, <3>8
    <3>10. QED
      BY <3>3, <3>9
  <2>3. QED
    BY <2>1, <2>2
<1>2. SUBSET S \subseteq Good
  <2>1. \A s \in SUBSET S : (\A u \in SUBSET s : u # s => u \in Good) => s \in Good
    BY <1>1
  <2> HIDE DEF Good
  <2>2. QED
    BY <2>1, SubsetInduction
<1>3. QED
  BY <1>2

\* The sum of units and the sum of nanos come to the sum of the amounts; terms
\* that are nothing may be left out.
LEMMA SumOfAmounts ==
  ASSUME NEW S, IsFiniteSet(S), NEW T \in SUBSET S, NEW u, NEW n, NEW v,
         \A x \in S : u[x] \in Int /\ n[x] \in Int,
         \A x \in T : v[x] = u[x] * Nano + n[x],
         \A x \in S \ T : v[x] = 0
  PROVE  SumOf(T, u) * Nano + SumOf(T, n) = SumOf(S, v)
<1> DEFINE Good == {s \in SUBSET S :
                      SumOf(s \intersect T, u) * Nano + SumOf(s \intersect T, n) = SumOf(s, v)}
<1>1. Nano \in Int
  BY ShopAssumption
<1>2. ASSUME NEW x \in S PROVE v[x] \in Int
  <2>1. CASE x \in T
    BY <1>1, <2>1
  <2>2. CASE x \notin T
    BY <2>2
  <2>3. QED
    BY <2>1, <2>2
<1>3. ASSUME NEW s \in SUBSET S, \A r \in SUBSET s : r # s => r \in Good
      PROVE  SumOf(s \intersect T, u) * Nano + SumOf(s \intersect T, n) = SumOf(s, v)
  <2>1. CASE s = {}
    <3>1. s \intersect T = {}
      BY <2>1
    <3>2. QED
      BY <1>1, <2>1, <3>1, SumEmpty
  <2>2. CASE s # {}
    <3> DEFINE x == Pick(s)
               r == s \ {x}
               U == SumOf(r \intersect T, u)
               N == SumOf(r \intersect T, n)
    <3>1. x \in s /\ x \in S
      BY <2>2 DEF Pick
    <3>2. SumOf(s, v) = v[x] + SumOf(r, v)
      BY <1>2, <3>1, SumTakeOut
    <3>3. r \in Good
      BY <1>3, <3>1
    <3>4. U * Nano + N = SumOf(r, v)
      BY <3>3
    <3>5. U \in Int /\ N \in Int
      <4>1. r \intersect T \in SUBSET S
        OBVIOUS
      <4> HIDE DEF r
      <4>2. QED
        BY <4>1, SumType
    <3>6. CASE x \in T
      <4>1. x \in s \intersect T /\ (s \intersect T) \ {x} = r \intersect T
        BY <3>1, <3>6
      <4>2. SumOf(s \intersect T, u) = u[x] + U /\ SumOf(s \intersect T, n) = n[x] + N
        BY <4>1, SumTakeOut
      <4>3. v[x] = u[x] * Nano + n[x] /\ u[x] \in Int /\ n[x] \in Int
        BY <3>1, <3>6
      <4> HIDE DEF x, U, N, r
      <4>4. (u[x] + U) * Nano + (n[x] + N) = (u[x] * Nano + n[x]) + (U * Nano + N)
        BY <1>1, <3>5, <4>3
      <4>5. QED
        BY <3>2, <3>4, <4>2, <4>3, <4>4
    <3>7. CASE x \notin T
      <4>1. s \intersect T = r \intersect T
        BY <3>7
      <4>2. v[x] = 0
        BY <3>1, <3>7
      <4>3. SumOf(r, v) \in Int
        BY <1>2, SumType
      <4>4. SumOf(s, v) = SumOf(r, v)
        BY <3>2, <4>2, <4>3
      <4> HIDE DEF r
      <4>5. QED
        BY <3>4, <4>1, <4>4
    <3>8. QED
      BY <3>6, <3>7
  <2>3. QED
    BY <2>1, <2>2
<1>4. SUBSET S \subseteq Good
  <2>1. \A s \in SUBSET S : (\A r \in SUBSET s : r # s => r \in Good) => s \in Good
    BY <1>3
  <2> HIDE DEF Good
  <2>2. QED
    BY <2>1, SubsetInduction
<1>5. S \intersect T = T /\ S \in Good
  BY <1>4
<1>6. QED
  BY <1>5

-----------------------------------------------------------------------------
(* What the page shows and what the card is charged.                        *)

\* CartItems carries the nanos into units, and loses nothing on the way.
LEMMA CarryKeeps ==
  ASSUME NEW u \in Int, NEW n \in Int, NEW k \in Nat \ {0}
  PROVE  (u + n \div k) * k + (n % k) = u * k + n
<1>1. n = (n \div k) * k + (n % k) /\ n \div k \in Int /\ n % k \in Int
  OBVIOUS
<1> DEFINE q == n \div k
           r == n % k
<1>2. n = q * k + r /\ q \in Int /\ r \in Int
  BY <1>1
<1> HIDE DEF q, r
<1>3. (u + q) * k + r = u * k + n
  BY <1>2
<1>4. QED
  BY <1>3 DEF q, r

\* The total on the page, its shipping apart, is the sum of the prices shown.
LEMMA ShownIs ==
  ASSUME NEW items \in [Product -> Nat], NEW c \in Currency,
         NEW shipping \in [units : Nat, nanos : Nat],
         NEW v, \A p \in Product : v[p] = IF p \in InCart(items) THEN PriceShown(PriceIn(c, p)) ELSE 0
  PROVE  PriceShown(ShownTotal(items, c, shipping)) = SumOf(Product, v) + PriceShown(shipping)
<1> DEFINE T == InCart(items)
           u == [p \in Product |-> PriceIn(c, p).units]
           n == [p \in Product |-> PriceIn(c, p).nanos]
           U == SumOf(T, u)
           N == SumOf(T, n)
<1>1. T \in SUBSET Product
  BY DEF InCart
<1>2. \A p \in Product : /\ u[p] \in Int /\ n[p] \in Int
                         /\ v[p] = IF p \in T THEN u[p] * Nano + n[p] ELSE 0
  <2>1. ASSUME NEW p \in Product PROVE PriceIn(c, p) \in [units : Nat, nanos : Nat]
    BY ShopAssumption DEF PriceIn
  <2>2. QED
    BY <2>1 DEF PriceShown
<1>3. UnitSum(items, c, shipping) = U + shipping.units /\ NanoSum(items, c, shipping) = N + shipping.nanos
  BY SumIs DEF UnitSum, NanoSum
<1> HIDE DEF T, u, n
<1>4. U * Nano + N = SumOf(Product, v)
  <2>1. IsFiniteSet(Product) /\ Nano \in Int
    BY ShopAssumption
  <2>2. SumOf(T, u) * Nano + SumOf(T, n) = SumOf(Product, v)
    <3>1. \A p \in Product : u[p] \in Int /\ n[p] \in Int
      BY <1>2
    <3>2. /\ \A p \in T : v[p] = u[p] * Nano + n[p]
          /\ \A p \in Product \ T : v[p] = 0
      BY <1>1, <1>2
    <3>3. QED
      BY <1>1, <2>1, <3>1, <3>2, SumOfAmounts
  <2>3. QED
    BY <2>2
<1>5. U \in Int /\ N \in Int
  BY <1>1, <1>2, ShopAssumption, SumType
<1>6. shipping.units \in Int /\ shipping.nanos \in Int /\ Nano \in Nat \ {0}
  BY ShopAssumption
<1> HIDE DEF U, N
<1>7. PriceShown(ShownTotal(items, c, shipping))
        = ((U + shipping.units) + (N + shipping.nanos) \div Nano) * Nano + ((N + shipping.nanos) % Nano)
  BY <1>3 DEF PriceShown, ShownTotal
<1>8. U + shipping.units \in Int /\ N + shipping.nanos \in Int
  BY <1>5, <1>6
<1>9. PriceShown(ShownTotal(items, c, shipping)) = (U + shipping.units) * Nano + (N + shipping.nanos)
  BY <1>6, <1>7, <1>8, CarryKeeps
<1>10. (U + shipping.units) * Nano + (N + shipping.nanos)
         = (U * Nano + N) + (shipping.units * Nano + shipping.nanos)
  BY <1>5, <1>6
<1>11. QED
  BY <1>4, <1>9, <1>10 DEF PriceShown

\* What is charged does not depend on the order of the items either.
LEMMA PaidIsShown == TypeOK => PaidAsShown
<1> SUFFICES ASSUME TypeOK, NEW o \in placed, o.items = o.shown,
                    \A p \in InCart(o.items) :
                      /\ o.items[p] = 1
                      /\ PriceShown(PriceIn(o.currency, p)) = PriceShown(PriceAtCheckout(o.currency, p)),
                    NEW shown \in ShippingOf(o.shown) \union {Free},
                    NEW charged \in ShippingOf(o.items)
             PROVE  PriceShown(ShownTotal(o.shown, o.currency, shown)) - PriceShown(shown)
                      = Charged(o, charged) - PriceShown(charged)
  BY DEF PaidAsShown
<1> DEFINE v == [p \in Product |-> o.items[p] * PriceShown(PriceAtCheckout(o.currency, p))]
<1>1. o.items \in [Product -> Nat] /\ o.currency \in Currency
  BY DEF TypeOK, Order
<1>2. shown \in [units : Nat, nanos : Nat] /\ charged \in [units : Nat, nanos : Nat]
  BY ShopAssumption DEF ShippingOf, Free
<1>3. ASSUME NEW p \in Product
      PROVE  /\ PriceShown(PriceAtCheckout(o.currency, p)) \in Int
             /\ v[p] \in Int
             /\ v[p] = IF p \in InCart(o.items) THEN PriceShown(PriceIn(o.currency, p)) ELSE 0
  <2>1. PriceAtCheckout(o.currency, p) \in [units : Nat, nanos : Nat]
    BY <1>1, ShopAssumption DEF PriceAtCheckout
  <2>2. PriceShown(PriceAtCheckout(o.currency, p)) \in Int
    BY <2>1, ShopAssumption DEF PriceShown
  <2>3. o.items[p] \in Nat
    BY <1>1
  <2>4. CASE p \in InCart(o.items)
    <3>1. v[p] = PriceShown(PriceAtCheckout(o.currency, p))
      BY <2>2, <2>4
    <3>2. QED
      BY <2>2, <2>4, <3>1
  <2>5. CASE p \notin InCart(o.items)
    <3>1. o.items[p] = 0
      BY <2>3, <2>5 DEF InCart
    <3>2. v[p] = 0
      BY <2>2, <3>1
    <3>3. QED
      BY <2>2, <2>5, <3>2
  <2>6. QED
    BY <2>4, <2>5
<1>4. Charged(o, charged) = SumOf(Product, v) + PriceShown(charged)
  BY SumIs DEF Charged
<1> HIDE DEF v
<1>5. PriceShown(ShownTotal(o.shown, o.currency, shown)) = SumOf(Product, v) + PriceShown(shown)
  BY <1>1, <1>2, <1>3, ShownIs
<1>6. SumOf(Product, v) \in Int
  BY <1>3, ShopAssumption, SumType
<1>7. PriceShown(shown) \in Int /\ PriceShown(charged) \in Int
  BY <1>2, ShopAssumption DEF PriceShown
<1>8. QED
  BY <1>4, <1>5, <1>6, <1>7

-----------------------------------------------------------------------------
(* The theorems.                                                            *)

Inv ==
  TypeOK /\ CallsOK /\ FreshInv /\ SnapshotInv /\ ToldInv /\ OrderInv /\ FormInv

LEMMA InvInit == Init => Inv
<1> SUFFICES ASSUME Init PROVE Inv
  OBVIOUS
<1>1. TypeOK
  BY InitTypes
<1>2. /\ calls = <<>> /\ placed = {} /\ acked = 0 /\ cart.version = 0 /\ disturbed = {}
      /\ form = DefaultForm /\ typed = DefaultForm
      /\ \A d \in Currency : /\ queries[d].known = FALSE /\ queries[d].data = EmptyCart
                             /\ queries[d].fetch # "answered"
  BY ShopAssumption, LoadedFields DEF Init
<1>3. CallsOK /\ ToldInv /\ OrderInv
  BY <1>2 DEF CallsOK, ToldInv, OrderInv, OrderIsWhatWasShown
<1>4. FreshInv /\ SnapshotInv
  BY <1>2 DEF FreshInv, SnapshotInv
<1>5. FormInv
  BY <1>2 DEF FormInv, EmptyCart
<1>6. QED
  BY <1>1, <1>3, <1>4, <1>5 DEF Inv

LEMMA InvStep == Inv /\ [Next]_vars => Inv'
<1> SUFFICES ASSUME Inv, [Next]_vars PROVE Inv'
  OBVIOUS
<1>1. TypeOK /\ CallsOK /\ FreshInv /\ SnapshotInv /\ ToldInv /\ OrderInv /\ FormInv
  BY DEF Inv
<1>2. TypeOK' /\ CallsOK' /\ FreshInv' /\ SnapshotInv' /\ ToldInv' /\ OrderInv'
  BY <1>1, TypeStep, CallsStep, FreshStep, SnapshotStep, ToldStep, OrderStep
<1>3. FormInv'
  BY <1>1, FormStep, FilledStep DEF FormInv
<1>4. QED
  BY <1>2, <1>3 DEF Inv

LEMMA Invariance == Spec => []Inv
  BY InvInit, InvStep, PTL DEF Spec

\* The cart, its snapshots, the calls with what they hold, and the card are of
\* their types in every state; the tab was never told of a change to come.
THEOREM TypeCorrect == Spec => []TypeOK
<1>1. Inv => TypeOK
  BY DEF Inv
<1>2. QED
  BY <1>1, Invariance, PTL

\* onSuccess of the cart provider: a valid entry of the selected currency holds
\* every change the tab was told of, for any number of currencies and calls.
THEOREM EntryCurrent == Spec => []ValidEntryIsCurrent
<1>1. Inv => ValidEntryIsCurrent
  BY DEF Inv, TypeOK, FreshInv, ValidEntryIsCurrent
<1>2. QED
  BY <1>1, Invariance, PTL

\* Cart page and PlaceOrder: an order placed from a settled page is for the items
\* the page showed, whatever the customer does before and after.
THEOREM OrderAsShown == Spec => []OrderIsWhatWasShown
<1>1. Inv => OrderIsWhatWasShown
  BY DEF Inv, OrderInv
<1>2. QED
  BY <1>1, Invariance, PTL

\* CheckoutForm: no refetch, answer or invalidation of the cart costs the
\* customer what was typed.
THEOREM FormKept == Spec => []FormKeepsInput
<1>1. Inv => FormKeepsInput
  BY DEF Inv, FormInv, FormKeepsInput, DetailShown
<1>2. QED
  BY <1>1, Invariance, PTL

\* CartItems and PlaceOrder: for any set of products and any prices, the total the
\* page shows and what the card is charged for the same items differ only by what
\* the two quotes differ, if every quantity is 1 and every price checkout is given
\* is the one on the page.  Nothing is said of other quantities and prices.
THEOREM PaidIsWhatWasShown == Spec => []PaidAsShown
<1>1. Inv => PaidAsShown
  BY PaidIsShown DEF Inv
<1>2. QED
  BY <1>1, Invariance, PTL
=============================================================================
