----------------------------- MODULE MobileShop -----------------------------
(***************************************************************************)
(* The gateways of the mobile app (src/src/react-native-app) on one device:  *)
(* the session kept in AsyncStorage, the API calls that await it, the orders *)
(* of the checkout form, and the shop behind the requests.                   *)
(*                                                                           *)
(* Every API call first awaits the session, some of them twice, and all the  *)
(* calls of a launch do so side by side.  The system may kill the app at any *)
(* moment; what AsyncStorage has stored and the requests already sent stay.  *)
(*                                                                           *)
(* Who makes the calls is the environment here: a component may make any of  *)
(* them at any time.                                                         *)
(***************************************************************************)
EXTENDS FiniteSets, Payment

CONSTANTS
  MaxLaunches,              \* bound: starts of the app
  MaxCalls,                 \* bound: API calls and spans, over all the launches
  Numbers, Years, Months    \* what can be typed in the form; "" is no number

ASSUME BoundAssumption == MaxLaunches \in Nat \ {0} /\ MaxCalls \in Nat

ASSUME FormAssumption == Years \subseteq Int /\ Months \subseteq Int

\* v4() runs once per launch, when the module of the session gateway is loaded:
\* a launch stands for the user id it drew.
Launch == 1..MaxLaunches

NoSession == 0

Call == 1..MaxCalls

VARIABLES
  stored,      \* AsyncStorage: the user id of the session, or NoSession
  launch,      \* the launch that runs
  calls,       \* Call -> the call's progress
  made,        \* bound used: calls made
  orders,      \* the shop: the orders placed
  used,        \* history: the user ids in requests, baggage and spans
  completed    \* history: "Your order is Complete!" messages shown

vars == <<stored, launch, calls, made, orders, used, completed>>

-----------------------------------------------------------------------------
(* Calls.                                                                   *)

Card == [number : Numbers, year : Years, month : Months]

\* The rule { required: true } of every field: text, whatever it says.
Complete(card) == card.number # ""

\* What the form submits, if anything: the card of an order.
Submitted == {card \in Card : Complete(card)}

NoCard == [number |-> "", year |-> 0, month |-> 0]

\* The methods of the API gateway by what they await: getCart, addCartItem,
\* emptyCart and listRecommendations ("cart") the session of their own, placeOrder
\* ("order") the one onPlaceOrder read for it, the others ("catalog") none; and
\* the start of a span in SessionIdProcessor.
Method == {"cart", "order", "catalog", "span"}

\* The proxy around the API awaits the session once more, for the baggage.
SessionsOf(method) == IF method \in {"cart", "order"} THEN 2 ELSE 1

\* A call awaits getSession ("session"), and in it the first setItem of a
\* device ("storing"), as often as "left" says; then its request is "sent" and
\* may be "answered".  "ids" are the user ids it was given; "heard" is FALSE once
\* nobody waits for the answer.
NewCall(method, card) ==
  [method |-> method, card |-> card, stage |-> "session",
   left |-> SessionsOf(method), ids |-> {}, heard |-> TRUE]

Unmade == [NewCall("span", NoCard) EXCEPT !.stage = "unmade"]

\* A call that resolved or rejected, and of which nothing is under way.
Done == [Unmade EXCEPT !.stage = "done"]

Ends(k) == calls' = [calls EXCEPT ![k] = Done]

Make(call) ==
  /\ made < MaxCalls
  /\ made' = made + 1
  /\ calls' = [calls EXCEPT ![made + 1] = call]
  /\ UNCHANGED <<stored, launch, orders, used, completed>>

\* A component calls the gateway for anything but an order.
CallApi == \E method \in {"cart", "catalog"} : Make(NewCall(method, NoCard))

\* SessionIdProcessor: a span asks for the session by itself.
SpanStarts == Make(NewCall("span", NoCard))

\* handleSubmit: onPlaceOrder with the form's values if every field is filled.
PlaceOrder == \E card \in Submitted : Make(NewCall("order", card))

-----------------------------------------------------------------------------
(* The session gateway.                                                     *)

\* getSession resolves with user id u: the call awaits the next one, or its
\* request goes out; a span has what it wants.
Got(k, u) ==
  LET c == [calls[k] EXCEPT !.ids = @ \union {u}, !.left = @ - 1]
  IN  /\ calls' = [calls EXCEPT ![k] = CASE c.left > 0         -> [c EXCEPT !.stage = "session"]
                                          [] c.method = "span" -> Done
                                          [] OTHER             -> [c EXCEPT !.stage = "sent"]]
      /\ used' = IF c.left > 0 THEN used ELSE used \union c.ids

\* Mutant: the session read is used without a look whether there is one.
ReadSessionUnchecked(k) ==
  /\ calls[k].stage = "session"
  /\ Got(k, stored)
  /\ UNCHANGED <<stored, launch, made, orders, completed>>

\* Mutant: setItem is not called for the default session.
ReadSessionKeepsNone(k) ==
  /\ calls[k].stage = "session"
  /\ Got(k, IF stored = NoSession THEN launch ELSE stored)
  /\ UNCHANGED <<stored, launch, made, orders, completed>>

\* getItem: the stored session, or none.
ReadSession(k) ==
  /\ calls[k].stage = "session"
  /\ IF stored = NoSession
     THEN calls' = [calls EXCEPT ![k].stage = "storing"] /\ UNCHANGED used
     ELSE Got(k, stored)
  /\ UNCHANGED <<stored, launch, made, orders, completed>>

\* setItem: the default session of this launch is stored, then used.
StoreSession(k) ==
  /\ calls[k].stage = "storing"
  /\ stored' = launch
  /\ Got(k, launch)
  /\ UNCHANGED <<launch, made, orders, completed>>

\* AsyncStorage fails: the awaiting call rejects.
SessionFails(k) ==
  /\ calls[k].stage \in {"session", "storing"}
  /\ Ends(k)
  /\ UNCHANGED <<stored, launch, made, orders, used, completed>>

-----------------------------------------------------------------------------
(* The shop: the API routes and the services behind them, each request in    *)
(* one step; WebShop and Checkout have the steps of an order.                *)

\* The route is through with a request, with an answer ("ok") or an error.
Answer(k, ok) ==
  IF ok /\ calls[k].heard THEN calls' = [calls EXCEPT ![k].stage = "answered"] ELSE Ends(k)

\* The other routes; what they do to the cart is not needed here.
Serve(k) ==
  /\ calls[k].method # "order" /\ calls[k].stage = "sent"
  /\ Answer(k, TRUE)
  /\ UNCHANGED <<stored, launch, made, orders, used, completed>>

\* An order is placed if the card can be charged.  The route then looks up the
\* products of the order, and a failure there is the answer.
ServeOrder(k) ==
  /\ calls[k].method = "order" /\ calls[k].stage = "sent"
  /\ \E unlucky \in BOOLEAN : ChargeSucceeds(calls[k].card, unlucky)
  /\ orders' = orders \union {[call |-> k, card |-> calls[k].card]}
  /\ \E ok \in BOOLEAN : Answer(k, ok)
  /\ UNCHANGED <<stored, launch, made, used, completed>>

\* Mutant: request resolves, whatever the answer.
RefuseResolves(k) ==
  /\ calls[k].stage = "sent"
  /\ Answer(k, TRUE)
  /\ UNCHANGED <<stored, launch, made, orders, used, completed>>

\* Any request may be refused before it has an effect; the text of the answer is
\* no JSON, on which request rejects.
Refuse(k) ==
  /\ calls[k].stage = "sent"
  /\ Answer(k, FALSE)
  /\ UNCHANGED <<stored, launch, made, orders, used, completed>>

\* The connection is lost: fetch rejects at once, and a request that has arrived
\* is still served.
Lose(k) ==
  /\ calls[k].heard
  /\ \/ calls[k].stage = "sent" /\ calls' = [calls EXCEPT ![k].heard = FALSE]
     \/ calls[k].stage = "answered" /\ Ends(k)
  /\ UNCHANGED <<stored, launch, made, orders, used, completed>>

\* request resolves with the answer; onPlaceOrder shows its message.
Resolve(k) ==
  /\ calls[k].stage = "answered"
  /\ Ends(k)
  /\ completed' = IF calls[k].method = "order" THEN completed + 1 ELSE completed
  /\ UNCHANGED <<stored, launch, made, orders, used>>

-----------------------------------------------------------------------------
\* What is left of a call when its app is gone: a request under way.
Orphan(c) ==
  CASE c.stage = "unmade" -> c
    [] c.stage = "sent"   -> [c EXCEPT !.heard = FALSE]
    [] OTHER              -> Done

\* The app is killed and started again, and draws another default user id.
Kill ==
  /\ launch < MaxLaunches
  /\ launch' = launch + 1
  /\ calls' = [k \in Call |-> Orphan(calls[k])]
  /\ UNCHANGED <<stored, made, orders, used, completed>>

Init ==
  /\ stored = NoSession
  /\ launch = 1
  /\ calls = [k \in Call |-> Unmade]
  /\ made = 0
  /\ orders = {}
  /\ used = {}
  /\ completed = 0

Session(k) == ReadSession(k) \/ StoreSession(k) \/ SessionFails(k)

Shop(k) == Serve(k) \/ ServeOrder(k) \/ Refuse(k)

Next ==
  \/ CallApi \/ SpanStarts \/ PlaceOrder \/ Kill
  \/ \E k \in Call : Session(k) \/ Shop(k) \/ Lose(k) \/ Resolve(k)

Spec == Init /\ [][Next]_vars

-----------------------------------------------------------------------------
CallState ==
  [method : Method, card : Card \union {NoCard},
   stage : {"unmade", "session", "storing", "sent", "answered", "done"},
   left : Int, ids : SUBSET Launch, heard : BOOLEAN]

\* Type invariant of the session, the calls of all launches and the orders.
TypeOK ==
  /\ stored \in Launch \union {NoSession} /\ launch \in Launch
  /\ calls \in [Call -> CallState]
  /\ made \in 0..MaxCalls
  /\ orders \subseteq [call : Call, card : Card]
  /\ used \subseteq Launch
  /\ completed \in Nat

\* Session gateway: although many calls find no session at once and each stores
\* a default one, and although the app may be killed in between, every request,
\* baggage and span of the installation names the one user id that is stored.
OneUserPerInstall == used \subseteq {stored} \ {NoSession}

\* onPlaceOrder and request: "Your order is Complete!" is never shown more often
\* than orders were placed; an order that was refused or lost shows nothing.
CompleteMeansPlaced == completed <= Cardinality(orders)

\* Checkout form and payment: the month is free text, so a card that is past
\* the month printed on it can be charged, but only by a month after December;
\* an order with a month of the calendar was paid with a usable card.
PaidWithUsableCard ==
  \A o \in orders : o.card.month \in 1..12 => Usable(o.card)
=============================================================================
