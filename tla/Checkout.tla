------------------------------ MODULE Checkout ------------------------------
(***************************************************************************)
(* checkout/main.go: the PlaceOrder handler as a saga of remote calls over   *)
(* the cart, payment, shipping, email and Kafka services, one handler per    *)
(* order, all of them in one process that may crash.  Nothing is undone and  *)
(* nothing is retried.                                                       *)
(*                                                                           *)
(* A remote call that changes another service is a request under way, which   *)
(* the service acts on, or never does, at any later time.  The handler waits  *)
(* for the effect, but a call can also end with an error at any moment        *)
(* (refused, answer lost, context done), and the service may act on it        *)
(* after that: once the handler has gone on, has answered, or has died.       *)
(*                                                                           *)
(* A cart is a set of units, one per AddItem call (quantities and product    *)
(* merging are CartStore's subject).  AddItem reads the cart and writes it   *)
(* back in two steps, as ValkeyCartStore does.                               *)
(***************************************************************************)
EXTENDS Naturals, Sequences

CONSTANTS
    Users, Orders, Units,
    Customer,     \* Customer[o]: the user_id of order o
    Owner,        \* Owner[x]: the user who adds unit x
    Amounts,      \* the sums of money a card can be charged
    Amount(_),    \* what lines 268-275 compute for a cart, or Panic (see OrderTotal)
    Panic,        \* Must panicked
    None,         \* no total computed yet
    KafkaSet,     \* is KAFKA_ADDR set?
    Overload      \* the value of flag kafkaQueueProblems when it is on

ASSUME CheckoutAssumption ==
    /\ Customer \in [Orders -> Users]
    /\ Owner \in [Units -> Users]
    /\ \A S \in SUBSET Units : Amount(S) \in Amounts \cup {Panic}
    /\ Panic \notin Amounts
    /\ None \notin Amounts
    /\ KafkaSet \in BOOLEAN
    /\ Overload \in Nat

VARIABLES
    cart,       \* cart[u]: the units in u's cart
    adding,     \* adding[x]: progress of the AddItem call of unit x
    base,       \* base[x]: the cart that call has read and not written yet
    pc,         \* pc[o]: the next step of o's handler
    live,       \* the orders whose request context is not cancelled
    asked,      \* the requests under way, <<call, order>>
    snapshot,   \* snapshot[o]: prep.cartItems
    total,      \* total[o]: the amount to charge
    charged,    \* charged[o]: the amounts the payment service charged for o
    shipped,    \* shipped[o]: the parcels the shipping service sent for o
    emptied,    \* the orders whose EmptyCart took effect
    mailed,     \* mailed[o]: the items of each confirmation sent
    published,  \* published[o]: copies of o handed to the Kafka producer
    answer      \* answer[o]: what the handler returned

\* History: who was in the way when a cart was read or written.
VARIABLES
    openAtRead,   \* the orders that had read and not emptied the cart when o read it
    overlapped,   \* the units written while one of their Rivals was in progress
    resurrected,  \* the units an AddItem call put back after they had left the cart
    cleared       \* the units taken out by the customer's EmptyCart, or lost by the store

calls == <<charged, shipped, mailed, published>>
carts == <<cart, adding, base, overlapped, resurrected, cleared>>
order == <<snapshot, total, emptied, openAtRead>>
vars == <<carts, calls, asked, live, order, pc, answer>>

Window == {"prepare", "total", "charge", "ship"}
Running == {"getCart", "empty", "confirm", "placed"} \cup Window
Steps == {"idle", "done", "crashed"} \cup Running
Calls == {"charge", "ship", "empty", "mail"}

Init ==
    /\ cart = [u \in Users |-> {}]
    /\ adding = [x \in Units |-> "no"]
    /\ base = [x \in Units |-> {}]
    /\ pc = [o \in Orders |-> "idle"]
    /\ live = Orders
    /\ asked = {}
    /\ snapshot = [o \in Orders |-> {}]
    /\ total = [o \in Orders |-> None]
    /\ charged = [o \in Orders |-> <<>>]
    /\ shipped = [o \in Orders |-> <<>>]
    /\ emptied = {}
    /\ mailed = [o \in Orders |-> <<>>]
    /\ published = [o \in Orders |-> 0]
    /\ answer = [o \in Orders |-> "none"]
    /\ openAtRead = [o \in Orders |-> {}]
    /\ overlapped = {}
    /\ resurrected = {}
    /\ cleared = {}
-----------------------------------------------------------------------------
(* The cart service, as the customers use it beside checkout.               *)

\* AddItemAsync reads the user's cart ...
AddRead(x) ==
    /\ adding[x] = "no"
    /\ adding' = [adding EXCEPT ![x] = "read"]
    /\ base' = [base EXCEPT ![x] = cart[Owner[x]]]
    /\ UNCHANGED <<cart, overlapped, resurrected, cleared, calls, asked, live, order, pc, answer>>

\* History: o has read its customer's cart and may still empty it.
MayEmpty(o) == pc[o] \in Window \/ <<"empty", o>> \in asked

\* History: the orders and AddItem calls of x's owner that are in progress.
Rivals(x) ==
    {o \in Orders : Customer[o] = Owner[x] /\ MayEmpty(o)}
      \cup {y \in Units \ {x} : Owner[y] = Owner[x] /\ adding[y] = "read"}

\* Mutant: the cart is written as if it were new.
AddWriteDropsCart(x) ==
    /\ adding[x] = "read"
    /\ adding' = [adding EXCEPT ![x] = "done"]
    /\ cart' = [cart EXCEPT ![Owner[x]] = {x}]
    /\ overlapped' = IF Rivals(x) = {} THEN overlapped ELSE overlapped \cup {x}
    /\ UNCHANGED <<base, resurrected, cleared, calls, asked, live, order, pc, answer>>

\* ... and writes back what it read with the unit added, over whatever is there by then.
AddWrite(x) ==
    LET u == Owner[x] IN
    /\ adding[x] = "read"
    /\ adding' = [adding EXCEPT ![x] = "done"]
    /\ cart' = [cart EXCEPT ![u] = base[x] \cup {x}]
    /\ base' = [base EXCEPT ![x] = {}]
    /\ overlapped' = IF Rivals(x) = {} THEN overlapped ELSE overlapped \cup {x}
    /\ resurrected' = resurrected \cup (base[x] \ cart[u])
    /\ UNCHANGED <<cleared, calls, asked, live, order, pc, answer>>

\* The store fails between the two: the unit never reaches the cart.
AddFail(x) ==
    /\ adding[x] = "read"
    /\ adding' = [adding EXCEPT ![x] = "failed"]
    /\ base' = [base EXCEPT ![x] = {}]
    /\ UNCHANGED <<cart, overlapped, resurrected, cleared, calls, asked, live, order, pc, answer>>

\* The customer empties the cart, or the store loses it: 60 minutes have passed since the
\* last write, or it restarts.
Clear(u) ==
    /\ cart[u] # {}
    /\ cart' = [cart EXCEPT ![u] = {}]
    /\ cleared' = cleared \cup cart[u]
    /\ UNCHANGED <<adding, base, overlapped, resurrected, calls, asked, live, order, pc, answer>>
-----------------------------------------------------------------------------
(* The services PlaceOrder calls, each acting on a request under way.        *)

Request(o, call) == <<call, o>> \in asked /\ asked' = asked \ {<<call, o>>}

Charge(o) ==
    /\ Request(o, "charge")
    /\ charged' = [charged EXCEPT ![o] = Append(@, total[o])]
    /\ UNCHANGED <<carts, shipped, mailed, published, live, order, pc, answer>>

\* Mutant: the parcel holds what the cart holds by now.
ShipRereadsCart(o) ==
    /\ Request(o, "ship")
    /\ shipped' = [shipped EXCEPT ![o] = Append(@, cart[Customer[o]])]
    /\ UNCHANGED <<carts, charged, mailed, published, live, order, pc, answer>>

Ship(o) ==
    /\ Request(o, "ship")
    /\ shipped' = [shipped EXCEPT ![o] = Append(@, snapshot[o])]
    /\ UNCHANGED <<carts, charged, mailed, published, live, order, pc, answer>>

\* Mutant: the cart service answers without emptying the cart.
EmptyKeepsCart(o) ==
    /\ Request(o, "empty")
    /\ emptied' = emptied \cup {o}
    /\ UNCHANGED <<carts, calls, live, snapshot, total, openAtRead, pc, answer>>

\* The cart service empties whatever cart the customer has by now.
Empty(o) ==
    /\ Request(o, "empty")
    /\ cart' = [cart EXCEPT ![Customer[o]] = {}]
    /\ emptied' = emptied \cup {o}
    /\ UNCHANGED <<adding, base, overlapped, resurrected, cleared, calls, live, snapshot, total,
                   openAtRead, pc, answer>>

Mail(o) ==
    /\ Request(o, "mail")
    /\ mailed' = [mailed EXCEPT ![o] = Append(@, snapshot[o])]
    /\ UNCHANGED <<carts, charged, shipped, published, live, order, pc, answer>>

\* A request is refused, or never reaches its service.
Miss(o) ==
    /\ \E call \in Calls : Request(o, call)
    /\ UNCHANGED <<carts, calls, live, order, pc, answer>>
-----------------------------------------------------------------------------
(* PlaceOrder.                                                              *)

\* Mutant: the order is confirmed without having been shipped.
GotoSkipsShip(o, step) ==
    pc' = [pc EXCEPT ![o] = IF step = "ship" THEN "confirm" ELSE step]

Goto(o, step) == pc' = [pc EXCEPT ![o] = step]

\* Mutant: a charge that ended with an error is tried again.
ReturnRetriesCharge(o, status) ==
    IF pc[o] = "charge"
    THEN pc' = [pc EXCEPT ![o] = "total"] /\ UNCHANGED <<live, answer>>
    ELSE /\ pc' = [pc EXCEPT ![o] = "done"]
         /\ answer' = [answer EXCEPT ![o] = status]
         /\ live' = live \ {o}

\* gRPC ends the context of a handler that has returned.
Return(o, status) ==
    /\ pc' = [pc EXCEPT ![o] = "done"]
    /\ answer' = [answer EXCEPT ![o] = status]
    /\ live' = live \ {o}

\* A call with a context that is done never leaves.
Ask(o, call) == asked' = IF o \in live THEN asked \cup {<<call, o>>} ELSE asked

PlaceOrder(o) ==
    /\ pc[o] = "idle"
    /\ \/ Goto(o, "getCart") /\ UNCHANGED <<live, answer>>
       \/ Return(o, "internal")                      \* uuid.NewUUID failed
    /\ UNCHANGED <<carts, calls, asked, order>>

\* History: the orders of u that have read its cart and not emptied it.
OpenOrders(u) ==
    {p \in Orders : Customer[p] = u /\ snapshot[p] # {} /\ p \notin emptied}

\* getUserCart: the order is about what the cart holds now.
GetCart(o) ==
    /\ pc[o] = "getCart"
    /\ \/ /\ o \in live
          /\ snapshot' = [snapshot EXCEPT ![o] = cart[Customer[o]]]
          /\ openAtRead' = [openAtRead EXCEPT ![o] = OpenOrders(Customer[o])]
          /\ Goto(o, "prepare")
          /\ UNCHANGED <<live, answer>>
       \/ /\ Return(o, "internal")
          /\ UNCHANGED <<snapshot, openAtRead>>
    /\ UNCHANGED <<carts, calls, asked, total, emptied>>

\* prepOrderItems, quoteShipping and convertCurrency only read; any of them may fail.
Prepare(o) ==
    /\ pc[o] = "prepare"
    /\ \/ o \in live /\ Goto(o, "total") /\ UNCHANGED <<live, answer>>
       \/ Return(o, "internal")
    /\ UNCHANGED <<carts, calls, asked, order>>

\* The total is computed and the payment service is asked to charge it.
ChargeCard(o) ==
    /\ pc[o] = "total"
    /\ Amount(snapshot[o]) # Panic
    /\ total' = [total EXCEPT ![o] = Amount(snapshot[o])]
    /\ Ask(o, "charge")
    /\ Goto(o, "charge")
    /\ UNCHANGED <<carts, calls, live, snapshot, emptied, openAtRead, answer>>

\* The charge was answered and the shipping service is asked for the parcel, or the charge
\* ended with an error.
ShipOrder(o) ==
    /\ pc[o] = "charge"
    /\ \/ charged[o] # <<>> /\ Ask(o, "ship") /\ Goto(o, "ship") /\ UNCHANGED <<live, answer>>
       \/ Return(o, "internal") /\ UNCHANGED asked
    /\ UNCHANGED <<carts, calls, order>>

EmptyUserCart(o) ==
    /\ pc[o] = "ship"
    /\ \/ shipped[o] # <<>> /\ Ask(o, "empty") /\ Goto(o, "empty") /\ UNCHANGED <<live, answer>>
       \/ Return(o, "unavailable") /\ UNCHANGED asked
    /\ UNCHANGED <<carts, calls, order>>

\* Line 292: the error of emptyUserCart is discarded, whatever it was.
SendOrderConfirmation(o) ==
    /\ pc[o] = "empty"
    /\ Ask(o, "mail")
    /\ Goto(o, "confirm")
    /\ UNCHANGED <<carts, calls, live, order, answer>>

\* Mutant: after a cancelled wait the message is sent again.
SendToPostProcessorRetries(o) ==
    /\ pc[o] = "confirm"
    /\ published[o] <= 1 + Overload      \* bounds the mutant only
    /\ published' = [published EXCEPT ![o] = @ + 1]
    /\ Goto(o, IF o \in live THEN "placed" ELSE "confirm")
    /\ UNCHANGED <<carts, charged, shipped, mailed, asked, live, order, answer>>

\* Line 313: a failed confirmation is logged and forgotten.  The producer takes the message
\* (and flag kafkaQueueProblems sends more copies of it), or the context is done first;
\* KafkaProducer models the wait itself.
SendToPostProcessor(o) ==
    /\ pc[o] = "confirm"
    /\ \/ /\ KafkaSet
          /\ \E copies \in {0, Overload} : published' = [published EXCEPT ![o] = 1 + copies]
       \/ (KafkaSet => o \notin live) /\ UNCHANGED published
    /\ Goto(o, "placed")
    /\ UNCHANGED <<carts, charged, shipped, mailed, asked, live, order, answer>>

Respond(o) ==
    /\ pc[o] = "placed"
    /\ Return(o, "placed")
    /\ UNCHANGED <<carts, calls, asked, order>>

\* The caller goes away: gRPC cancels the handler's context.
Cancel(o) ==
    /\ pc[o] \in Running
    /\ o \in live
    /\ live' = live \ {o}
    /\ UNCHANGED <<carts, calls, asked, order, pc, answer>>

\* All handlers run in one process and none of them leaves a trace to recover from; what
\* they have asked for is under way all the same.
Die ==
    /\ pc' = [o \in Orders |-> IF pc[o] \in Running THEN "crashed" ELSE pc[o]]
    /\ answer' = [o \in Orders |-> IF pc[o] \in Running THEN "crashed" ELSE answer[o]]
    /\ live' = {o \in live : pc[o] \notin Running}
    /\ UNCHANGED <<carts, calls, asked, order>>

Crash == (\E o \in Orders : pc[o] \in Running) /\ Die

\* Must panics in a handler, which no recover() guards: the whole process goes down.
MustPanics(o) ==
    /\ pc[o] = "total"
    /\ Amount(snapshot[o]) = Panic
    /\ Die

Handler(o) ==
    \/ PlaceOrder(o) \/ GetCart(o) \/ Prepare(o) \/ MustPanics(o)
    \/ ChargeCard(o) \/ ShipOrder(o) \/ EmptyUserCart(o)
    \/ SendOrderConfirmation(o) \/ SendToPostProcessor(o) \/ Respond(o)

Service(o) == Charge(o) \/ Ship(o) \/ Empty(o) \/ Mail(o) \/ Miss(o)

\* Every order and every AddItem call of the instance has ended.
Finished ==
    /\ \A o \in Orders : pc[o] \in {"done", "crashed"}
    /\ \A x \in Units : adding[x] \in {"done", "failed"}
    /\ UNCHANGED vars

Next ==
    \/ \E x \in Units : AddRead(x) \/ AddWrite(x) \/ AddFail(x)
    \/ \E u \in Users : Clear(u)
    \/ \E o \in Orders : Handler(o) \/ Service(o) \/ Cancel(o)
    \/ Crash
    \/ Finished

Spec == Init /\ [][Next]_vars
-----------------------------------------------------------------------------
(* Properties.                                                              *)

\* Type invariant of the handlers, the carts and the effects on the other services.
TypeOK ==
    /\ cart \in [Users -> SUBSET Units]
    /\ adding \in [Units -> {"no", "read", "done", "failed"}]
    /\ base \in [Units -> SUBSET Units]
    /\ pc \in [Orders -> Steps]
    /\ live \subseteq Orders
    /\ asked \subseteq Calls \X Orders
    /\ snapshot \in [Orders -> SUBSET Units]
    /\ total \in [Orders -> Amounts \cup {None}]
    /\ charged \in [Orders -> Seq(Amounts)]
    /\ shipped \in [Orders -> Seq(SUBSET Units)]
    /\ emptied \subseteq Orders
    /\ mailed \in [Orders -> Seq(SUBSET Units)]
    /\ published \in [Orders -> 0 .. 1 + Overload]
    /\ answer \in [Orders -> {"none", "placed", "internal", "unavailable", "crashed"}]
    /\ openAtRead \in [Orders -> SUBSET Orders]
    /\ overlapped \subseteq Units
    /\ resurrected \subseteq Units
    /\ cleared \subseteq Units

\* A parcel leaves only for an order whose card was charged, and the amount charged is the
\* price of what is in the parcel, whatever happened to the cart since the order read it and
\* whenever the services act on what PlaceOrder asked for (lines 262-288).
ShipmentPaidFor ==
    \A o \in Orders : shipped[o] # <<>> => charged[o] = <<Amount(shipped[o][1])>>

\* What the customer is told by mail and what accounting and fraud detection are told
\* through Kafka is an order that was shipped, with the items that were shipped, however
\* the calls failed or the process died (lines 285-323).
AnnouncedOrderIsReal ==
    \A o \in Orders :
        /\ mailed[o] # <<>> => mailed[o] = shipped[o]
        /\ published[o] > 0 => shipped[o] # <<>>

\* Two orders charge for the same unit only if one of them read the cart while the other
\* had read and not (successfully) emptied it, or an AddItem call put the unit back into
\* the emptied cart.  Orders whose EmptyCart took effect and that do not overlap never do.
RebillHasACause ==
    \A o, p \in Orders : \A x \in snapshot[o] \cap snapshot[p] :
        o # p /\ charged[o] # <<>> /\ charged[p] # <<>>
            => o \in openAtRead[p] \/ p \in openAtRead[o] \/ x \in resurrected

\* A unit whose AddItem call was answered is in the cart or in an order, unless the customer
\* emptied the cart or the store lost it, or the call overlapped another AddItem or an order
\* that had read the cart and could still empty it.  An order can do that after it was
\* answered or its process died, as long as its EmptyCart is under way.
VanishHasACause ==
    \A x \in Units :
        /\ adding[x] = "done"
        /\ x \notin cart[Owner[x]]
        /\ \A o \in Orders : x \notin snapshot[o]
        => x \in overlapped \cup cleared

\* What OrderPromise sees of an order: how often it was charged and sent, and what is
\* still to come.
CardOf(o) == IF charged[o] = <<>> THEN "untouched"
             ELSE IF Len(charged[o]) = 1 THEN "charged" ELSE "charged again"
ParcelOf(o) == IF shipped[o] = <<>> THEN "none"
               ELSE IF Len(shipped[o]) = 1 THEN "sent" ELSE "sent again"
AskedOf(o) == IF <<"charge", o>> \in asked THEN "charge"
              ELSE IF <<"ship", o>> \in asked THEN "parcel" ELSE "nothing"

Promise == INSTANCE OrderPromise WITH
    card <- [o \in Orders |-> CardOf(o)],
    parcel <- [o \in Orders |-> ParcelOf(o)],
    asked <- [o \in Orders |-> AskedOf(o)]

\* PlaceOrder implements OrderPromise: charge before parcel, at most one of each per order,
\* success only for a charged and sent order, no Internal error once a parcel was asked for,
\* no Unavailable before the charge.  After the answer or a crash nothing happens but what
\* was asked before it: at most the charge after Internal, at most the parcel after
\* Unavailable, neither after success.
KeepsPromise == Promise!Spec

\* What the storefront tells the customer of every placed order: a confirmation was sent.
\* The handler ignores the failure of the call (lines 313-317).
ConfirmationSent ==
    \A o \in Orders :
        answer[o] = "placed" => mailed[o] # <<>> \/ <<"mail", o>> \in asked
=============================================================================
