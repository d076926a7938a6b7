--------------------------- MODULE CheckoutProofs ---------------------------
(***************************************************************************)
(* Proofs about Checkout for any users, orders, units and amounts.           *)
(* MoneyInv ties each step of a handler, and each request under way, to the  *)
(* money and the parcel; CartInv ties the carts to the snapshots of the      *)
(* orders that read them.                                                    *)
(***************************************************************************)
EXTENDS Checkout, TLAPS

Paid(o) == charged[o] = <<Amount(snapshot[o])>> /\ Amount(snapshot[o]) # Panic
Sent(o) == shipped[o] = <<snapshot[o]>>
Waiting(o, call) == <<call, o>> \in asked

Unpaid == {"idle", "getCart", "prepare", "total"}
Unsent == Unpaid \cup {"charge"}
Unmailed == Unsent \cup {"ship", "empty"}

\* What the requests under way say of the order.
RequestOK(o) ==
    /\ Waiting(o, "charge") =>
         /\ charged[o] = <<>> /\ shipped[o] = <<>> /\ ~Waiting(o, "ship")
         /\ total[o] = Amount(snapshot[o]) /\ Amount(snapshot[o]) # Panic
    /\ Waiting(o, "ship") => Paid(o) /\ shipped[o] = <<>>
    /\ Waiting(o, "mail") => Sent(o) /\ mailed[o] = <<>>

MoneyOK(o) ==
    /\ RequestOK(o)
    /\ charged[o] = <<>> \/ Paid(o)
    /\ shipped[o] = <<>> \/ (Sent(o) /\ Paid(o))
    /\ mailed[o] = <<>> \/ (mailed[o] = shipped[o] /\ Sent(o))
    /\ published[o] > 0 => Sent(o)
    /\ pc[o] \in Unpaid => charged[o] = <<>> /\ ~Waiting(o, "charge")
    /\ pc[o] \in Unsent => shipped[o] = <<>> /\ ~Waiting(o, "ship")
    /\ pc[o] \in Unmailed => mailed[o] = <<>> /\ ~Waiting(o, "mail")
    /\ pc[o] = "ship" => Paid(o)
    /\ pc[o] \in {"empty", "confirm", "placed"} => Sent(o) /\ Paid(o)
    /\ pc[o] \in Unmailed \cup {"confirm"} => published[o] = 0
    /\ answer[o] = "none" <=> pc[o] \notin {"done", "crashed"}

MoneyInv == \A o \in Orders : MoneyOK(o)

\* Only written units are in carts, in what AddItem calls have read, and in snapshots.
UnitsInv ==
    /\ \A u \in Users : \A x \in cart[u] : adding[x] = "done" /\ Owner[x] = u
    /\ \A y \in Units : \A x \in base[y] : adding[x] = "done" /\ Owner[x] = Owner[y]
    /\ \A o \in Orders : \A x \in snapshot[o] : adding[x] = "done" /\ Owner[x] = Customer[o]

\* What an emptied order took is out of the cart unless it was put back.
SoldInv ==
    \A o \in Orders :
        /\ pc[o] \in {"idle", "getCart"} =>
             snapshot[o] = {} /\ o \notin emptied /\ openAtRead[o] = {} /\ ~Waiting(o, "empty")
        /\ \A x \in snapshot[o] \cap cart[Customer[o]] : o \notin emptied \/ x \in resurrected

OverlapInv ==
    \A o, p \in Orders : \A x \in snapshot[o] \cap snapshot[p] :
        o # p => o \in openAtRead[p] \/ p \in openAtRead[o] \/ x \in resurrected

\* A written unit no order has taken, and why it may be missing.
Loose(x) == adding[x] = "done" /\ \A o \in Orders : x \notin snapshot[o]
Excused(x) == x \in overlapped \cup cleared

\* One that is missing from somewhere, or can still be emptied away, is excused.
VanishInv ==
    \A x \in Units : Loose(x) =>
        /\ x \notin cart[Owner[x]] => Excused(x)
        /\ \A y \in Units :
             adding[y] = "read" /\ Owner[y] = Owner[x] /\ x \notin base[y] => Excused(x)
        /\ \A o \in Orders : MayEmpty(o) /\ Customer[o] = Owner[x] => Excused(x)
-----------------------------------------------------------------------------
LEMMA InitTypeOK == Init => TypeOK
  BY CheckoutAssumption DEF Init, TypeOK, Steps

LEMMA StepNames ==
  /\ {"idle", "done", "crashed", "getCart", "confirm", "placed",
      "prepare", "total", "charge", "ship", "empty"} \subseteq Steps
  /\ Running \subseteq Steps
  BY DEF Steps, Running, Window

\* Moving a handler on, or ending it, keeps its control state well typed.
LEMMA GotoType ==
  ASSUME pc \in [Orders -> Steps], NEW o \in Orders, NEW step \in Steps, Goto(o, step)
  PROVE  pc' \in [Orders -> Steps]
  BY DEF Goto

LEMMA ReturnType ==
  ASSUME TypeOK, NEW o \in Orders, NEW status \in {"placed", "internal", "unavailable"},
         Return(o, status)
  PROVE  /\ pc' \in [Orders -> Steps] /\ live' \subseteq Orders
         /\ answer' \in [Orders -> {"none", "placed", "internal", "unavailable", "crashed"}]
<1> USE DEF TypeOK, Return
<1>1. pc' \in [Orders -> Steps]
  BY StepNames
<1>2. QED
  BY <1>1

LEMMA AskType ==
  ASSUME TypeOK, NEW o \in Orders, NEW call \in Calls, Ask(o, call)
  PROVE  asked' \subseteq Calls \X Orders
<1>1. <<call, o>> \in Calls \X Orders
  OBVIOUS
<1>2. QED
  BY <1>1 DEF Ask, TypeOK

LEMMA NextTypeOK == TypeOK /\ MoneyInv /\ [Next]_vars => TypeOK'
<1> SUFFICES ASSUME TypeOK, MoneyInv, [Next]_vars PROVE TypeOK'
  OBVIOUS
<1> USE CheckoutAssumption DEF TypeOK, carts, calls, order
<1>1. ASSUME NEW x \in Units, AddRead(x) PROVE TypeOK'
  BY <1>1 DEF AddRead
<1>2. ASSUME NEW x \in Units, AddWrite(x) PROVE TypeOK'
  BY <1>2 DEF AddWrite, Rivals
<1>3. ASSUME NEW x \in Units, AddFail(x) PROVE TypeOK'
  BY <1>3 DEF AddFail
<1>4. ASSUME NEW u \in Users, Clear(u) PROVE TypeOK'
  BY <1>4 DEF Clear
<1>5. ASSUME NEW o \in Orders, PlaceOrder(o) PROVE TypeOK'
  <2>1. CASE Goto(o, "getCart") /\ UNCHANGED <<live, answer>>
    <3>1. pc' \in [Orders -> Steps]
      BY <2>1, GotoType, StepNames
    <3>2. QED
      BY <1>5, <2>1, <3>1 DEF PlaceOrder
  <2>2. CASE Return(o, "internal")
    BY <1>5, <2>2, ReturnType DEF PlaceOrder
  <2>3. QED
    BY <1>5, <2>1, <2>2 DEF PlaceOrder
<1>6. ASSUME NEW o \in Orders, GetCart(o) PROVE TypeOK'
  <2>1. CASE Return(o, "internal") /\ UNCHANGED <<snapshot, openAtRead>>
    BY <1>6, <2>1, ReturnType DEF GetCart
  <2>2. CASE /\ snapshot' = [snapshot EXCEPT ![o] = cart[Customer[o]]]
             /\ openAtRead' = [openAtRead EXCEPT ![o] = OpenOrders(Customer[o])]
             /\ Goto(o, "prepare")
             /\ UNCHANGED <<live, answer>>
    <3>1. pc' \in [Orders -> Steps]
      BY <2>2, GotoType, StepNames
    <3>2. snapshot' \in [Orders -> SUBSET Units]
      BY <2>2
    <3>3. OpenOrders(Customer[o]) \in SUBSET Orders
      BY DEF OpenOrders
    <3>4. openAtRead' \in [Orders -> SUBSET Orders]
      BY <2>2, <3>3
    <3>5. QED
      BY <1>6, <2>2, <3>1, <3>2, <3>4 DEF GetCart
  <2>3. QED
    BY <1>6, <2>1, <2>2 DEF GetCart
<1>7. ASSUME NEW o \in Orders, Prepare(o) PROVE TypeOK'
  <2>1. CASE Goto(o, "total") /\ UNCHANGED <<live, answer>>
    <3>1. pc' \in [Orders -> Steps]
      BY <2>1, GotoType, StepNames
    <3>2. QED
      BY <1>7, <2>1, <3>1 DEF Prepare
  <2>2. CASE Return(o, "internal")
    BY <1>7, <2>2, ReturnType DEF Prepare
  <2>3. QED
    BY <1>7, <2>1, <2>2 DEF Prepare
<1>8. ASSUME NEW o \in Orders, ChargeCard(o) PROVE TypeOK'
  <2>1. pc' \in [Orders -> Steps]
    BY <1>8, GotoType, StepNames DEF ChargeCard
  <2>2. asked' \subseteq Calls \X Orders
    BY <1>8, AskType DEF ChargeCard, Calls
  <2>3. total' \in [Orders -> Amounts \cup {None}]
    BY <1>8 DEF ChargeCard
  <2>4. QED
    BY <1>8, <2>1, <2>2, <2>3 DEF ChargeCard
<1>9. ASSUME NEW o \in Orders, ShipOrder(o) PROVE TypeOK'
  <2>1. CASE Ask(o, "ship") /\ Goto(o, "ship") /\ UNCHANGED <<live, answer>>
    <3>1. pc' \in [Orders -> Steps]
      BY <2>1, GotoType, StepNames
    <3>2. asked' \subseteq Calls \X Orders
      BY <2>1, AskType DEF Calls
    <3>3. QED
      BY <1>9, <2>1, <3>1, <3>2 DEF ShipOrder
  <2>2. CASE Return(o, "internal") /\ UNCHANGED asked
    BY <1>9, <2>2, ReturnType DEF ShipOrder
  <2>3. QED
    BY <1>9, <2>1, <2>2 DEF ShipOrder
<1>10. ASSUME NEW o \in Orders, EmptyUserCart(o) PROVE TypeOK'
  <2>1. CASE Ask(o, "empty") /\ Goto(o, "empty") /\ UNCHANGED <<live, answer>>
    <3>1. pc' \in [Orders -> Steps]
      BY <2>1, GotoType, StepNames
    <3>2. asked' \subseteq Calls \X Orders
      BY <2>1, AskType DEF Calls
    <3>3. QED
      BY <1>10, <2>1, <3>1, <3>2 DEF EmptyUserCart
  <2>2. CASE Return(o, "unavailable") /\ UNCHANGED asked
    BY <1>10, <2>2, ReturnType DEF EmptyUserCart
  <2>3. QED
    BY <1>10, <2>1, <2>2 DEF EmptyUserCart
<1>11. ASSUME NEW o \in Orders, SendOrderConfirmation(o) PROVE TypeOK'
  <2>1. pc' \in [Orders -> Steps]
    BY <1>11, GotoType, StepNames DEF SendOrderConfirmation
  <2>2. asked' \subseteq Calls \X Orders
    BY <1>11, AskType DEF SendOrderConfirmation, Calls
  <2>3. QED
    BY <1>11, <2>1, <2>2 DEF SendOrderConfirmation
<1>12. ASSUME NEW o \in Orders, SendToPostProcessor(o) PROVE TypeOK'
  <2>1. pc' \in [Orders -> Steps]
    BY <1>12, GotoType, StepNames DEF SendToPostProcessor
  <2>2. published' \in [Orders -> 0 .. 1 + Overload]
    <3>1. \A copies \in {0, Overload} : 1 + copies \in 0 .. 1 + Overload
      OBVIOUS
    <3>2. CASE \E copies \in {0, Overload} : published' = [published EXCEPT ![o] = 1 + copies]
      BY <3>1, <3>2
    <3>3. CASE UNCHANGED published
      BY <3>3
    <3>4. QED
      BY <1>12, <3>2, <3>3 DEF SendToPostProcessor
  <2>3. QED
    BY <1>12, <2>1, <2>2 DEF SendToPostProcessor
<1>13. ASSUME NEW o \in Orders, Respond(o) PROVE TypeOK'
  BY <1>13, ReturnType DEF Respond
<1>14. ASSUME NEW o \in Orders, Charge(o) PROVE TypeOK'
  <2>1. total[o] \in Amounts
    BY <1>14 DEF Charge, Request, MoneyInv, MoneyOK, RequestOK, Waiting
  <2>2. charged' \in [Orders -> Seq(Amounts)]
    BY <1>14, <2>1 DEF Charge
  <2>3. QED
    BY <1>14, <2>2 DEF Charge, Request
<1>15. ASSUME NEW o \in Orders, Ship(o) PROVE TypeOK'
  <2>1. shipped' \in [Orders -> Seq(SUBSET Units)]
    BY <1>15 DEF Ship
  <2>2. QED
    BY <1>15, <2>1 DEF Ship, Request
<1>16. ASSUME NEW o \in Orders, Empty(o) PROVE TypeOK'
  BY <1>16 DEF Empty, Request
<1>17. ASSUME NEW o \in Orders, Mail(o) PROVE TypeOK'
  <2>1. mailed' \in [Orders -> Seq(SUBSET Units)]
    BY <1>17 DEF Mail
  <2>2. QED
    BY <1>17, <2>1 DEF Mail, Request
<1>18. ASSUME NEW o \in Orders, Miss(o) PROVE TypeOK'
  BY <1>18 DEF Miss, Request
<1>19. ASSUME NEW o \in Orders, Cancel(o) PROVE TypeOK'
  BY <1>19 DEF Cancel
<1>20. CASE Die
  <2>1. pc' \in [Orders -> Steps]
    BY <1>20, StepNames DEF Die
  <2>2. QED
    BY <1>20, <2>1 DEF Die
<1>21. CASE UNCHANGED vars
  BY <1>21 DEF vars
<1>22. QED
  BY <1>1, <1>2, <1>3, <1>4, <1>5, <1>6, <1>7, <1>8, <1>9, <1>10, <1>11, <1>12, <1>13,
     <1>14, <1>15, <1>16, <1>17, <1>18, <1>19, <1>20, <1>21
     DEF Next, Handler, Service, MustPanics, Crash, Finished
-----------------------------------------------------------------------------
(* MoneyInv.                                                                *)

LEMMA InitMoneyInv == Init => MoneyInv
  BY DEF Init, MoneyInv, MoneyOK, RequestOK, Waiting, Paid, Sent, Unpaid, Unsent, Unmailed

\* MoneyOK(p) reads only what belongs to order p.
Same(p) ==
    /\ charged'[p] = charged[p] /\ shipped'[p] = shipped[p] /\ mailed'[p] = mailed[p]
    /\ published'[p] = published[p] /\ snapshot'[p] = snapshot[p] /\ total'[p] = total[p]
    /\ pc'[p] = pc[p] /\ answer'[p] = answer[p]
    /\ \A call \in Calls : Waiting(p, call)' <=> Waiting(p, call)

LEMMA MoneyFrame ==
  ASSUME NEW p \in Orders, MoneyOK(p), Same(p) PROVE MoneyOK(p)'
<1>1. \A call \in {"charge", "ship", "mail"} : Waiting(p, call)' <=> Waiting(p, call)
  BY DEF Same, Calls
<1>2. QED
  BY <1>1 DEF MoneyOK, RequestOK, Paid, Sent, Same

\* A step of an order, or of a service for it, leaves every other order as it is.
LEMMA OrderFrame ==
  ASSUME TypeOK, NEW o \in Orders, NEW p \in Orders \ {o},
         (Handler(o) /\ ~MustPanics(o)) \/ Service(o)
  PROVE  Same(p)
<1> USE DEF TypeOK, Same, Goto, Return, Ask, Request, Waiting, carts, calls, order
<1>1. CASE PlaceOrder(o)
  BY <1>1 DEF PlaceOrder
<1>2. CASE GetCart(o)
  BY <1>2 DEF GetCart
<1>3. CASE Prepare(o)
  BY <1>3 DEF Prepare
<1>4. CASE ChargeCard(o)
  BY <1>4 DEF ChargeCard
<1>5. CASE ShipOrder(o)
  BY <1>5 DEF ShipOrder
<1>6. CASE EmptyUserCart(o)
  BY <1>6 DEF EmptyUserCart
<1>7. CASE SendOrderConfirmation(o)
  BY <1>7 DEF SendOrderConfirmation
<1>8. CASE SendToPostProcessor(o)
  BY <1>8 DEF SendToPostProcessor
<1>9. CASE Respond(o)
  BY <1>9 DEF Respond
<1>10. CASE Charge(o)
  BY <1>10 DEF Charge
<1>11. CASE Ship(o)
  BY <1>11 DEF Ship
<1>12. CASE Empty(o)
  BY <1>12 DEF Empty
<1>13. CASE Mail(o)
  BY <1>13 DEF Mail
<1>14. CASE Miss(o)
  BY <1>14 DEF Miss
<1>15. QED
  BY <1>1, <1>2, <1>3, <1>4, <1>5, <1>6, <1>7, <1>8, <1>9, <1>10, <1>11, <1>12, <1>13, <1>14
     DEF Handler, Service

\* Each step of o's handler keeps MoneyOK(o).
LEMMA HandlerMoney ==
  ASSUME TypeOK, NEW o \in Orders, MoneyOK(o), Handler(o), ~MustPanics(o)
  PROVE  MoneyOK(o)'
<1> USE DEF TypeOK, MoneyOK, RequestOK, Waiting, Paid, Sent, Unpaid, Unsent, Unmailed,
            Goto, Return, Ask, carts, calls, order
<1>1. CASE PlaceOrder(o)
  BY <1>1 DEF PlaceOrder
<1>2. CASE GetCart(o)
  <2>1. pc[o] = "getCart" /\ charged[o] = <<>> /\ shipped[o] = <<>> /\ mailed[o] = <<>>
    BY <1>2 DEF GetCart
  <2>2. pc'[o] \in {"prepare", "done"} /\ (answer'[o] = "none" <=> pc'[o] = "prepare")
    BY <1>2 DEF GetCart
  <2>3. UNCHANGED <<charged, shipped, mailed, published, asked>>
    BY <1>2 DEF GetCart
  <2>4. QED
    BY <2>1, <2>2, <2>3
<1>3. CASE Prepare(o)
  BY <1>3 DEF Prepare
<1>4. CASE ChargeCard(o)
  BY <1>4 DEF ChargeCard
<1>5. CASE ShipOrder(o)
  BY <1>5 DEF ShipOrder
<1>6. CASE EmptyUserCart(o)
  BY <1>6 DEF EmptyUserCart
<1>7. CASE SendOrderConfirmation(o)
  BY <1>7 DEF SendOrderConfirmation
<1>8. CASE SendToPostProcessor(o)
  BY <1>8 DEF SendToPostProcessor
<1>9. CASE Respond(o)
  BY <1>9 DEF Respond
<1>10. QED
  BY <1>1, <1>2, <1>3, <1>4, <1>5, <1>6, <1>7, <1>8, <1>9 DEF Handler

\* So does whatever a service does for o, wherever o's handler is by then.
LEMMA ServiceMoney ==
  ASSUME TypeOK, NEW o \in Orders, MoneyOK(o), Service(o)
  PROVE  MoneyOK(o)'
<1> USE DEF TypeOK, MoneyOK, RequestOK, Waiting, Paid, Sent, Unpaid, Unsent, Unmailed,
            Request, carts, calls, order
<1>1. CASE Charge(o)
  BY <1>1 DEF Charge
<1>2. CASE Ship(o)
  BY <1>2 DEF Ship
<1>3. CASE Empty(o)
  BY <1>3 DEF Empty
<1>4. CASE Mail(o)
  <2>1. /\ mailed[o] = <<>> /\ Sent(o) /\ mailed' = [mailed EXCEPT ![o] = Append(@, snapshot[o])]
        /\ asked' = asked \ {<<"mail", o>>}
        /\ UNCHANGED <<charged, shipped, published, snapshot, total, pc, answer>>
    BY <1>4 DEF Mail
  <2>2. mailed'[o] = <<snapshot[o]>>
    BY <2>1
  <2>3. ~(<<"mail", o>> \in asked') /\ \A call \in {"charge", "ship"} :
          <<call, o>> \in asked' <=> <<call, o>> \in asked
    BY <2>1
  <2>4. pc[o] \notin Unmailed
    BY <1>4 DEF Mail
  <2> HIDE DEF TypeOK
  <2>5. QED
    BY <2>1, <2>2, <2>3, <2>4
<1>5. CASE Miss(o)
  BY <1>5 DEF Miss
<1>6. QED
  BY <1>1, <1>2, <1>3, <1>4, <1>5 DEF Service

LEMMA NextMoneyInv == TypeOK /\ MoneyInv /\ [Next]_vars => MoneyInv'
<1> SUFFICES ASSUME TypeOK, MoneyInv, [Next]_vars, NEW p \in Orders PROVE MoneyOK(p)'
  BY DEF MoneyInv
<1>0. MoneyOK(p)
  BY DEF MoneyInv
<1>1. ASSUME NEW x \in Units, AddRead(x) \/ AddWrite(x) \/ AddFail(x) PROVE Same(p)
  BY <1>1 DEF AddRead, AddWrite, AddFail, Same, Waiting, calls, order
<1>2. ASSUME NEW u \in Users, Clear(u) PROVE Same(p)
  BY <1>2 DEF Clear, Same, Waiting, calls, order
<1>3. ASSUME NEW o \in Orders, Cancel(o) PROVE Same(p)
  BY <1>3 DEF Cancel, Same, Waiting, calls, order
<1>4. CASE UNCHANGED vars
  <2>1. UNCHANGED <<charged, shipped, mailed, published, asked, snapshot, total, pc, answer>>
    BY <1>4 DEF vars, calls, order
  <2>2. \A call \in Calls : Waiting(p, call)' <=> Waiting(p, call)
    BY <2>1 DEF Waiting
  <2>3. QED
    BY <1>0, <2>1, <2>2, MoneyFrame DEF Same
<1>5. CASE Die
  BY <1>0, <1>5 DEF Die, TypeOK, MoneyOK, RequestOK, Waiting, Paid, Sent, Unpaid, Unsent,
     Unmailed, Running, Window, calls, order
<1>6. ASSUME NEW o \in Orders, (Handler(o) /\ ~MustPanics(o)) \/ Service(o) PROVE MoneyOK(p)'
  <2>1. CASE p = o
    BY <1>0, <1>6, <2>1, HandlerMoney, ServiceMoney
  <2>2. CASE p # o
    BY <1>0, <1>6, <2>2, OrderFrame, MoneyFrame
  <2>3. QED
    BY <2>1, <2>2
<1>7. QED
  BY <1>0, <1>1, <1>2, <1>3, <1>4, <1>5, <1>6, MoneyFrame DEF Next, MustPanics, Crash, Finished

LEMMA MoneyInvariant == Spec => [](TypeOK /\ MoneyInv)
<1>1. Init => TypeOK /\ MoneyInv
  BY InitTypeOK, InitMoneyInv
<1>2. TypeOK /\ MoneyInv /\ [Next]_vars => (TypeOK /\ MoneyInv)'
  BY NextTypeOK, NextMoneyInv
<1>3. QED
  BY <1>1, <1>2, PTL DEF Spec

\* Type correctness.  It needs MoneyInv: a charge is asked for only once a total was computed.
THEOREM CheckoutTypeOK == Spec => []TypeOK
  BY MoneyInvariant, PTL

\* Every parcel was paid for, with the price of its contents.
THEOREM ShipmentsArePaidFor == Spec => []ShipmentPaidFor
<1>1. TypeOK /\ MoneyInv => ShipmentPaidFor
  BY DEF MoneyInv, MoneyOK, Paid, Sent, ShipmentPaidFor
<1>2. QED
  BY <1>1, MoneyInvariant, PTL

\* Whatever is announced by mail or through Kafka was shipped.
THEOREM AnnouncementsAreReal == Spec => []AnnouncedOrderIsReal
<1>1. TypeOK /\ MoneyInv => AnnouncedOrderIsReal
  BY DEF MoneyInv, MoneyOK, Paid, Sent, AnnouncedOrderIsReal
<1>2. QED
  BY <1>1, MoneyInvariant, PTL
-----------------------------------------------------------------------------
(* PlaceOrder implements OrderPromise.                                      *)

LEMMA InitPromise == Init => Promise!Init
  BY DEF Init, Promise!Init, CardOf, ParcelOf, AskedOf

\* Under MoneyInv nothing is charged or sent again.
LEMMA CardMapping ==
  ASSUME NEW o \in Orders, MoneyOK(o)
  PROVE  CardOf(o) = IF charged[o] = <<>> THEN "untouched" ELSE "charged"
<1>1. charged[o] # <<>> => \E a : charged[o] = <<a>>
  BY DEF MoneyOK, Paid
<1>2. \A a : Len(<<a>>) = 1
  OBVIOUS
<1>3. QED
  BY <1>1, <1>2 DEF CardOf

LEMMA ParcelMapping ==
  ASSUME NEW o \in Orders, MoneyOK(o)
  PROVE  ParcelOf(o) = IF shipped[o] = <<>> THEN "none" ELSE "sent"
<1>1. shipped[o] # <<>> => \E a : shipped[o] = <<a>>
  BY DEF MoneyOK, Sent
<1>2. \A a : Len(<<a>>) = 1
  OBVIOUS
<1>3. QED
  BY <1>1, <1>2 DEF ParcelOf

\* What the promise sees of p depends on p's charges, parcels and requests only.
Seen(p) ==
    /\ charged'[p] = charged[p] /\ shipped'[p] = shipped[p]
    /\ \A call \in {"charge", "ship"} : Waiting(p, call)' <=> Waiting(p, call)

LEMMA SeenMapping ==
  ASSUME NEW p \in Orders, Seen(p)
  PROVE  CardOf(p)' = CardOf(p) /\ ParcelOf(p)' = ParcelOf(p) /\ AskedOf(p)' = AskedOf(p)
  BY DEF Seen, Waiting, CardOf, ParcelOf, AskedOf

LEMMA PromiseStutter ==
  ASSUME \A p \in Orders : Seen(p), answer' = answer
  PROVE  UNCHANGED Promise!pvars
  BY SeenMapping DEF Promise!pvars

\* A step for one order whose charges, parcels and requests stay is an answer or nothing.
LEMMA AnswerPromise ==
  ASSUME TypeOK, MoneyInv, NEW o \in Orders, \A p \in Orders : Seen(p),
         NEW status \in {"placed", "internal", "unavailable"}, Return(o, status),
         pc[o] \notin {"done", "crashed"},
         status = "placed" => pc[o] = "placed",
         status = "internal" => pc[o] \in Unsent,
         status = "unavailable" => pc[o] = "ship"
  PROVE  Promise!Next
<1>0. MoneyOK(o)
  BY DEF MoneyInv
<1>1. answer[o] = "none"
  BY <1>0 DEF MoneyOK
<1>2. Promise!Answer(o, status)
  <2>1. answer' = [answer EXCEPT ![o] = status]
    BY DEF Return
  <2>2. QED
    BY <1>1, <2>1, SeenMapping DEF Promise!Answer, Promise!Open
<1>3. \A a : <<a>> # <<>>
  OBVIOUS
<1>4. CASE status = "placed"
  <2>1. charged[o] # <<>> /\ shipped[o] # <<>>
    BY <1>0, <1>3, <1>4 DEF MoneyOK, Paid, Sent
  <2>2. CardOf(o) = "charged" /\ ParcelOf(o) = "sent"
    BY <1>0, <2>1, CardMapping, ParcelMapping
  <2>3. QED
    BY <1>2, <1>4, <2>2 DEF Promise!Place, Promise!Next
<1>5. CASE status = "internal"
  <2>1. ParcelOf(o) = "none" /\ AskedOf(o) # "parcel"
    BY <1>0, <1>5 DEF MoneyOK, Waiting, ParcelOf, AskedOf
  <2>2. QED
    BY <1>2, <1>5, <2>1 DEF Promise!FailInternal, Promise!Next
<1>6. CASE status = "unavailable"
  <2>1. charged[o] # <<>>
    BY <1>0, <1>3, <1>6 DEF MoneyOK, Paid
  <2>2. CardOf(o) = "charged"
    BY <1>0, <2>1, CardMapping
  <2>3. QED
    BY <1>2, <1>6, <2>2 DEF Promise!FailUnavailable, Promise!Next
<1>7. QED
  BY <1>4, <1>5, <1>6

\* A handler's step that asks for nothing is an answer, or invisible to the promise.
LEMMA HandlerPromise ==
  ASSUME TypeOK, MoneyInv, NEW o \in Orders,
         PlaceOrder(o) \/ GetCart(o) \/ Prepare(o) \/ SendOrderConfirmation(o)
           \/ SendToPostProcessor(o) \/ Respond(o)
           \/ (ShipOrder(o) /\ pc'[o] = "done")
           \/ EmptyUserCart(o)
  PROVE  Promise!Next \/ UNCHANGED Promise!pvars
<1>1. \A p \in Orders : Seen(p)
  <2> USE DEF Seen, Waiting, Ask, Return, Goto, calls, TypeOK
  <2>1. CASE PlaceOrder(o)
    BY <2>1 DEF PlaceOrder
  <2>2. CASE GetCart(o)
    BY <2>2 DEF GetCart
  <2>3. CASE Prepare(o)
    BY <2>3 DEF Prepare
  <2>4. CASE SendOrderConfirmation(o)
    BY <2>4 DEF SendOrderConfirmation
  <2>5. CASE SendToPostProcessor(o)
    BY <2>5 DEF SendToPostProcessor
  <2>6. CASE Respond(o)
    BY <2>6 DEF Respond
  <2>7. CASE ShipOrder(o) /\ pc'[o] = "done"
    BY <2>7 DEF ShipOrder
  <2>8. CASE EmptyUserCart(o)
    BY <2>8 DEF EmptyUserCart
  <2>9. QED
    BY <2>1, <2>2, <2>3, <2>4, <2>5, <2>6, <2>7, <2>8
<1>2. CASE answer' = answer
  BY <1>1, <1>2, PromiseStutter
<1>3. CASE Return(o, "internal") /\ pc[o] \in Unsent
  BY <1>1, <1>3, AnswerPromise DEF Unsent, Unpaid
<1>4. CASE Return(o, "unavailable") /\ pc[o] = "ship"
  BY <1>1, <1>4, AnswerPromise
<1>5. CASE Return(o, "placed") /\ pc[o] = "placed"
  BY <1>1, <1>5, AnswerPromise
<1>6. \/ answer' = answer
      \/ Return(o, "internal") /\ pc[o] \in Unsent
      \/ Return(o, "unavailable") /\ pc[o] = "ship"
      \/ Return(o, "placed") /\ pc[o] = "placed"
  <2> USE DEF Unsent, Unpaid
  <2>1. CASE PlaceOrder(o)
    BY <2>1 DEF PlaceOrder
  <2>2. CASE GetCart(o)
    BY <2>2 DEF GetCart
  <2>3. CASE Prepare(o)
    BY <2>3 DEF Prepare
  <2>4. CASE SendOrderConfirmation(o) \/ SendToPostProcessor(o)
    BY <2>4 DEF SendOrderConfirmation, SendToPostProcessor
  <2>5. CASE Respond(o)
    BY <2>5 DEF Respond
  <2>6. CASE ShipOrder(o)
    BY <2>6 DEF ShipOrder
  <2>7. CASE EmptyUserCart(o)
    BY <2>7 DEF EmptyUserCart
  <2>8. QED
    BY <2>1, <2>2, <2>3, <2>4, <2>5, <2>6, <2>7
<1>7. QED
  BY <1>2, <1>3, <1>4, <1>5, <1>6

\* Asking for the charge and asking for the parcel, unless the context is done.
LEMMA AskPromise ==
  ASSUME TypeOK, MoneyInv, NEW o \in Orders,
         ChargeCard(o) \/ (ShipOrder(o) /\ pc'[o] # "done")
  PROVE  Promise!Next \/ UNCHANGED Promise!pvars
<1>0. MoneyOK(o)
  BY DEF MoneyInv
<1>1. UNCHANGED <<charged, shipped, answer>>
  BY DEF ChargeCard, ShipOrder, Return, TypeOK, calls
<1>2. CASE asked' = asked
  <2>1. \A p \in Orders : Seen(p)
    BY <1>1, <1>2 DEF Seen, Waiting
  <2>2. QED
    BY <1>1, <2>1, PromiseStutter
<1>3. \A p \in Orders : CardOf(p)' = CardOf(p) /\ ParcelOf(p)' = ParcelOf(p)
  BY <1>1 DEF CardOf, ParcelOf
<1>4. CASE ChargeCard(o) /\ asked' = asked \cup {<<"charge", o>>}
  <2>1. \A p \in Orders : AskedOf(p)' = IF p = o THEN "charge" ELSE AskedOf(p)
    BY <1>4 DEF AskedOf
  <2>2. pc[o] = "total"
    BY <1>4 DEF ChargeCard
  <2>3. AskedOf(o) = "nothing" /\ CardOf(o) = "untouched" /\ answer[o] = "none"
    BY <1>0, <2>2 DEF MoneyOK, Waiting, Unpaid, Unsent, AskedOf, CardOf
  <2>4. Promise!AskCharge(o)
    BY <1>1, <1>3, <2>1, <2>3 DEF Promise!AskCharge, Promise!Open
  <2>5. QED
    BY <2>4 DEF Promise!Next
<1>5. CASE ShipOrder(o) /\ pc'[o] # "done" /\ asked' = asked \cup {<<"ship", o>>}
  <2>1. pc[o] = "charge" /\ charged[o] # <<>>
    BY <1>5 DEF ShipOrder, Return, TypeOK
  <2>2. shipped[o] = <<>> /\ ~Waiting(o, "charge") /\ ~Waiting(o, "ship") /\ answer[o] = "none"
    BY <1>0, <2>1 DEF MoneyOK, RequestOK, Unsent
  <2>3. AskedOf(o) = "nothing" /\ CardOf(o) = "charged" /\ ParcelOf(o) = "none"
    BY <1>0, <2>1, <2>2, CardMapping, ParcelMapping DEF AskedOf, Waiting
  <2>4. \A p \in Orders : AskedOf(p)' = IF p = o THEN "parcel" ELSE AskedOf(p)
    BY <1>5, <2>2 DEF AskedOf, Waiting
  <2>5. Promise!AskParcel(o)
    BY <1>1, <1>3, <2>2, <2>3, <2>4 DEF Promise!AskParcel, Promise!Open
  <2>6. QED
    BY <2>5 DEF Promise!Next
<1>6. QED
  BY <1>2, <1>4, <1>5 DEF ChargeCard, ShipOrder, Ask, Return, TypeOK

\* A charge comes once, whatever has become of the handler.
LEMMA ChargePromise ==
  ASSUME TypeOK, MoneyInv, NEW o \in Orders, Charge(o)
  PROVE  Promise!Charge(o)
<1>1. Waiting(o, "charge") /\ charged[o] = <<>> /\ ~Waiting(o, "ship")
  BY DEF Charge, Request, Waiting, MoneyInv, MoneyOK, RequestOK
<1>2. charged' = [charged EXCEPT ![o] = Append(@, total[o])] /\ asked' = asked \ {<<"charge", o>>}
      /\ UNCHANGED <<shipped, answer>>
  BY DEF Charge, Request
<1>3. AskedOf(o) = "charge" /\ AskedOf(o)' = "nothing"
  BY <1>1, <1>2 DEF AskedOf, Waiting
<1>4. CardOf(o)' = "charged"
  <2>1. Append(<<>>, total[o]) = <<total[o]>>
    OBVIOUS
  <2>2. charged'[o] = <<total[o]>>
    BY <1>1, <1>2, <2>1 DEF TypeOK
  <2>3. charged'[o] # <<>> /\ Len(charged'[o]) = 1
    BY <2>2
  <2>4. QED
    BY <2>3 DEF CardOf
<1>5. \A p \in Orders : ParcelOf(p)' = ParcelOf(p)
  BY <1>2 DEF ParcelOf
<1>6. \A p \in Orders \ {o} : CardOf(p)' = CardOf(p) /\ AskedOf(p)' = AskedOf(p)
  BY <1>2 DEF CardOf, AskedOf, TypeOK
<1>7. QED
  BY <1>2, <1>3, <1>4, <1>5, <1>6 DEF Promise!Charge

LEMMA ShipPromise ==
  ASSUME TypeOK, MoneyInv, NEW o \in Orders, Ship(o)
  PROVE  Promise!Send(o)
<1>1. Waiting(o, "ship") /\ shipped[o] = <<>> /\ ~Waiting(o, "charge")
  <2>1. MoneyOK(o) /\ Waiting(o, "ship")
    BY DEF Ship, Request, Waiting, MoneyInv
  <2>2. QED
    BY <2>1 DEF MoneyOK, RequestOK
<1>2. shipped' = [shipped EXCEPT ![o] = Append(@, snapshot[o])] /\ asked' = asked \ {<<"ship", o>>}
      /\ UNCHANGED <<charged, answer>>
  BY DEF Ship, Request
<1>3. AskedOf(o) = "parcel" /\ AskedOf(o)' = "nothing"
  BY <1>1, <1>2 DEF AskedOf, Waiting
<1>4. ParcelOf(o)' = "sent"
  <2>1. Append(<<>>, snapshot[o]) = <<snapshot[o]>>
    OBVIOUS
  <2>2. shipped'[o] = <<snapshot[o]>>
    BY <1>1, <1>2, <2>1 DEF TypeOK
  <2>3. shipped'[o] # <<>> /\ Len(shipped'[o]) = 1
    BY <2>2
  <2>4. QED
    BY <2>3 DEF ParcelOf
<1>5. \A p \in Orders : CardOf(p)' = CardOf(p)
  BY <1>2 DEF CardOf
<1>6. \A p \in Orders \ {o} : ParcelOf(p)' = ParcelOf(p) /\ AskedOf(p)' = AskedOf(p)
  BY <1>2 DEF ParcelOf, AskedOf, TypeOK
<1>7. QED
  BY <1>2, <1>3, <1>4, <1>5, <1>6 DEF Promise!Send

LEMMA MissPromise ==
  ASSUME TypeOK, MoneyInv, NEW o \in Orders, Miss(o)
  PROVE  Promise!Miss(o) \/ UNCHANGED Promise!pvars
<1>1. UNCHANGED <<charged, shipped, answer>>
  BY DEF Miss, calls
<1>2. \A p \in Orders : CardOf(p)' = CardOf(p) /\ ParcelOf(p)' = ParcelOf(p)
  BY <1>1 DEF CardOf, ParcelOf
<1>3. PICK call \in Calls : Waiting(o, call) /\ asked' = asked \ {<<call, o>>}
  BY DEF Miss, Request, Waiting
<1>4. CASE call \in {"empty", "mail"}
  <2>1. \A p \in Orders : Seen(p)
    BY <1>1, <1>3, <1>4 DEF Seen, Waiting
  <2>2. QED
    BY <1>1, <2>1, PromiseStutter
<1>5. CASE call \in {"charge", "ship"}
  <2>1. ~(Waiting(o, "charge") /\ Waiting(o, "ship"))
    BY DEF MoneyInv, MoneyOK, RequestOK
  <2>2. AskedOf(o) # "nothing"
    BY <1>3, <1>5 DEF AskedOf, Waiting
  <2>3. AskedOf(o)' = "nothing"
    BY <1>3, <1>5, <2>1 DEF AskedOf, Waiting
  <2>4. \A p \in Orders \ {o} : AskedOf(p)' = AskedOf(p)
    BY <1>3 DEF AskedOf
  <2>5. QED
    BY <1>1, <1>2, <2>2, <2>3, <2>4 DEF Promise!Miss
<1>6. QED
  BY <1>4, <1>5 DEF Calls

\* The orders that die are exactly the open ones whose handler was running.
LEMMA DiePromise ==
  ASSUME MoneyInv, Die
  PROVE  \E S \in SUBSET Orders : Promise!Lose(S)
<1> DEFINE S == {o \in Orders : pc[o] \in Running}
<1>1. \A o \in S : answer[o] = "none"
  BY DEF MoneyInv, MoneyOK, Running, Window
<1>2. answer' = [o \in Orders |-> IF o \in S THEN "crashed" ELSE answer[o]]
  BY DEF Die
<1>3. \A p \in Orders :
        CardOf(p)' = CardOf(p) /\ ParcelOf(p)' = ParcelOf(p) /\ AskedOf(p)' = AskedOf(p)
  BY DEF Die, calls, CardOf, ParcelOf, AskedOf
<1> HIDE DEF S
<1>4. Promise!Lose(S)
  BY <1>1, <1>2, <1>3 DEF Promise!Lose, Promise!Open
<1>5. S \in SUBSET Orders
  BY DEF S
<1>6. QED
  BY <1>4, <1>5

LEMMA NextPromise ==
  TypeOK /\ MoneyInv /\ [Next]_vars => [Promise!Next]_(Promise!pvars)
<1> SUFFICES ASSUME TypeOK, MoneyInv, [Next]_vars
             PROVE  Promise!Next \/ UNCHANGED Promise!pvars
  OBVIOUS
<1>1. CASE UNCHANGED <<calls, asked, answer>>
  BY <1>1, PromiseStutter DEF Seen, Waiting, calls
<1>2. ASSUME NEW x \in Units, AddRead(x) \/ AddWrite(x) \/ AddFail(x)
      PROVE  UNCHANGED <<calls, asked, answer>>
  BY <1>2 DEF AddRead, AddWrite, AddFail
<1>3. ASSUME NEW u \in Users, Clear(u) PROVE UNCHANGED <<calls, asked, answer>>
  BY <1>3 DEF Clear
<1>4. ASSUME NEW o \in Orders, Cancel(o) PROVE UNCHANGED <<calls, asked, answer>>
  BY <1>4 DEF Cancel
<1>5. CASE UNCHANGED vars
  BY <1>1, <1>5 DEF vars
<1>6. ASSUME NEW o \in Orders, Handler(o), ~MustPanics(o)
      PROVE  Promise!Next \/ UNCHANGED Promise!pvars
  BY <1>6, HandlerPromise, AskPromise DEF Handler
<1>7. ASSUME NEW o \in Orders, Charge(o) \/ Ship(o) \/ Miss(o)
      PROVE  Promise!Next \/ UNCHANGED Promise!pvars
  BY <1>7, ChargePromise, ShipPromise, MissPromise DEF Promise!Next
<1>8. ASSUME NEW o \in Orders, Empty(o) \/ Mail(o)
      PROVE  UNCHANGED Promise!pvars
  <2>1. \A p \in Orders : Seen(p)
    BY <1>8 DEF Empty, Mail, Request, Seen, Waiting, calls
  <2>2. QED
    BY <1>8, <2>1, PromiseStutter DEF Empty, Mail
<1>9. CASE Die
  BY <1>9, DiePromise DEF Promise!Next
<1>10. QED
  BY <1>1, <1>2, <1>3, <1>4, <1>5, <1>6, <1>7, <1>8, <1>9
     DEF Next, Service, MustPanics, Crash, Finished

\* The saga implements what PlaceOrder promises about money, parcel and status, though
\* the services may act on a request after the answer.
THEOREM PromiseKept == Spec => KeepsPromise
<1>1. Init => Promise!Init
  BY InitPromise
<1>2. TypeOK /\ MoneyInv /\ [Next]_vars => [Promise!Next]_(Promise!pvars)
  BY NextPromise
<1>3. QED
  BY <1>1, <1>2, MoneyInvariant, PTL DEF Spec, KeepsPromise, Promise!Spec
-----------------------------------------------------------------------------
(* The carts.                                                               *)

CartInv == UnitsInv /\ SoldInv /\ OverlapInv /\ VanishInv

LEMMA InitCartInv == Init => CartInv
  BY DEF Init, CartInv, UnitsInv, SoldInv, OverlapInv, VanishInv, Loose, MayEmpty, Waiting, Window

\* Steps the carts do not see: no order starts over, and none may empty a cart anew.
Unseen ==
    /\ UNCHANGED <<cart, adding, base, overlapped, resurrected, cleared, snapshot, emptied, openAtRead>>
    /\ \A o \in Orders : MayEmpty(o)' => MayEmpty(o)
    /\ \A o \in Orders : pc'[o] \in {"idle", "getCart"} =>
         pc[o] \in {"idle", "getCart"} /\ (Waiting(o, "empty")' => Waiting(o, "empty"))

LEMMA UnseenCartInv == ASSUME CartInv, Unseen PROVE CartInv'
<1>1. UnitsInv'
  BY DEF CartInv, Unseen, UnitsInv
<1>2. SoldInv'
  BY DEF CartInv, Unseen, SoldInv
<1>3. OverlapInv'
  BY DEF CartInv, Unseen, OverlapInv
<1>4. VanishInv'
  BY DEF CartInv, Unseen, VanishInv, Loose, Excused
<1>5. QED
  BY <1>1, <1>2, <1>3, <1>4 DEF CartInv

LEMMA OrderUnseen ==
  ASSUME TypeOK, NEW o \in Orders,
         PlaceOrder(o) \/ Prepare(o) \/ ChargeCard(o) \/ ShipOrder(o) \/ EmptyUserCart(o)
           \/ SendOrderConfirmation(o) \/ SendToPostProcessor(o) \/ Respond(o)
           \/ Charge(o) \/ Ship(o) \/ Mail(o) \/ Miss(o) \/ Cancel(o) \/ Die
  PROVE  Unseen
<1> USE DEF TypeOK, Unseen, MayEmpty, Waiting, Goto, Return, Ask, Request, Window, carts, calls, order
<1>1. CASE PlaceOrder(o)
  BY <1>1 DEF PlaceOrder
<1>2. CASE Prepare(o)
  BY <1>2 DEF Prepare
<1>3. CASE ChargeCard(o)
  BY <1>3 DEF ChargeCard
<1>4. CASE ShipOrder(o)
  BY <1>4 DEF ShipOrder
<1>5. CASE EmptyUserCart(o)
  BY <1>5 DEF EmptyUserCart
<1>6. CASE SendOrderConfirmation(o)
  BY <1>6 DEF SendOrderConfirmation
<1>7. CASE SendToPostProcessor(o)
  BY <1>7 DEF SendToPostProcessor
<1>8. CASE Respond(o)
  BY <1>8 DEF Respond
<1>9. CASE Charge(o) \/ Ship(o) \/ Mail(o)
  BY <1>9 DEF Charge, Ship, Mail
<1>10. CASE Miss(o)
  BY <1>10 DEF Miss
<1>11. CASE Cancel(o)
  BY <1>11 DEF Cancel
<1>12. CASE Die
  BY <1>12 DEF Die
<1>13. QED
  BY <1>1, <1>2, <1>3, <1>4, <1>5, <1>6, <1>7, <1>8, <1>9, <1>10, <1>11, <1>12

LEMMA AddReadCartInv ==
  ASSUME TypeOK, CartInv, NEW z \in Units, AddRead(z) PROVE CartInv'
<1> USE CheckoutAssumption DEF TypeOK, CartInv, AddRead, Waiting, calls, order
<1>1. UnitsInv'
  <2>1. \A x \in Units : adding[x] = "done" => adding'[x] = "done"
    OBVIOUS
  <2>2. base'[z] = cart[Owner[z]] /\ \A y \in Units \ {z} : base'[y] = base[y]
    OBVIOUS
  <2>3. cart' = cart /\ snapshot' = snapshot
    OBVIOUS
  <2>4. \A u \in Users : \A x \in cart[u] : adding[x] = "done" /\ Owner[x] = u
    BY DEF UnitsInv
  <2>5. \A y \in Units : \A x \in base'[y] : adding'[x] = "done" /\ Owner[x] = Owner[y]
    <3>1. Owner[z] \in Users /\ cart[Owner[z]] \subseteq Units
      OBVIOUS
    <3> HIDE DEF AddRead
    <3>2. \A x \in base'[z] : adding'[x] = "done" /\ Owner[x] = Owner[z]
      BY <2>1, <2>2, <2>4, <3>1
    <3>3. QED
      BY <2>1, <2>2, <3>2 DEF UnitsInv
  <2> HIDE DEF AddRead
  <2>6. QED
    BY <2>1, <2>3, <2>5 DEF UnitsInv
<1>2. SoldInv'
  BY DEF SoldInv
<1>3. OverlapInv'
  BY DEF OverlapInv
<1>4. VanishInv'
  BY DEF VanishInv, Loose, Excused, MayEmpty
<1>5. QED
  BY <1>1, <1>2, <1>3, <1>4

\* What the stale write brings back is resurrected; what it drops was missed by its read,
\* and the unit it adds knows every handler and call in progress.
LEMMA AddWriteCartInv ==
  ASSUME TypeOK, CartInv, NEW z \in Units, AddWrite(z) PROVE CartInv'
<1> USE CheckoutAssumption DEF TypeOK, CartInv, AddWrite, Waiting, calls, order
<1>1. UnitsInv'
  <2>1. \A x \in Units : adding[x] = "done" => adding'[x] = "done"
    OBVIOUS
  <2>2. \A u \in Users : \A x \in cart'[u] : adding'[x] = "done" /\ Owner[x] = u
    BY <2>1 DEF UnitsInv
  <2>3. \A y \in Units : \A x \in base'[y] : adding'[x] = "done" /\ Owner[x] = Owner[y]
    BY <2>1 DEF UnitsInv
  <2>4. \A o \in Orders : \A x \in snapshot'[o] : adding'[x] = "done" /\ Owner[x] = Customer[o]
    BY <2>1 DEF UnitsInv
  <2>5. QED
    BY <2>2, <2>3, <2>4 DEF UnitsInv
<1>2. SoldInv'
  <2>1. \A o \in Orders : z \notin snapshot[o]
    BY DEF UnitsInv
  <2>2. \A o \in Orders : \A x \in snapshot[o] \cap cart'[Customer[o]] :
          x \in cart[Customer[o]] \/ x \in resurrected'
    BY <2>1
  <2>3. UNCHANGED <<pc, snapshot, emptied, openAtRead, asked>> /\ resurrected \subseteq resurrected'
    OBVIOUS
  <2> HIDE DEF AddWrite
  <2>4. QED
    BY <2>2, <2>3 DEF SoldInv
<1>3. OverlapInv'
  BY DEF OverlapInv
<1>4. VanishInv'
  <2> SUFFICES ASSUME NEW x \in Units, Loose(x)'
               PROVE  /\ x \notin cart'[Owner[x]] => Excused(x)'
                      /\ \A y \in Units :
                           adding'[y] = "read" /\ Owner[y] = Owner[x] /\ x \notin base'[y]
                             => Excused(x)'
                      /\ \A o \in Orders :
                           MayEmpty(o)' /\ Customer[o] = Owner[x] => Excused(x)'
    BY DEF VanishInv
  <2>0. \A o \in Orders : MayEmpty(o)' <=> MayEmpty(o)
    BY DEF MayEmpty
  <2>1. CASE x = z
    <3>1. z \in cart'[Owner[z]] /\ (Rivals(z) # {} => z \in overlapped')
      OBVIOUS
    <3>2. \A y \in Units : adding'[y] = "read" /\ Owner[y] = Owner[z] => y \in Rivals(z)
      BY DEF Rivals
    <3>3. \A o \in Orders : MayEmpty(o)' /\ Customer[o] = Owner[z] => o \in Rivals(z)
      BY <2>0 DEF Rivals
    <3> HIDE DEF AddWrite
    <3>4. QED
      BY <2>1, <3>1, <3>2, <3>3 DEF Excused
  <2>2. CASE x # z
    <3>1. Loose(x) /\ (Excused(x) => Excused(x)')
      BY <2>2 DEF Loose, Excused
    <3>2. x \notin cart'[Owner[x]] => Excused(x)
      BY <2>2, <3>1 DEF VanishInv
    <3>3. \A y \in Units :
            adding'[y] = "read" /\ Owner[y] = Owner[x] /\ x \notin base'[y] => Excused(x)
      BY <2>2, <3>1 DEF VanishInv
    <3>4. \A o \in Orders : MayEmpty(o)' /\ Customer[o] = Owner[x] => Excused(x)
      BY <2>0, <3>1 DEF VanishInv
    <3>5. QED
      BY <3>1, <3>2, <3>3, <3>4
  <2>3. QED
    BY <2>1, <2>2
<1>5. QED
  BY <1>1, <1>2, <1>3, <1>4

LEMMA AddFailCartInv ==
  ASSUME TypeOK, CartInv, NEW z \in Units, AddFail(z) PROVE CartInv'
<1> USE DEF TypeOK, CartInv, AddFail, Waiting, calls, order
<1>1. UnitsInv'
  BY DEF UnitsInv
<1>2. SoldInv'
  BY DEF SoldInv
<1>3. OverlapInv'
  BY DEF OverlapInv
<1>4. VanishInv'
  BY DEF VanishInv, Loose, Excused, MayEmpty
<1>5. QED
  BY <1>1, <1>2, <1>3, <1>4

\* The units the customer, or the store, takes out of the cart are excused by it.
LEMMA ClearCartInv ==
  ASSUME TypeOK, CartInv, NEW u \in Users, Clear(u) PROVE CartInv'
<1> USE CheckoutAssumption DEF TypeOK, CartInv, Clear, Waiting, calls, order
<1>0. \A v \in Users : cart'[v] \subseteq cart[v]
  OBVIOUS
<1>1. UnitsInv'
  BY <1>0 DEF UnitsInv
<1>2. SoldInv'
  BY <1>0 DEF SoldInv
<1>3. OverlapInv'
  BY DEF OverlapInv
<1>4. VanishInv'
  <2> SUFFICES ASSUME NEW x \in Units, Loose(x)
               PROVE  /\ x \notin cart'[Owner[x]] => Excused(x)'
                      /\ \A y \in Units :
                           adding[y] = "read" /\ Owner[y] = Owner[x] /\ x \notin base[y]
                             => Excused(x)'
                      /\ \A o \in Orders :
                           MayEmpty(o) /\ Customer[o] = Owner[x] => Excused(x)'
    BY DEF VanishInv, Loose, MayEmpty
  <2>1. Excused(x) => Excused(x)'
    BY DEF Excused
  <2>2. x \notin cart'[Owner[x]] => Excused(x)'
    <3>1. CASE x \in cart[Owner[x]] /\ x \notin cart'[Owner[x]]
      BY <3>1 DEF Excused
    <3>2. QED
      BY <2>1, <3>1 DEF VanishInv
  <2>3. QED
    BY <2>1, <2>2 DEF VanishInv
<1>5. QED
  BY <1>1, <1>2, <1>3, <1>4

\* An order that finds a unit of another order in the cart either sees that order open,
\* or the unit was put back.
LEMMA GetCartCartInv ==
  ASSUME TypeOK, CartInv, NEW o \in Orders, GetCart(o) PROVE CartInv'
<1>1. CASE Return(o, "internal") /\ UNCHANGED <<snapshot, openAtRead>>
  <2>1. Unseen
    BY <1>1 DEF GetCart, Return, Unseen, MayEmpty, Waiting, TypeOK, Window, carts
  <2>2. QED
    BY <2>1, UnseenCartInv
<1>2. CASE /\ snapshot' = [snapshot EXCEPT ![o] = cart[Customer[o]]]
           /\ openAtRead' = [openAtRead EXCEPT ![o] = OpenOrders(Customer[o])]
           /\ pc' = [pc EXCEPT ![o] = "prepare"]
  <2>0. UNCHANGED <<cart, adding, base, overlapped, resurrected, cleared, emptied, asked>>
    BY DEF GetCart, carts
  <2>1. snapshot[o] = {} /\ o \notin emptied /\ ~Waiting(o, "empty")
    BY DEF GetCart, CartInv, SoldInv
  <2> USE CheckoutAssumption DEF TypeOK, CartInv
  <2>2. UnitsInv'
    BY <1>2, <2>0 DEF UnitsInv
  <2>3. SoldInv'
    BY <1>2, <2>0, <2>1 DEF SoldInv, Waiting
  <2>4. OverlapInv'
    <3>1. ASSUME NEW p \in Orders, p # o, NEW x \in snapshot[p], x \in cart[Customer[o]]
          PROVE  p \in OpenOrders(Customer[o]) \/ x \in resurrected
      <4>1. Customer[p] = Customer[o]
        BY <3>1 DEF UnitsInv
      <4>2. p \notin emptied \/ x \in resurrected
        BY <3>1, <4>1 DEF SoldInv
      <4>3. QED
        BY <3>1, <4>1, <4>2 DEF OpenOrders
    <3>2. openAtRead'[o] = OpenOrders(Customer[o]) /\ snapshot'[o] = cart[Customer[o]]
      BY <1>2
    <3>3. \A p \in Orders \ {o} : openAtRead'[p] = openAtRead[p] /\ snapshot'[p] = snapshot[p]
      BY <1>2
    <3> SUFFICES ASSUME NEW p \in Orders, NEW q \in Orders, p # q,
                        NEW x \in snapshot'[p] \cap snapshot'[q]
                 PROVE  p \in openAtRead'[q] \/ q \in openAtRead'[p] \/ x \in resurrected
      BY <2>0 DEF OverlapInv
    <3>4. CASE p = o
      BY <3>1, <3>2, <3>3, <3>4
    <3>5. CASE q = o
      BY <3>1, <3>2, <3>3, <3>5
    <3>6. CASE p # o /\ q # o
      BY <3>3, <3>6 DEF OverlapInv
    <3>7. QED
      BY <3>4, <3>5, <3>6
  <2>5. VanishInv'
    <3> SUFFICES ASSUME NEW x \in Units, Loose(x)'
                 PROVE  /\ x \notin cart[Owner[x]] => Excused(x)
                        /\ \A y \in Units :
                             adding[y] = "read" /\ Owner[y] = Owner[x] /\ x \notin base[y]
                               => Excused(x)
                        /\ \A p \in Orders : MayEmpty(p)' /\ Customer[p] = Owner[x] => Excused(x)
      BY <2>0 DEF VanishInv, Excused
    <3>1. Loose(x)
      BY <1>2, <2>0, <2>1 DEF Loose
    <3>2. x \notin cart[Customer[o]]
      BY <1>2, <2>0 DEF Loose
    <3>3. \A p \in Orders \ {o} : MayEmpty(p)' <=> MayEmpty(p)
      BY <1>2, <2>0 DEF MayEmpty
    <3>4. QED
      BY <3>1, <3>2, <3>3 DEF VanishInv
  <2>6. QED
    BY <2>2, <2>3, <2>4, <2>5
<1>3. QED
  BY <1>1, <1>2 DEF GetCart, Goto

\* Whenever the cart service gets to it, the units that EmptyCart takes out were written
\* while it was under way, or while its order could still ask for it.
LEMMA EmptyCartInv ==
  ASSUME TypeOK, CartInv, NEW o \in Orders, Empty(o) PROVE CartInv'
<1>0. /\ cart' = [cart EXCEPT ![Customer[o]] = {}] /\ emptied' = emptied \cup {o}
      /\ asked' = asked \ {<<"empty", o>>} /\ Waiting(o, "empty")
      /\ UNCHANGED <<adding, base, overlapped, resurrected, cleared, snapshot, openAtRead, pc>>
  BY DEF Empty, Request, Waiting
<1> USE CheckoutAssumption DEF TypeOK, CartInv
<1>1. \A u \in Users : cart'[u] \subseteq cart[u]
  BY <1>0
<1>2. UnitsInv'
  BY <1>0, <1>1 DEF UnitsInv
<1>3. SoldInv'
  <2>1. pc[o] \notin {"idle", "getCart"}
    BY <1>0 DEF SoldInv
  <2>2. QED
    BY <1>0, <1>1, <2>1 DEF SoldInv, Waiting
<1>4. OverlapInv'
  BY <1>0 DEF OverlapInv
<1>5. VanishInv'
  <2> SUFFICES ASSUME NEW x \in Units, Loose(x)
               PROVE  /\ x \notin cart'[Owner[x]] => Excused(x)
                      /\ \A y \in Units :
                           adding[y] = "read" /\ Owner[y] = Owner[x] /\ x \notin base[y]
                             => Excused(x)
                      /\ \A p \in Orders : MayEmpty(p)' /\ Customer[p] = Owner[x] => Excused(x)
    BY <1>0 DEF VanishInv, Loose, Excused
  <2>1. Customer[o] = Owner[x] => Excused(x)
    BY <1>0 DEF VanishInv, MayEmpty, Waiting
  <2>2. Customer[o] # Owner[x] => cart'[Owner[x]] = cart[Owner[x]]
    BY <1>0
  <2>3. \A p \in Orders : MayEmpty(p)' => MayEmpty(p)
    BY <1>0 DEF MayEmpty
  <2>4. QED
    BY <2>1, <2>2, <2>3 DEF VanishInv
<1>6. QED
  BY <1>2, <1>3, <1>4, <1>5

LEMMA NextCartInv == TypeOK /\ CartInv /\ [Next]_vars => CartInv'
<1> SUFFICES ASSUME TypeOK, CartInv, [Next]_vars PROVE CartInv'
  OBVIOUS
<1>1. ASSUME NEW x \in Units, AddRead(x) \/ AddWrite(x) \/ AddFail(x) PROVE CartInv'
  BY <1>1, AddReadCartInv, AddWriteCartInv, AddFailCartInv
<1>2. ASSUME NEW u \in Users, Clear(u) PROVE CartInv'
  BY <1>2, ClearCartInv
<1>3. ASSUME NEW o \in Orders, Handler(o) \/ Service(o) \/ Cancel(o) PROVE CartInv'
  BY <1>3, OrderUnseen, UnseenCartInv, GetCartCartInv, EmptyCartInv
     DEF Handler, Service, MustPanics
<1>4. CASE Crash
  BY <1>4, OrderUnseen, UnseenCartInv DEF Crash
<1>5. CASE UNCHANGED vars
  <2>1. Unseen
    BY <1>5 DEF vars, carts, order, Unseen, MayEmpty, Waiting
  <2>2. QED
    BY <2>1, UnseenCartInv
<1>6. QED
  BY <1>1, <1>2, <1>3, <1>4, <1>5 DEF Next, Finished

LEMMA CartInvariant == Spec => [](TypeOK /\ CartInv)
<1>1. Init => TypeOK /\ MoneyInv /\ CartInv
  BY InitTypeOK, InitMoneyInv, InitCartInv
<1>2. TypeOK /\ MoneyInv /\ CartInv /\ [Next]_vars => (TypeOK /\ MoneyInv /\ CartInv)'
  BY NextTypeOK, NextMoneyInv, NextCartInv
<1>3. QED
  BY <1>1, <1>2, PTL DEF Spec

\* A unit is billed twice only after overlapping orders, or an AddItem that put it back.
THEOREM RebillsHaveACause == Spec => []RebillHasACause
<1>1. TypeOK /\ CartInv => RebillHasACause
  BY DEF CartInv, OverlapInv, RebillHasACause
<1>2. QED
  BY <1>1, CartInvariant, PTL

\* A unit vanishes only if the customer or the store dropped the cart, or its AddItem
\* overlapped another AddItem or an order that could still empty the cart.
THEOREM VanishingsHaveACause == Spec => []VanishHasACause
<1>1. TypeOK /\ CartInv => VanishHasACause
  BY DEF CartInv, VanishInv, Loose, Excused, VanishHasACause
<1>2. QED
  BY <1>1, CartInvariant, PTL
=============================================================================
