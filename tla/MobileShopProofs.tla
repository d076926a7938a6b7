-------------------------- MODULE MobileShopProofs --------------------------
(***************************************************************************)
(* Proofs about MobileShop, for any number of launches and calls, and        *)
(* whatever can be typed in the form.                                        *)
(***************************************************************************)
EXTENDS MobileShop, FiniteSetTheorems, TLAPS

-----------------------------------------------------------------------------
(* Calls and what a step makes of them.                                     *)

LEMMA LaunchFacts == 1 \in Launch /\ NoSession \notin Launch /\ Launch \subseteq Int
  BY BoundAssumption DEF Launch, NoSession

LEMMA NewCallFacts ==
  ASSUME NEW method \in Method, NEW card \in Card \union {NoCard}
  PROVE  /\ NewCall(method, card) \in CallState
         /\ NewCall(method, card).ids = {}
         /\ NewCall(method, card).stage = "session"
<1>1. SessionsOf(method) \in Int
  BY DEF SessionsOf
<1>2. QED
  BY <1>1 DEF NewCall, CallState

LEMMA UnmadeFacts ==
  Unmade \in CallState /\ Unmade.ids = {} /\ Unmade.stage = "unmade" /\ Unmade.method = "span"
<1>1. NewCall("span", NoCard) \in CallState
  BY NewCallFacts DEF Method
<1>2. QED
  BY <1>1 DEF Unmade, NewCall, CallState

LEMMA DoneFacts ==
  Done \in CallState /\ Done.ids = {} /\ Done.stage = "done" /\ Done.method = "span"
  BY UnmadeFacts DEF Done, CallState

\* A call that is made is a new one, in a place of its own.
LEMMA MakeFacts ==
  ASSUME TypeOK, CallApi \/ SpanStarts \/ PlaceOrder
  PROVE  \E call \in CallState :
           /\ call.ids = {} /\ call.stage = "session"
           /\ made + 1 \in Call /\ made' = made + 1
           /\ calls' = [calls EXCEPT ![made + 1] = call]
           /\ UNCHANGED <<stored, launch, orders, used, completed>>
<1>1. ASSUME made < MaxCalls PROVE made + 1 \in Call
  BY <1>1, BoundAssumption DEF TypeOK, Call
<1>2. CASE CallApi \/ SpanStarts
  <2>1. PICK method \in Method : Make(NewCall(method, NoCard))
    BY <1>2 DEF CallApi, SpanStarts, Method
  <2>2. QED
    BY <1>1, <2>1, NewCallFacts DEF Make
<1>3. CASE PlaceOrder
  <2>1. PICK card \in Submitted : Make(NewCall("order", card))
    BY <1>3 DEF PlaceOrder
  <2>2. card \in Card \union {NoCard} /\ "order" \in Method
    BY DEF Submitted, Method
  <2>3. QED
    BY <1>1, <2>1, <2>2, NewCallFacts DEF Make
<1>4. QED
  BY <1>2, <1>3

\* getSession adds the user id it read, or the call has ended.
LEMMA GotFacts ==
  ASSUME NEW k \in Call, NEW u \in Launch, calls \in [Call -> CallState], used \subseteq Launch,
         Got(k, u)
  PROVE  /\ calls' \in [Call -> CallState] /\ used' \subseteq Launch
         /\ \A j \in Call \ {k} : calls'[j] = calls[j]
         /\ used' \subseteq used \union calls[k].ids \union {u}
         /\ \/ calls'[k] = Done
            \/ /\ calls'[k].ids = calls[k].ids \union {u}
               /\ calls'[k].stage \in {"session", "sent"}
<1> DEFINE c == [calls[k] EXCEPT !.ids = @ \union {u}, !.left = @ - 1]
           d == CASE c.left > 0         -> [c EXCEPT !.stage = "session"]
                  [] c.method = "span" -> Done
                  [] OTHER             -> [c EXCEPT !.stage = "sent"]
<1>1. c \in CallState /\ c.ids = calls[k].ids \union {u}
  <2>1. calls[k] \in CallState
    OBVIOUS
  <2>2. calls[k].ids \union {u} \in SUBSET Launch /\ calls[k].left - 1 \in Int
    BY <2>1 DEF CallState
  <2>3. QED
    BY <2>1, <2>2 DEF CallState
<1>2. \A st \in {"session", "sent"} :
        /\ [c EXCEPT !.stage = st] \in CallState
        /\ [c EXCEPT !.stage = st].ids = c.ids /\ [c EXCEPT !.stage = st].stage = st
  BY <1>1 DEF CallState
<1>3. d \in {[c EXCEPT !.stage = "session"], [c EXCEPT !.stage = "sent"], Done}
  OBVIOUS
<1>4. d \in CallState /\ (d = Done \/ (d.ids = c.ids /\ d.stage \in {"session", "sent"}))
  BY <1>2, <1>3, DoneFacts
<1>5. calls' = [calls EXCEPT ![k] = d] /\ used' \in {used, used \union c.ids}
  BY DEF Got
<1>6. c.ids \subseteq Launch
  BY <1>1 DEF CallState
<1> HIDE DEF c, d
<1>7. QED
  BY <1>1, <1>4, <1>5, <1>6

\* An answer reaches the call if somebody waits for it, and ends it otherwise.
LEMMA AnswerFacts ==
  ASSUME NEW k \in Call, NEW ok \in BOOLEAN, calls \in [Call -> CallState], Answer(k, ok)
  PROVE  /\ calls' \in [Call -> CallState]
         /\ \A j \in Call \ {k} : calls'[j] = calls[j]
         /\ \/ calls'[k] = Done
            \/ /\ ok /\ calls'[k].stage = "answered"
               /\ calls'[k].ids = calls[k].ids /\ calls'[k].method = calls[k].method
<1>1. CASE ok /\ calls[k].heard
  <2>1. [calls[k] EXCEPT !.stage = "answered"] \in CallState
    BY DEF CallState
  <2>2. calls' = [calls EXCEPT ![k] = [calls[k] EXCEPT !.stage = "answered"]]
    BY <1>1 DEF Answer
  <2>3. QED
    BY <1>1, <2>1, <2>2 DEF CallState
<1>2. CASE ~(ok /\ calls[k].heard)
  BY <1>2, DoneFacts DEF Answer, Ends
<1>3. QED
  BY <1>1, <1>2

\* What a call may become by a step of the shop, the network or the system.
LEMMA OrphanFacts ==
  ASSUME NEW c \in CallState
  PROVE  /\ Orphan(c) \in CallState
         /\ \/ Orphan(c) = c /\ c.stage = "unmade"
            \/ Orphan(c) = Done
            \/ /\ c.stage = "sent" /\ Orphan(c).stage = "sent"
               /\ Orphan(c).ids = c.ids /\ Orphan(c).method = c.method
<1>1. CASE c.stage = "unmade"
  BY <1>1 DEF Orphan
<1>2. CASE c.stage = "sent"
  BY <1>2 DEF Orphan, CallState
<1>3. CASE c.stage \notin {"unmade", "sent"}
  BY <1>3, DoneFacts DEF Orphan
<1>4. QED
  BY <1>1, <1>2, <1>3

\* The steps of one call that read no session: it ends, or it stays what it is
\* but for its stage and for who hears.
Moves(k) ==
  /\ \A j \in Call \ {k} : calls'[j] = calls[j]
  /\ \/ calls'[k] = Done
     \/ /\ calls[k].stage = "sent" /\ calls'[k].stage \in {"sent", "answered"}
        /\ calls'[k].ids = calls[k].ids /\ calls'[k].method = calls[k].method

LEMMA MoveFacts ==
  ASSUME TypeOK, NEW k \in Call,
         SessionFails(k) \/ Serve(k) \/ ServeOrder(k) \/ Refuse(k) \/ Lose(k) \/ Resolve(k)
  PROVE  /\ calls' \in [Call -> CallState] /\ Moves(k)
         /\ calls[k].stage # "unmade"
         /\ UNCHANGED <<stored, launch, made, used>>
<1>0. calls \in [Call -> CallState]
  BY DEF TypeOK
<1>1. CASE SessionFails(k) \/ Resolve(k)
  BY <1>0, <1>1, DoneFacts DEF SessionFails, Resolve, Ends, Moves
<1>2. CASE Serve(k) \/ ServeOrder(k) \/ Refuse(k)
  <2>1. /\ calls[k].stage = "sent" /\ \E ok \in BOOLEAN : Answer(k, ok)
        /\ UNCHANGED <<stored, launch, made, used>>
    BY <1>2 DEF Serve, ServeOrder, Refuse
  <2>2. QED
    BY <1>0, <2>1, AnswerFacts DEF Moves
<1>3. CASE Lose(k)
  <2>1. CASE calls[k].stage = "sent"
    <3>1. calls' = [calls EXCEPT ![k] = [calls[k] EXCEPT !.heard = FALSE]]
      BY <1>3, <2>1 DEF Lose
    <3>2. [calls[k] EXCEPT !.heard = FALSE] \in CallState
      BY <1>0 DEF CallState
    <3>3. /\ [calls[k] EXCEPT !.heard = FALSE].ids = calls[k].ids
          /\ [calls[k] EXCEPT !.heard = FALSE].method = calls[k].method
          /\ [calls[k] EXCEPT !.heard = FALSE].stage = calls[k].stage
      BY <1>0 DEF CallState
    <3>4. QED
      BY <1>0, <1>3, <2>1, <3>1, <3>2, <3>3 DEF Lose, Moves
  <2>2. CASE calls[k].stage # "sent"
    BY <1>0, <1>3, <2>2, DoneFacts DEF Lose, Ends, Moves
  <2>3. QED
    BY <2>1, <2>2
<1>4. QED
  BY <1>1, <1>2, <1>3

\* The steps, by what they do to the calls.
LEMMA Steps ==
  ASSUME [Next]_vars
  PROVE  \/ CallApi \/ SpanStarts \/ PlaceOrder \/ Kill
         \/ \E k \in Call : \/ ReadSession(k) \/ StoreSession(k)
                            \/ SessionFails(k) \/ Serve(k) \/ ServeOrder(k) \/ Refuse(k)
                            \/ Lose(k) \/ Resolve(k)
         \/ UNCHANGED vars
  BY DEF Next, Session, Shop

-----------------------------------------------------------------------------
(* Type correctness.                                                        *)

\* No text is a number for the shop: a card that was charged is one of the form.
LEMMA ChargedIsCard ==
  ASSUME NEW card \in Card \union {NoCard}, NEW unlucky, ChargeSucceeds(card, unlucky)
  PROVE  card \in Card /\ card.number \in Accepted /\ ~Expired(card)
<1>1. card.number \in Accepted /\ ~Expired(card)
  BY DEF ChargeSucceeds, Charge
<1>2. NoCard.number \notin Accepted
  BY DEF NoCard, Accepted
<1>3. QED
  BY <1>1, <1>2

LEMMA InitTypes == Init => TypeOK
  BY LaunchFacts, UnmadeFacts, BoundAssumption DEF Init, TypeOK

LEMMA TypeStep == TypeOK /\ [Next]_vars => TypeOK'
<1> SUFFICES ASSUME TypeOK, [Next]_vars PROVE TypeOK'
  OBVIOUS
<1>0. calls \in [Call -> CallState] /\ launch \in Launch /\ used \subseteq Launch
  BY DEF TypeOK
<1>1. CASE CallApi \/ SpanStarts \/ PlaceOrder
  <2>1. made + 1 \in 0..MaxCalls
    BY <1>1, MakeFacts, BoundAssumption DEF Call
  <2>2. QED
    BY <1>1, <2>1, MakeFacts DEF TypeOK
<1>2. CASE Kill
  <2>1. calls' \in [Call -> CallState]
    BY <1>0, <1>2, OrphanFacts DEF Kill
  <2>2. launch' \in Launch
    BY <1>0, <1>2, BoundAssumption DEF Kill, Launch
  <2>3. QED
    BY <1>2, <2>1, <2>2 DEF Kill, TypeOK
<1>3. ASSUME NEW k \in Call, ReadSession(k) PROVE TypeOK'
  <2>1. CASE stored = NoSession
    <3>1. [calls[k] EXCEPT !.stage = "storing"] \in CallState
      BY <1>0 DEF CallState
    <3>2. QED
      BY <1>3, <2>1, <3>1 DEF ReadSession, TypeOK
  <2>2. CASE stored # NoSession
    <3>1. Got(k, stored) /\ stored \in Launch
      BY <1>3, <2>2 DEF ReadSession, TypeOK
    <3>2. calls' \in [Call -> CallState] /\ used' \subseteq Launch
      BY <1>0, <3>1, GotFacts
    <3>3. QED
      BY <1>3, <3>2 DEF ReadSession, TypeOK
  <2>3. QED
    BY <2>1, <2>2
<1>4. ASSUME NEW k \in Call, StoreSession(k) PROVE TypeOK'
  <2>1. calls' \in [Call -> CallState] /\ used' \subseteq Launch
    BY <1>0, <1>4, GotFacts DEF StoreSession
  <2>2. QED
    BY <1>4, <2>1 DEF StoreSession, TypeOK
<1>5. ASSUME NEW k \in Call,
             SessionFails(k) \/ Serve(k) \/ ServeOrder(k) \/ Refuse(k) \/ Lose(k) \/ Resolve(k)
      PROVE  TypeOK'
  <2>1. calls' \in [Call -> CallState] /\ UNCHANGED <<stored, launch, made, used>>
    BY <1>5, MoveFacts
  <2>2. orders' \subseteq [call : Call, card : Card]
    <3>1. CASE ServeOrder(k)
      <4>1. calls[k].card \in Card
        BY <1>0, <3>1, ChargedIsCard DEF ServeOrder, CallState
      <4>2. QED
        BY <3>1, <4>1 DEF ServeOrder, TypeOK
    <3>2. CASE ~ServeOrder(k)
      BY <1>5, <3>2 DEF SessionFails, Serve, Refuse, Lose, Resolve, TypeOK
    <3>3. QED
      BY <3>1, <3>2
  <2>3. completed' \in Nat
    <3>1. completed' \in {completed, completed + 1} /\ completed \in Nat
      BY <1>5 DEF SessionFails, Serve, ServeOrder, Refuse, Lose, Resolve, TypeOK
    <3>2. QED
      BY <3>1
  <2>4. QED
    BY <2>1, <2>2, <2>3 DEF TypeOK
<1>6. CASE UNCHANGED vars
  BY <1>6 DEF vars, TypeOK
<1>7. QED
  BY <1>1, <1>2, <1>3, <1>4, <1>5, <1>6, Steps

\* Every state has the types of TypeOK, whatever the components, the shop and
\* the system that kills the app do.
THEOREM TypeCorrect == Spec => []TypeOK
  BY InitTypes, TypeStep, PTL DEF Spec

-----------------------------------------------------------------------------
(* The user id of an installation.                                          *)

\* Every user id in use is the stored one; setItem, when it comes, stores what
\* is stored already or what nobody has used.
CallUser(c, st, l) ==
  /\ c.ids \subseteq {st} \ {NoSession}
  /\ c.stage = "storing" => st \in {NoSession, l}

UserInv ==
  /\ used \subseteq {stored} \ {NoSession}
  /\ \A k \in Call : CallUser(calls[k], stored, launch)

\* A call without a user id, and with none to store, harms nothing.
LEMMA FreshCall ==
  ASSUME NEW c, NEW st, NEW l, c.ids = {}, c.stage # "storing"
  PROVE  CallUser(c, st, l)
  BY DEF CallUser

LEMMA InitUser == Init => UserInv
  BY UnmadeFacts, FreshCall DEF Init, UserInv

LEMMA UserStep == TypeOK /\ UserInv /\ [Next]_vars => UserInv'
<1> SUFFICES ASSUME TypeOK, UserInv, [Next]_vars PROVE UserInv'
  OBVIOUS
<1>0. calls \in [Call -> CallState] /\ launch \in Launch /\ used \subseteq Launch
  BY DEF TypeOK
<1>1. CASE CallApi \/ SpanStarts \/ PlaceOrder
  <2>1. PICK call \in CallState :
          /\ call.ids = {} /\ call.stage = "session"
          /\ calls' = [calls EXCEPT ![made + 1] = call]
          /\ UNCHANGED <<stored, launch, used>>
    BY <1>1, MakeFacts
  <2>2. \A k \in Call : calls'[k] \in {calls[k], call}
    BY <1>0, <2>1
  <2>3. QED
    BY <2>1, <2>2, FreshCall DEF UserInv
<1>2. CASE Kill
  <2>1. UNCHANGED <<stored, used>>
    BY <1>2 DEF Kill
  <2>2. ASSUME NEW k \in Call PROVE CallUser(calls'[k], stored, launch')
    <3>1. calls'[k] = Orphan(calls[k]) /\ calls[k] \in CallState
      BY <1>0, <1>2 DEF Kill
    <3>2. CASE calls'[k] = Done
      BY <3>2, DoneFacts, FreshCall
    <3>3. CASE calls'[k] # Done
      BY <3>1, <3>3, OrphanFacts DEF UserInv, CallUser
    <3>4. QED
      BY <3>2, <3>3
  <2>3. QED
    BY <2>1, <2>2 DEF UserInv
<1>3. ASSUME NEW k \in Call, ReadSession(k) PROVE UserInv'
  <2>1. UNCHANGED <<stored, launch>>
    BY <1>3 DEF ReadSession
  <2>2. CASE stored = NoSession
    <3>1. calls' = [calls EXCEPT ![k].stage = "storing"] /\ UNCHANGED used
      BY <1>3, <2>2 DEF ReadSession
    <3>2. calls'[k].ids = calls[k].ids /\ \A j \in Call \ {k} : calls'[j] = calls[j]
      BY <1>0, <3>1 DEF CallState
    <3>3. CallUser(calls'[k], stored, launch)
      BY <2>2, <3>2 DEF UserInv, CallUser
    <3>4. QED
      BY <2>1, <3>1, <3>2, <3>3 DEF UserInv
  <2>3. CASE stored # NoSession
    <3>1. Got(k, stored) /\ stored \in Launch
      BY <1>3, <2>3 DEF ReadSession, TypeOK
    <3>2. used' \subseteq {stored} \ {NoSession}
      BY <1>0, <2>3, <3>1, GotFacts DEF UserInv, CallUser
    <3>3. CallUser(calls'[k], stored, launch)
      BY <1>0, <2>3, <3>1, GotFacts, DoneFacts, FreshCall DEF UserInv, CallUser
    <3>4. QED
      BY <1>0, <2>1, <3>1, <3>2, <3>3, GotFacts DEF UserInv
  <2>4. QED
    BY <2>2, <2>3
<1>4. ASSUME NEW k \in Call, StoreSession(k) PROVE UserInv'
  <2>1. Got(k, launch) /\ stored' = launch /\ launch' = launch /\ calls[k].stage = "storing"
    BY <1>4 DEF StoreSession
  <2>2. stored \in {NoSession, launch} /\ launch # NoSession
    BY <1>0, <2>1, LaunchFacts DEF UserInv, CallUser
  <2>3. used \subseteq {launch} /\ \A j \in Call : CallUser(calls[j], launch, launch)
    BY <2>2 DEF UserInv, CallUser
  <2>4. used' \subseteq {launch} \ {NoSession}
    BY <1>0, <2>1, <2>2, <2>3, GotFacts DEF CallUser
  <2>5. CallUser(calls'[k], launch, launch)
    BY <1>0, <2>1, <2>2, <2>3, GotFacts, DoneFacts, FreshCall DEF CallUser
  <2>6. QED
    BY <1>0, <2>1, <2>3, <2>4, <2>5, GotFacts DEF UserInv
<1>5. ASSUME NEW k \in Call,
             SessionFails(k) \/ Serve(k) \/ ServeOrder(k) \/ Refuse(k) \/ Lose(k) \/ Resolve(k)
      PROVE  UserInv'
  <2>1. Moves(k) /\ UNCHANGED <<stored, launch, used>>
    BY <1>5, MoveFacts
  <2>2. CallUser(calls'[k], stored, launch)
    BY <2>1, DoneFacts, FreshCall DEF Moves, UserInv, CallUser
  <2>3. QED
    BY <2>1, <2>2 DEF Moves, UserInv
<1>6. CASE UNCHANGED vars
  BY <1>6 DEF vars, UserInv
<1>7. QED
  BY <1>1, <1>2, <1>3, <1>4, <1>5, <1>6, Steps

\* OneUserPerInstall: the calls that find no session side by side, and the
\* launches cut short between getItem and setItem, never bring in a second id.
THEOREM OneUser == Spec => []OneUserPerInstall
<1>1. Spec => [](TypeOK /\ UserInv)
  BY InitTypes, InitUser, TypeStep, UserStep, PTL DEF Spec
<1>2. UserInv => OneUserPerInstall
  BY DEF UserInv, OneUserPerInstall
<1>3. QED
  BY <1>1, <1>2, PTL

-----------------------------------------------------------------------------
(* Cards.                                                                   *)

\* charge compares years and months the way the calendar does, for a month there
\* is: no other sum of twelve years to a month has the same value.
LEMMA ExpiredIsPast ==
  ASSUME NEW card \in Card, card.month \in 1..12
  PROVE  Expired(card) <=> PastCalendar(card)
<1>0. Now.year \in Int /\ Now.month \in 1..12
  BY NowAssumption
<1>1. card.year \in Int /\ card.month \in Int
  <2>1. card.year \in Years /\ card.month \in Int
    BY DEF Card
  <2>2. Years \subseteq Int
    BY FormAssumption
  <2>3. QED
    BY <2>1, <2>2
<1>2. Expired(card) <=> Now.year * 12 + Now.month > card.year * 12 + card.month
  BY DEF Expired, MonthsOf
<1>3. QED
  BY <1>0, <1>1, <1>2 DEF PastCalendar

\* PaidWithUsableCard: whatever card is typed, an order with a month of the
\* calendar is paid with a usable card.
THEOREM PaidUsable == Spec => []PaidWithUsableCard
<1>1. Init => PaidWithUsableCard
  BY DEF Init, PaidWithUsableCard
<1>2. TypeOK /\ PaidWithUsableCard /\ [Next]_vars => PaidWithUsableCard'
  <2> SUFFICES ASSUME TypeOK, PaidWithUsableCard, [Next]_vars PROVE PaidWithUsableCard'
    OBVIOUS
  <2>1. CASE UNCHANGED orders
    BY <2>1 DEF PaidWithUsableCard
  <2>2. ASSUME NEW k \in Call, ServeOrder(k) PROVE PaidWithUsableCard'
    <3>1. calls[k].card \in Card \union {NoCard}
      BY DEF TypeOK, CallState
    <3>2. /\ calls[k].card \in Card /\ calls[k].card.number \in Accepted
          /\ ~Expired(calls[k].card)
      BY <2>2, <3>1, ChargedIsCard DEF ServeOrder
    <3>3. calls[k].card.month \in 1..12 => Usable(calls[k].card)
      BY <3>2, ExpiredIsPast DEF Usable
    <3>4. orders' = orders \union {[call |-> k, card |-> calls[k].card]}
      BY <2>2 DEF ServeOrder
    <3>5. QED
      BY <3>3, <3>4 DEF PaidWithUsableCard
  <2>3. QED
    BY <2>1, <2>2, Steps, MakeFacts DEF Kill, ReadSession, StoreSession, SessionFails, Serve,
       Refuse, Lose, Resolve, vars
<1>3. QED
  BY <1>1, <1>2, TypeCorrect, PTL DEF Spec

-----------------------------------------------------------------------------
(* Messages and orders.                                                     *)

\* The orders that were placed and answered, and whose message is not shown yet.
Owed == {k \in Call : calls[k].method = "order" /\ calls[k].stage = "answered"}

\* A call places at most one order, and the message shown or owed for it has that
\* order to stand for.
OrdersInv ==
  /\ \A k \in Call : k > made => calls[k].stage = "unmade"
  /\ IsFiniteSet(orders)
  /\ \A o \in orders : calls[o.call].stage \in {"answered", "done"}
  /\ completed + Cardinality(Owed) <= Cardinality(orders)

LEMMA OwedFinite ==
  ASSUME NEW S \in SUBSET Call
  PROVE  IsFiniteSet(S) /\ Cardinality(S) \in Nat
<1>1. IsFiniteSet(Call)
  BY BoundAssumption, FS_Interval DEF Call
<1>2. QED
  BY <1>1, FS_Subset, FS_CardinalityType

LEMMA OwedCalls == Owed \in SUBSET Call /\ Owed' \in SUBSET Call
  BY DEF Owed

\* A call that a step brings no answer to, and does not bring back.
Unanswered(k) ==
  /\ calls'[k].method = "order" /\ calls'[k].stage = "answered" =>
       calls[k].method = "order" /\ calls[k].stage = "answered"
  /\ calls[k].stage \in {"answered", "done"} => calls'[k].stage \in {"answered", "done"}
  /\ k > made' => calls'[k].stage = "unmade"

\* No order, no message and no answer.
LEMMA NoAnswer ==
  ASSUME TypeOK, OrdersInv, UNCHANGED <<orders, completed>>,
         \A k \in Call : Unanswered(k)
  PROVE  OrdersInv'
<1>1. Owed' \in SUBSET Owed
  BY DEF Owed, Unanswered
<1>2. Cardinality(Owed') <= Cardinality(Owed)
  BY <1>1, OwedFinite, OwedCalls, FS_Subset
<1>3. completed' + Cardinality(Owed') <= Cardinality(orders')
  <2>1. Cardinality(orders) \in Nat
    BY FS_CardinalityType DEF OrdersInv
  <2>2. QED
    BY <1>2, <2>1, OwedFinite, OwedCalls DEF OrdersInv, TypeOK
<1>4. \A o \in orders' : calls'[o.call].stage \in {"answered", "done"}
  BY DEF OrdersInv, Unanswered, TypeOK
<1>5. QED
  BY <1>3, <1>4 DEF OrdersInv, Unanswered

\* An order is new: its call waited for it.
LEMMA ServeOrderOrders ==
  ASSUME TypeOK, OrdersInv, NEW k \in Call, ServeOrder(k)
  PROVE  OrdersInv'
<1> DEFINE order == [call |-> k, card |-> calls[k].card]
<1>1. /\ calls[k].stage = "sent" /\ UNCHANGED <<made, completed>>
      /\ orders' = orders \union {order} /\ \E ok \in BOOLEAN : Answer(k, ok)
  BY DEF ServeOrder
<1>2. order \notin orders
  BY <1>1 DEF OrdersInv
<1>3. IsFiniteSet(orders') /\ Cardinality(orders') = Cardinality(orders) + 1
      /\ Cardinality(orders) \in Nat
  BY <1>1, <1>2, FS_AddElement, FS_CardinalityType DEF OrdersInv
<1>4. calls'[k].stage \in {"answered", "done"} /\ \A j \in Call \ {k} : calls'[j] = calls[j]
  BY <1>1, AnswerFacts, DoneFacts DEF TypeOK
<1>5. Owed' \in SUBSET (Owed \union {k})
  BY <1>4 DEF Owed
<1>6. Cardinality(Owed') <= Cardinality(Owed) + 1
  <2>1. /\ IsFiniteSet(Owed \union {k})
        /\ Cardinality(Owed \union {k}) \in {Cardinality(Owed), Cardinality(Owed) + 1}
    BY OwedFinite, OwedCalls, FS_AddElement
  <2>2. Cardinality(Owed') <= Cardinality(Owed \union {k})
    BY <1>5, <2>1, FS_Subset
  <2>3. QED
    BY <2>1, <2>2, OwedFinite, OwedCalls
<1>7. completed' + Cardinality(Owed') <= Cardinality(orders')
  BY <1>1, <1>3, <1>6, OwedFinite, OwedCalls DEF OrdersInv, TypeOK
<1>8. \A j \in Call : j > made' => calls'[j].stage = "unmade"
  BY <1>1, <1>4 DEF OrdersInv
<1>9. \A o \in orders' : calls'[o.call].stage \in {"answered", "done"}
  <2>1. \A o \in orders : o.call \in Call \ {k}
    BY <1>1 DEF OrdersInv, TypeOK
  <2>2. QED
    BY <1>1, <1>4, <2>1 DEF OrdersInv
<1>10. QED
  BY <1>3, <1>7, <1>8, <1>9 DEF OrdersInv

\* The message is shown for an order that was owed one.
LEMMA ResolveOrders ==
  ASSUME TypeOK, OrdersInv, NEW k \in Call, Resolve(k), calls[k].method = "order"
  PROVE  OrdersInv'
<1>1. /\ calls[k].stage = "answered" /\ UNCHANGED <<orders, made>>
      /\ calls' = [calls EXCEPT ![k] = Done] /\ completed' = completed + 1
  BY DEF Resolve, Ends
<1>2. calls'[k].stage = "done" /\ \A j \in Call \ {k} : calls'[j] = calls[j]
  BY <1>1, DoneFacts DEF TypeOK
<1>3. k \in Owed /\ Owed' \in SUBSET (Owed \ {k})
  BY <1>1, <1>2 DEF Owed
<1>4. IsFiniteSet(Owed \ {k}) /\ Cardinality(Owed \ {k}) = Cardinality(Owed) - 1
  BY <1>3, OwedFinite, OwedCalls, FS_RemoveElement
<1>5. Cardinality(Owed') <= Cardinality(Owed) - 1
  BY <1>3, <1>4, FS_Subset
<1>6. Cardinality(orders) \in Nat
  BY FS_CardinalityType DEF OrdersInv
<1>7. completed' + Cardinality(Owed') <= Cardinality(orders')
  BY <1>1, <1>5, <1>6, OwedFinite, OwedCalls DEF OrdersInv, TypeOK
<1>8. /\ \A j \in Call : j > made' => calls'[j].stage = "unmade"
      /\ \A o \in orders' : calls'[o.call].stage \in {"answered", "done"}
  BY <1>1, <1>2 DEF OrdersInv, TypeOK
<1>9. QED
  BY <1>1, <1>7, <1>8 DEF OrdersInv

LEMMA InitOrders == Init => OrdersInv
<1> SUFFICES ASSUME Init PROVE OrdersInv
  OBVIOUS
<1>1. \A k \in Call : calls[k].stage = "unmade"
  BY UnmadeFacts DEF Init
<1>2. Owed = {}
  BY <1>1 DEF Owed
<1>3. QED
  BY <1>1, <1>2, FS_EmptySet DEF Init, OrdersInv

LEMMA OrdersStep == TypeOK /\ OrdersInv /\ [Next]_vars => OrdersInv'
<1> SUFFICES ASSUME TypeOK, OrdersInv, [Next]_vars PROVE OrdersInv'
  OBVIOUS
<1>0. /\ calls \in [Call -> CallState] /\ made \in Int /\ launch \in Launch
      /\ used \subseteq Launch /\ \A k \in Call : k > made => calls[k].stage = "unmade"
  BY DEF TypeOK, OrdersInv
<1>1. CASE CallApi \/ SpanStarts \/ PlaceOrder
  <2>1. PICK call \in CallState :
          /\ call.stage = "session" /\ made + 1 \in Call /\ made' = made + 1
          /\ calls' = [calls EXCEPT ![made + 1] = call]
          /\ UNCHANGED <<orders, completed>>
    BY <1>1, MakeFacts
  <2>2. Call \subseteq Int /\ calls[made + 1].stage = "unmade"
    BY <1>0, <2>1 DEF Call
  <2>3. \A k \in Call : Unanswered(k)
    BY <1>0, <2>1, <2>2 DEF Unanswered
  <2>4. QED
    BY <2>1, <2>3, NoAnswer
<1>2. CASE Kill
  <2>1. UNCHANGED <<orders, completed, made>>
    BY <1>2 DEF Kill
  <2>2. ASSUME NEW k \in Call PROVE Unanswered(k)
    <3>1. calls'[k] = Orphan(calls[k]) /\ calls[k] \in CallState
      BY <1>0, <1>2 DEF Kill
    <3>2. k > made => calls'[k].stage = "unmade"
      BY <1>0, <3>1 DEF Orphan
    <3>3. QED
      BY <2>1, <3>1, <3>2, OrphanFacts, DoneFacts DEF Unanswered
  <2>3. QED
    BY <2>1, <2>2, NoAnswer
<1>3. ASSUME NEW k \in Call, NEW u \in Launch, calls[k].stage \in {"session", "storing"},
             Got(k, u), UNCHANGED made
      PROVE  \A j \in Call : Unanswered(j)
  BY <1>0, <1>3, GotFacts, DoneFacts DEF Unanswered
<1>4. ASSUME NEW k \in Call, ReadSession(k) PROVE OrdersInv'
  <2>1. calls[k].stage = "session" /\ UNCHANGED <<orders, completed, made>>
    BY <1>4 DEF ReadSession
  <2>2. CASE stored = NoSession
    <3>1. calls' = [calls EXCEPT ![k].stage = "storing"]
      BY <1>4, <2>2 DEF ReadSession
    <3>2. calls'[k].stage = "storing" /\ \A j \in Call \ {k} : calls'[j] = calls[j]
      BY <1>0, <3>1 DEF CallState
    <3>3. \A j \in Call : Unanswered(j)
      BY <1>0, <2>1, <3>2 DEF Unanswered
    <3>4. QED
      BY <2>1, <3>3, NoAnswer
  <2>3. CASE stored # NoSession
    <3>1. Got(k, stored) /\ stored \in Launch
      BY <1>4, <2>3 DEF ReadSession, TypeOK
    <3>2. QED
      BY <1>3, <2>1, <3>1, NoAnswer
  <2>4. QED
    BY <2>2, <2>3
<1>5. ASSUME NEW k \in Call, StoreSession(k) PROVE OrdersInv'
  BY <1>0, <1>3, <1>5, NoAnswer DEF StoreSession
<1>6. ASSUME NEW k \in Call, SessionFails(k) \/ Serve(k) \/ Refuse(k) \/ Lose(k)
                             \/ (Resolve(k) /\ calls[k].method # "order")
      PROVE  OrdersInv'
  <2>1. Moves(k) /\ calls[k].stage # "unmade" /\ UNCHANGED <<made, orders, completed>>
    BY <1>6, MoveFacts DEF SessionFails, Serve, Refuse, Lose, Resolve
  <2>2. calls'[k].stage = "answered" => calls[k].method # "order" \/ calls[k].stage = "answered"
    <3>1. CASE Serve(k)
      BY <3>1 DEF Serve
    <3>2. CASE Refuse(k)
      BY <1>0, <3>2, AnswerFacts, DoneFacts DEF Refuse
    <3>3. CASE SessionFails(k) \/ (Resolve(k) /\ calls[k].method # "order")
      BY <1>0, <3>3, DoneFacts DEF SessionFails, Resolve, Ends
    <3>4. CASE Lose(k) /\ calls[k].stage = "sent"
      <4>1. calls' = [calls EXCEPT ![k] = [calls[k] EXCEPT !.heard = FALSE]]
        BY <3>4 DEF Lose
      <4>2. calls'[k].stage = "sent"
        BY <1>0, <3>4, <4>1 DEF CallState
      <4>3. QED
        BY <4>2
    <3>5. CASE Lose(k) /\ calls[k].stage # "sent"
      BY <3>5 DEF Lose
    <3>6. QED
      BY <1>6, <3>1, <3>2, <3>3, <3>4, <3>5
  <2>3. Unanswered(k)
    BY <1>0, <2>1, <2>2, DoneFacts DEF Moves, Unanswered
  <2>4. \A j \in Call \ {k} : Unanswered(j)
    BY <1>0, <2>1 DEF Moves, Unanswered
  <2>5. QED
    BY <2>1, <2>3, <2>4, NoAnswer
<1>7. CASE UNCHANGED vars
  <2>1. UNCHANGED <<calls, made, orders, completed>>
    BY <1>7 DEF vars
  <2>2. QED
    BY <1>0, <2>1, NoAnswer DEF Unanswered
<1>8. QED
  BY <1>1, <1>2, <1>4, <1>5, <1>6, <1>7, Steps, ServeOrderOrders, ResolveOrders

\* CompleteMeansPlaced: with orders refused, lost or answered to an app that was
\* killed meanwhile, "Your order is Complete!" is shown once per order at most.
THEOREM CompleteOnce == Spec => []CompleteMeansPlaced
<1>1. Spec => [](TypeOK /\ OrdersInv)
  BY InitTypes, InitOrders, TypeStep, OrdersStep, PTL DEF Spec
<1>2. TypeOK /\ OrdersInv => CompleteMeansPlaced
  <2> SUFFICES ASSUME TypeOK, OrdersInv PROVE completed <= Cardinality(orders)
    BY DEF CompleteMeansPlaced
  <2>1. Cardinality(orders) \in Nat
    BY FS_CardinalityType DEF OrdersInv
  <2>2. QED
    BY <2>1, OwedFinite, OwedCalls DEF OrdersInv, TypeOK
<1>3. QED
  BY <1>1, <1>2, PTL
=============================================================================
