------------------------ MODULE KafkaProducerProofs ------------------------
(***************************************************************************)
(* Proofs about KafkaProducer for any finite set of orders, any number of    *)
(* copies and any buffer.                                                    *)
(***************************************************************************)
EXTENDS KafkaProducer, FiniteSetTheorems, TLAPS

Steps == {"off", "send", "wait", "flag", "done"}

\* TypeOK without the bound on the buffer.
Types ==
    /\ pc \in [Senders -> Steps]
    /\ live \subseteq Orders
    /\ accepted \subseteq Senders /\ IsFiniteSet(accepted)
    /\ offered \subseteq {"ok", "error"} \X Senders /\ IsFiniteSet(offered)
    /\ got \in [Orders -> Senders \cup {None}]
    /\ drained \subseteq Senders /\ IsFiniteSet(drained)
    /\ gaveUp \subseteq Orders

Bounded == Cardinality(accepted) + Cardinality(offered) <= Buffer

\* The copies of a message are not started before its handler is done.
CopiesLater ==
    \A o \in Orders, k \in 1 .. Overload : pc[Main(o)] # "done" => pc[<<o, k>>] = "off"

\* A handler that gave up does not wait again.
GoneOn == \A o \in gaveUp : pc[Main(o)] \in {"flag", "done"}

\* A message is in one place at a time: to be sent, accepted, offered as one response, or
\* logged by the background goroutine.
Offered(m) == <<"ok", m>> \in offered \/ <<"error", m>> \in offered

OnePlace ==
    /\ \A m \in Senders : pc[m] \in {"off", "send"} =>
         m \notin accepted /\ ~Offered(m) /\ m \notin drained
    /\ \A m \in accepted : ~Offered(m) /\ m \notin drained
    /\ \A m \in Senders : Offered(m) => m \notin drained
    /\ \A m \in Senders : ~(<<"ok", m>> \in offered /\ <<"error", m>> \in offered)

\* The ledger of the waits: each message sent is one wait begun, and each wait ended took
\* a response off the channels or was given up.
Ledger ==
    Cardinality(accepted) + Cardinality(offered) + Cardinality(drained)
      = Cardinality(Waiting) + Cardinality(gaveUp)

IInv == Types /\ Bounded /\ CopiesLater /\ GoneOn /\ OnePlace /\ Ledger

-----------------------------------------------------------------------------
LEMMA SendersFinite == IsFiniteSet(Senders)
<1>1. IsFiniteSet(0 .. Overload)
  BY FS_Interval, KafkaProducerAssumption
<1>2. QED
  BY <1>1, FS_Product, KafkaProducerAssumption DEF Senders

LEMMA MainSends == \A o \in Orders : Main(o) \in Senders
  BY KafkaProducerAssumption DEF Main, Senders

LEMMA CopySends == Copies \subseteq Senders
  BY KafkaProducerAssumption DEF Copies, Senders

LEMMA WaitingFinite == IsFiniteSet(Waiting) /\ Cardinality(Waiting) \in Nat
<1>1. Waiting \in SUBSET Senders
  BY DEF Waiting
<1>2. QED
  BY <1>1, SendersFinite, FS_Subset, FS_CardinalityType

LEMMA GaveUpFinite == ASSUME Types PROVE IsFiniteSet(gaveUp)
  BY FS_Subset, KafkaProducerAssumption DEF Types

LEMMA Counts ==
  ASSUME Types
  PROVE  /\ Cardinality(accepted) \in Nat /\ Cardinality(offered) \in Nat
         /\ Cardinality(drained) \in Nat /\ Cardinality(Waiting) \in Nat
         /\ Cardinality(gaveUp) \in Nat
  BY FS_CardinalityType, WaitingFinite, GaveUpFinite DEF Types

LEMMA InitIInv == Init => IInv
<1> SUFFICES ASSUME Init PROVE IInv
  OBVIOUS
<1>1. Types
  BY FS_EmptySet DEF Init, Types, Steps
<1>2. /\ Cardinality(accepted) = 0 /\ Cardinality(offered) = 0 /\ Cardinality(drained) = 0
      /\ Cardinality(gaveUp) = 0
  BY FS_EmptySet DEF Init
<1>3. Bounded
  BY <1>2, KafkaProducerAssumption DEF Bounded
<1>4. CopiesLater /\ GoneOn
  BY KafkaProducerAssumption DEF Init, CopiesLater, GoneOn, Senders
<1>5. OnePlace
  BY DEF Init, OnePlace, Offered
<1>6. Waiting = {}
  BY DEF Init, Waiting
<1>7. Ledger
  BY <1>2, <1>6, FS_EmptySet DEF Ledger
<1>8. QED
  BY <1>1, <1>3, <1>4, <1>5, <1>7 DEF IInv

\* A step that changes neither who waits nor where a message is.
LEMMA QuietStep ==
  ASSUME Types, Ledger, Bounded, pc' \in [Senders -> Steps],
         live' \subseteq Orders, Waiting' = Waiting,
         UNCHANGED <<accepted, offered, got, drained, gaveUp>>
  PROVE  Types' /\ Bounded' /\ Ledger'
  BY DEF Types, Bounded, Ledger

LEMMA SendStep ==
  ASSUME IInv, NEW s \in Senders, Send(s)
  PROVE  IInv'
<1> USE DEF IInv
<1>1. s \notin accepted /\ s \notin Waiting /\ pc[s] = "send"
  BY DEF Send, OnePlace, Waiting
<1>2. Types'
  BY FS_AddElement DEF Send, Goto, Types, Steps
<1>3. Cardinality(accepted') = Cardinality(accepted) + 1
  BY <1>1, FS_AddElement DEF Send, Types
<1>4. Bounded'
  BY <1>3, Counts, KafkaProducerAssumption DEF Send, Room, Bounded
<1>5. CopiesLater'
  BY <1>1, MainSends DEF Send, Goto, Types, Steps, CopiesLater, Copies, Main, Senders
<1>6. OnePlace'
  BY <1>1 DEF Send, Goto, Types, OnePlace, Offered
<1>7. GoneOn'
  BY <1>1, MainSends DEF Send, Goto, Types, GoneOn
<1>8. Waiting' = Waiting \cup {s}
  BY DEF Send, Goto, Types, Waiting
<1>9. Cardinality(Waiting') = Cardinality(Waiting) + 1
  BY <1>1, <1>8, WaitingFinite, FS_AddElement
<1>10. Ledger'
  BY <1>3, <1>9, Counts DEF Send, Ledger
<1>11. QED
  BY <1>2, <1>4, <1>5, <1>6, <1>7, <1>10

LEMMA SendCancelledStep ==
  ASSUME IInv, NEW o \in Orders, SendCancelled(o)
  PROVE  IInv'
<1> USE DEF IInv
<1>1. pc[Main(o)] = "send" /\ pc' = [pc EXCEPT ![Main(o)] = "done"]
  BY DEF SendCancelled, Goto
<1>2. pc' \in [Senders -> Steps] /\ Waiting' = Waiting
  BY <1>1, MainSends DEF Types, Steps, Waiting
<1>3. Types' /\ Bounded' /\ Ledger'
  BY <1>2, QuietStep DEF SendCancelled, Types
<1>4. CopiesLater' /\ GoneOn'
  BY <1>1, MainSends DEF SendCancelled, Types, CopiesLater, GoneOn, Main, Senders
<1>5. OnePlace'
  BY <1>1, MainSends DEF SendCancelled, Types, OnePlace, Offered
<1>6. QED
  BY <1>3, <1>4, <1>5

\* A handler that gives up leaves its response to the ledger.
LEMMA WaitCancelledStep ==
  ASSUME IInv, NEW o \in Orders, WaitCancelled(o)
  PROVE  IInv'
<1> USE DEF IInv
<1>1. pc[Main(o)] = "wait" /\ pc' = [pc EXCEPT ![Main(o)] = "flag"] /\ gaveUp' = gaveUp \cup {o}
      /\ UNCHANGED <<live, accepted, offered, got, drained>>
  BY DEF WaitCancelled, Goto
<1>2. Types'
  BY <1>1, MainSends DEF Types, Steps
<1>3. Waiting' = Waiting \ {Main(o)} /\ Main(o) \in Waiting
  BY <1>1, MainSends DEF Types, Waiting
<1>4. Cardinality(Waiting') = Cardinality(Waiting) - 1
  BY <1>3, WaitingFinite, FS_RemoveElement
<1>5. Cardinality(gaveUp') = Cardinality(gaveUp) + 1
  <2>1. o \notin gaveUp
    BY <1>1 DEF GoneOn
  <2>2. QED
    BY <1>1, <2>1, GaveUpFinite, FS_AddElement
<1>6. Bounded' /\ Ledger'
  BY <1>1, <1>4, <1>5, Counts DEF Bounded, Ledger
<1>7. CopiesLater' /\ GoneOn'
  BY <1>1, MainSends DEF Types, CopiesLater, GoneOn, Main, Senders
<1>8. OnePlace'
  BY <1>1, MainSends DEF Types, OnePlace, Offered
<1>9. QED
  BY <1>2, <1>6, <1>7, <1>8

LEMMA StartStep ==
  ASSUME IInv, NEW o \in Orders, StartCopies(o)
  PROVE  IInv'
<1> USE DEF IInv
<1>1. pc[Main(o)] = "flag" /\ \A k \in 1 .. Overload : pc[<<o, k>>] = "off"
  BY MainSends DEF StartCopies, CopiesLater
<1>2. /\ pc' \in [Senders -> Steps] /\ pc'[Main(o)] = "done"
      /\ \A s \in Senders \ {Main(o)} :
           pc'[s] = pc[s] \/ (s[1] = o /\ pc[s] = "off" /\ pc'[s] = "send")
  <2>1. CASE Goto(Main(o), "done")
    BY <1>1, <2>1, MainSends DEF Goto, Types, Steps
  <2>2. CASE pc' = [s \in Senders |->
                      IF s = Main(o) THEN "done" ELSE IF s[1] = o THEN "send" ELSE pc[s]]
    <3>1. \A s \in Senders \ {Main(o)} : s[1] = o => pc[s] = "off"
      BY <1>1 DEF Senders, Main
    <3>2. pc'[Main(o)] = "done"
      BY <2>2, MainSends
    <3>3. \A s \in Senders : pc'[s] \in Steps
      BY <2>2 DEF Types, Steps
    <3>4. QED
      BY <2>2, <3>1, <3>2, <3>3
  <2>3. QED
    BY <2>1, <2>2 DEF StartCopies
<1>3. Waiting' = Waiting
  BY <1>1, <1>2 DEF Waiting
<1>4. Types' /\ Bounded' /\ Ledger'
  BY <1>2, <1>3, QuietStep DEF StartCopies, Types
<1>5. CopiesLater' /\ GoneOn'
  <2>1. CopiesLater'
    BY <1>2, MainSends DEF CopiesLater, Senders, Main
  <2>2. GoneOn'
    BY <1>1, <1>2, MainSends DEF StartCopies, GoneOn, Types
  <2>3. QED
    BY <2>1, <2>2
<1>6. OnePlace'
  BY <1>2 DEF StartCopies, OnePlace, Offered
<1>7. QED
  BY <1>4, <1>5, <1>6

\* Taking response r from the channels, by sender s, who waits for one.
LEMMA TakeResponse ==
  ASSUME IInv, NEW r \in offered, NEW s \in Waiting, NEW step \in {"flag", "done"},
         offered' = offered \ {r}, pc' = [pc EXCEPT ![s] = step],
         UNCHANGED <<live, accepted, drained, gaveUp>>,
         got' \in [Orders -> Senders \cup {None}]
  PROVE  Types' /\ Bounded' /\ GoneOn' /\ OnePlace' /\ Ledger'
<1> USE DEF IInv
<1>1. pc' \in [Senders -> Steps] /\ Waiting' = Waiting \ {s}
  BY DEF Types, Waiting, Steps
<1>2. IsFiniteSet(offered') /\ Cardinality(offered') = Cardinality(offered) - 1
  BY FS_RemoveElement DEF Types
<1>3. Cardinality(Waiting') = Cardinality(Waiting) - 1
  BY <1>1, WaitingFinite, FS_RemoveElement
<1>4. Bounded'
  BY <1>2, Counts, KafkaProducerAssumption DEF Bounded
<1>5. Ledger'
  BY <1>2, <1>3, Counts DEF Ledger
<1>6. Types'
  BY <1>1, <1>2 DEF Types
<1>7. GoneOn'
  BY MainSends DEF GoneOn, Types
<1>8. OnePlace'
  BY DEF OnePlace, Offered, Types, Waiting
<1>9. QED
  BY <1>4, <1>5, <1>6, <1>7, <1>8

LEMMA TakeStep ==
  ASSUME IInv, NEW o \in Orders, Take(o)
  PROVE  IInv'
<1> USE DEF IInv
<1>1. PICK r \in offered : offered' = offered \ {r} /\ got' = [got EXCEPT ![o] = r[2]]
  BY DEF Take
<1>2. Main(o) \in Waiting /\ pc' = [pc EXCEPT ![Main(o)] = "flag"]
  BY MainSends DEF Take, Goto, Waiting
<1>3. got' \in [Orders -> Senders \cup {None}]
  BY <1>1 DEF Types
<1>4. UNCHANGED <<live, accepted, drained, gaveUp>>
  BY DEF Take
<1>5. Types' /\ Bounded' /\ GoneOn' /\ OnePlace' /\ Ledger'
  BY <1>1, <1>2, <1>3, <1>4, TakeResponse
<1>6. CopiesLater'
  BY <1>2, MainSends DEF Types, Waiting, CopiesLater, Main, Senders
<1>7. QED
  BY <1>5, <1>6

LEMMA TakeCopyStep ==
  ASSUME IInv, NEW s \in Copies, TakeCopy(s)
  PROVE  IInv'
<1> USE DEF IInv
<1>1. PICK m \in Senders : <<"ok", m>> \in offered /\ offered' = offered \ {<<"ok", m>>}
  BY DEF TakeCopy
<1>2. s \in Waiting /\ s \in Senders /\ pc' = [pc EXCEPT ![s] = "done"]
  BY CopySends DEF TakeCopy, Goto, Waiting
<1>3. UNCHANGED <<live, accepted, got, drained, gaveUp>>
  BY DEF TakeCopy
<1>4. got' \in [Orders -> Senders \cup {None}]
  BY <1>3 DEF Types
<1>5. Types' /\ Bounded' /\ GoneOn' /\ OnePlace' /\ Ledger'
  BY <1>1, <1>2, <1>3, <1>4, TakeResponse
<1>6. CopiesLater'
  BY <1>2 DEF Types, Waiting, CopiesLater, Copies, Main, Senders
<1>7. QED
  BY <1>5, <1>6

LEMMA DrainStep ==
  ASSUME IInv, Drain
  PROVE  IInv'
<1> USE DEF IInv
<1>1. PICK m \in Senders : /\ <<"error", m>> \in offered
                           /\ offered' = offered \ {<<"error", m>>}
                           /\ drained' = drained \cup {m}
  BY DEF Drain
<1>2. UNCHANGED <<pc, live, accepted, got, gaveUp>>
  BY DEF Drain
<1>3. Offered(m) /\ m \notin accepted /\ m \notin drained
  BY <1>1 DEF Offered, OnePlace
<1>4. Types'
  BY <1>1, <1>2, FS_RemoveElement, FS_AddElement DEF Types
<1>5. /\ Cardinality(offered') = Cardinality(offered) - 1
      /\ Cardinality(drained') = Cardinality(drained) + 1
  BY <1>1, <1>3, FS_RemoveElement, FS_AddElement DEF Types
<1>6. Bounded'
  BY <1>2, <1>5, Counts, KafkaProducerAssumption DEF Bounded
<1>7. Ledger'
  <2>1. Waiting' = Waiting
    BY <1>2 DEF Waiting
  <2>2. QED
    BY <1>2, <1>5, <2>1, Counts DEF Ledger
<1>8. CopiesLater' /\ GoneOn'
  BY <1>2 DEF CopiesLater, GoneOn
<1>9. OnePlace'
  BY <1>1, <1>2, <1>3 DEF OnePlace, Offered, Types
<1>10. QED
  BY <1>4, <1>6, <1>7, <1>8, <1>9

LEMMA RespondStep ==
  ASSUME IInv, Respond
  PROVE  IInv'
<1> USE DEF IInv
<1>1. PICK m \in accepted, kind \in {"ok", "error"} :
        accepted' = accepted \ {m} /\ offered' = offered \cup {<<kind, m>>}
  BY DEF Respond
<1>2. UNCHANGED <<pc, live, got, drained, gaveUp>>
  BY DEF Respond
<1>3. m \in Senders /\ ~Offered(m) /\ m \notin drained
  BY DEF OnePlace, Types
<1>4. Types'
  <2>1. accepted' \subseteq Senders /\ IsFiniteSet(accepted')
    BY <1>1, FS_RemoveElement DEF Types
  <2>2. IsFiniteSet(offered')
    BY <1>1, FS_AddElement DEF Types
  <2>3. offered' \subseteq {"ok", "error"} \X Senders
    BY <1>1, <1>3 DEF Types
  <2>4. QED
    BY <1>2, <2>1, <2>2, <2>3 DEF Types
<1>5. /\ Cardinality(accepted') = Cardinality(accepted) - 1
      /\ Cardinality(offered') = Cardinality(offered) + 1
  BY <1>1, <1>3, FS_RemoveElement, FS_AddElement DEF Types, Offered
<1>6. Bounded'
  BY <1>5, Counts, KafkaProducerAssumption DEF Bounded
<1>7. Ledger'
  <2>1. Waiting' = Waiting
    BY <1>2 DEF Waiting
  <2>2. QED
    BY <1>2, <1>5, <2>1, Counts DEF Ledger
<1>8. CopiesLater' /\ GoneOn'
  BY <1>2 DEF CopiesLater, GoneOn
<1>9. OnePlace'
  BY <1>1, <1>2, <1>3 DEF OnePlace, Offered, Types
<1>10. QED
  BY <1>4, <1>6, <1>7, <1>8, <1>9

LEMMA CancelStep ==
  ASSUME IInv, NEW o \in Orders, Cancel(o)
  PROVE  IInv'
<1> USE DEF IInv
<1>1. pc' = pc /\ live' \subseteq Orders /\ UNCHANGED <<accepted, offered, got, drained, gaveUp>>
  BY DEF Cancel, Types
<1>2. Types' /\ Bounded' /\ Ledger'
  BY <1>1, QuietStep DEF Types, Waiting
<1>3. QED
  BY <1>1, <1>2 DEF CopiesLater, GoneOn, OnePlace, Offered

LEMMA Inductive == Spec => []IInv
<1>1. IInv /\ [Next]_vars => IInv'
  <2> SUFFICES ASSUME IInv, [Next]_vars PROVE IInv'
    OBVIOUS
  <2>1. CASE UNCHANGED vars
    <3>1. pc' = pc /\ live' \subseteq Orders /\ UNCHANGED <<accepted, offered, got, drained, gaveUp>>
      BY <2>1 DEF vars, IInv, Types
    <3>2. Types' /\ Bounded' /\ Ledger'
      BY <3>1, QuietStep DEF IInv, Types, Waiting
    <3>3. QED
      BY <3>1, <3>2 DEF IInv, CopiesLater, GoneOn, OnePlace, Offered
  <2>2. ASSUME NEW o \in Orders, Handler(o) \/ Cancel(o) PROVE IInv'
    BY <2>2, MainSends, SendStep, SendCancelledStep, TakeStep, WaitCancelledStep, StartStep,
       CancelStep DEF Handler
  <2>3. ASSUME NEW s \in Copies, Goroutine(s) PROVE IInv'
    BY <2>3, CopySends, SendStep, TakeCopyStep DEF Goroutine
  <2>4. QED
    BY <2>1, <2>2, <2>3, DrainStep, RespondStep DEF Next
<1>2. QED
  BY <1>1, InitIInv, PTL DEF Spec
-----------------------------------------------------------------------------
\* The state keeps its types, and the producer never holds more than it has room for.
THEOREM KafkaProducerTypeOK == Spec => []TypeOK
<1>1. IInv => TypeOK
  BY DEF IInv, Types, Steps, Bounded, TypeOK
<1>2. QED
  BY <1>1, Inductive, PTL

\* Every waiting handler or goroutine has a response on its way, except for as many as the
\* background goroutine logged errors.
THEOREM WaitsHaveACause == Spec => []StuckHasACause
<1>1. IInv => StuckHasACause
  BY Counts DEF IInv, Ledger, StuckHasACause
<1>2. QED
  BY <1>1, Inductive, PTL

\* What is left in the producer for nobody is due to handlers that gave up their wait.
THEOREM LeftoversHaveACause == Spec => []LeftoverHasACause
<1>1. IInv => LeftoverHasACause
  BY Counts DEF IInv, Ledger, LeftoverHasACause
<1>2. QED
  BY <1>1, Inductive, PTL
=============================================================================
