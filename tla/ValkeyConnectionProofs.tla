----------------------- MODULE ValkeyConnectionProofs -----------------------
(***************************************************************************)
(* Proofs about ValkeyConnection for any number of calls and of breaks.      *)
(***************************************************************************)
EXTENDS ValkeyConnection, TLAPS

InLock == {"recheck", "connect", "subscribe", "open"}

\* The holder of the lock is the one call inside it.
Exclusive == \A c \in Calls : pc[c] \in InLock <=> holder = c

\* The flag is set, a call that will set it is under way, or an event waits to be handled
\* only if a multiplexer has been opened, and _redis is the last one.
OpenedAfterConnect ==
    /\ redis = made
    /\ opened \/ events # {} => made # 0
    /\ \A c \in Calls : pc[c] \in {"subscribe", "open", "use"} => made # 0

\* A multiplexer that no closing accounts for yet is in use (the flag is set) or about to be.
Accounted ==
    /\ \A c \in Calls : pc[c] = "connect" => made <= closings
    /\ made <= closings \/ opened \/ \E c \in Calls : pc[c] \in {"subscribe", "open"}

IInv == TypeOK /\ Exclusive /\ OpenedAfterConnect /\ Accounted /\ OneConnectPerClosing

USE DEF InLock
-----------------------------------------------------------------------------
LEMMA InitIInv == Init => IInv
<1> SUFFICES ASSUME Init PROVE IInv
  OBVIOUS
<1>1. TypeOK
  <2>1. redis \in 0 .. made /\ breaks \in 0 .. MaxBreaks /\ made \in Nat /\ closings \in Nat
    BY ValkeyConnectionAssumption DEF Init
  <2>2. opened \in BOOLEAN /\ up \subseteq 1 .. made /\ subscribed \subseteq 1 .. made
    BY DEF Init
  <2>3. events \subseteq (1 .. made) \X {"failed", "restored"} /\ holder \in Calls \cup {None}
    BY DEF Init
  <2>4. pc \in [Calls -> {"check", "lock", "recheck", "connect", "subscribe", "open", "use",
                         "done", "failed"}]
    BY DEF Init
  <2>5. QED
    BY <2>1, <2>2, <2>3, <2>4 DEF TypeOK
<1>2. Exclusive
  BY ValkeyConnectionAssumption DEF Init, Exclusive
<1>3. OpenedAfterConnect /\ Accounted /\ OneConnectPerClosing
  BY DEF Init, OpenedAfterConnect, Accounted, OneConnectPerClosing
<1>4. QED
  BY <1>1, <1>2, <1>3 DEF IInv

\* A step that only moves call c, with or without the lock.
LEMMA CallStep ==
  ASSUME IInv, NEW c \in Calls, Call(c)
  PROVE  IInv'
<1> USE DEF IInv, TypeOK, shared, Goto
<1>1. CASE Check(c)
  BY <1>1, ValkeyConnectionAssumption
  DEF Check, Exclusive, OpenedAfterConnect, Accounted, OneConnectPerClosing
<1>2. CASE Lock(c)
  BY <1>2, ValkeyConnectionAssumption
  DEF Lock, Exclusive, OpenedAfterConnect, Accounted, OneConnectPerClosing
<1>3. CASE Recheck(c)
  <2>1. Exclusive' /\ OpenedAfterConnect' /\ OneConnectPerClosing' /\ TypeOK'
    BY <1>3, ValkeyConnectionAssumption
    DEF Recheck, Exclusive, OpenedAfterConnect, OneConnectPerClosing
  <2>2. ~opened => made <= closings
    BY <1>3 DEF Recheck, Exclusive, Accounted
  <2>3. Accounted'
    BY <1>3, <2>2 DEF Recheck, Accounted
  <2>4. QED
    BY <2>1, <2>3
<1>4. CASE Connect(c)
  <2>1. holder = c /\ made <= closings /\ \A d \in Calls \ {c} : pc[d] \notin InLock
    BY <1>4 DEF Connect, Exclusive, Accounted
  <2>2. TypeOK'
    <3>1. made' = made + 1 /\ redis' = made + 1 /\ up' \subseteq up \cup {made + 1}
      BY <1>4 DEF Connect
    <3>2. redis' \in 0 .. made' /\ up' \subseteq 1 .. made' /\ 1 .. made \subseteq 1 .. made'
      BY <3>1
    <3>3. subscribed' \subseteq 1 .. made' /\ events' \subseteq (1 .. made') \X {"failed", "restored"}
      BY <1>4, <3>2 DEF Connect
    <3>4. holder' \in Calls \cup {None} /\ closings' \in Nat /\ UNCHANGED <<opened, breaks>>
      BY <1>4 DEF Connect
    <3>5. pc' \in [Calls -> {"check", "lock", "recheck", "connect", "subscribe", "open", "use",
                              "done", "failed"}]
      BY <1>4 DEF Connect
    <3>6. QED
      BY <3>1, <3>2, <3>3, <3>4, <3>5
  <2>3. Exclusive'
    BY <1>4, <2>1, ValkeyConnectionAssumption DEF Connect, Exclusive
  <2>4. OpenedAfterConnect'
    BY <1>4 DEF Connect, OpenedAfterConnect
  <2>5. OneConnectPerClosing'
    BY <1>4, <2>1 DEF Connect, OneConnectPerClosing
  <2>6. Accounted'
    BY <1>4, <2>1 DEF Connect, Accounted
  <2>7. QED
    BY <2>2, <2>3, <2>4, <2>5, <2>6
<1>5. CASE Subscribe(c)
  BY <1>5, ValkeyConnectionAssumption
  DEF Subscribe, Exclusive, OpenedAfterConnect, Accounted, OneConnectPerClosing
<1>6. CASE Open(c)
  BY <1>6, ValkeyConnectionAssumption
  DEF Open, Exclusive, OpenedAfterConnect, Accounted, OneConnectPerClosing
<1>7. CASE Use(c)
  BY <1>7, ValkeyConnectionAssumption
  DEF Use, Exclusive, OpenedAfterConnect, Accounted, OneConnectPerClosing
<1>8. QED
  BY <1>1, <1>2, <1>3, <1>4, <1>5, <1>6, <1>7 DEF Call

\* A connection breaks or is restored, or a handler runs.
LEMMA MultiplexerStep ==
  ASSUME IInv, NEW m \in 1 .. made,
         Break(m) \/ Restore(m) \/ HandleRestored(m) \/ HandleFailed(m)
  PROVE  IInv'
<1> USE DEF IInv, TypeOK
<1>1. CASE Break(m)
  BY <1>1, ValkeyConnectionAssumption
  DEF Break, Exclusive, OpenedAfterConnect, Accounted, OneConnectPerClosing
<1>2. CASE Restore(m)
  BY <1>2 DEF Restore, Exclusive, OpenedAfterConnect, Accounted, OneConnectPerClosing
<1>3. CASE HandleRestored(m)
  BY <1>3 DEF HandleRestored, Exclusive, OpenedAfterConnect, Accounted, OneConnectPerClosing
<1>4. CASE HandleFailed(m)
  <2>1. made <= closings'
    BY <1>4 DEF HandleFailed, OneConnectPerClosing
  <2>2. TypeOK' /\ Exclusive'
    <3>1. events' \subseteq events /\ opened' = FALSE /\ closings' = closings + 1
      BY <1>4 DEF HandleFailed
    <3>2. UNCHANGED <<redis, made, up, subscribed, holder, pc, breaks>>
      BY <1>4 DEF HandleFailed
    <3>3. events' \subseteq (1 .. made') \X {"failed", "restored"}
      BY <3>1, <3>2
    <3>4. closings' \in Nat
      BY <3>1
    <3>5. opened' \in BOOLEAN
      BY <3>1
    <3>6. TypeOK'
      BY <3>2, <3>3, <3>4, <3>5
    <3>7. QED
      BY <3>2, <3>6 DEF Exclusive
  <2>3. OpenedAfterConnect'
    BY <1>4 DEF HandleFailed, OpenedAfterConnect
  <2>4. Accounted' /\ OneConnectPerClosing'
    BY <1>4, <2>1 DEF HandleFailed, Accounted, OneConnectPerClosing
  <2>5. QED
    BY <2>2, <2>3, <2>4
<1>5. QED
  BY <1>1, <1>2, <1>3, <1>4

LEMMA Inductive == Spec => []IInv
<1>1. IInv /\ [Next]_vars => IInv'
  <2> SUFFICES ASSUME IInv, [Next]_vars PROVE IInv'
    OBVIOUS
  <2>1. CASE UNCHANGED vars
    BY <2>1 DEF vars, shared, IInv, TypeOK, Exclusive, OpenedAfterConnect, Accounted,
                OneConnectPerClosing
  <2>2. CASE \E c \in Calls : Call(c)
    BY <2>2, CallStep
  <2>3. CASE \E m \in 1 .. made :
               Break(m) \/ Restore(m) \/ HandleRestored(m) \/ HandleFailed(m)
    BY <2>3, MultiplexerStep
  <2>4. QED
    BY <2>1, <2>2, <2>3 DEF Next, Finished
<1>2. QED
  BY <1>1, InitIInv, PTL DEF Spec
-----------------------------------------------------------------------------
\* The state keeps its types, however many calls and breaks there are.
THEOREM ValkeyConnectionTypeOK == Spec => []TypeOK
<1>1. IInv => TypeOK
  BY DEF IInv
<1>2. QED
  BY <1>1, Inductive, PTL

\* No two calls are between lines 82 and 119 of EnsureRedisConnected at once, and each of
\* them holds the lock.
THEOREM OneCallInside == Spec => []Exclusive
<1>1. IInv => Exclusive
  BY DEF IInv
<1>2. QED
  BY <1>1, Inductive, PTL

\* A call that goes on to _redis.GetDatabase() (line 131) finds a multiplexer there, though
\* it looked at the flag without the lock and handlers set the flag without it.
THEOREM UsesHaveMultiplexers == Spec => []UseHasMultiplexer
<1>1. IInv => UseHasMultiplexer
  BY DEF IInv, OpenedAfterConnect, UseHasMultiplexer
<1>2. QED
  BY <1>1, Inductive, PTL

\* The second look at the flag (line 82) keeps calls that waited for the lock from opening
\* multiplexers of their own.
THEOREM ConnectsAreAccounted == Spec => []OneConnectPerClosing
<1>1. IInv => OneConnectPerClosing
  BY DEF IInv
<1>2. QED
  BY <1>1, Inductive, PTL
=============================================================================
