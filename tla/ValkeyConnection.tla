-------------------------- MODULE ValkeyConnection --------------------------
(***************************************************************************)
(* cart/ValkeyCartStore.cs, EnsureRedisConnected (lines 72-120): calls on    *)
(* several threads share one multiplexer behind a volatile flag, a lock and  *)
(* a second look at the flag, while the event handlers of every multiplexer  *)
(* ever opened set and clear the flag.                                       *)
(*                                                                           *)
(* Multiplexers are external.  Connect returns one that is connected or not; *)
(* it breaks and restores its connection by itself, for ever, since nobody   *)
(* disposes of it; its events run on the thread pool, later and in any       *)
(* order.                                                                    *)
(***************************************************************************)
EXTENDS Naturals

CONSTANTS
    Calls,       \* calls of AddItem, EmptyCart and GetCart, each on its thread
    MaxBreaks,   \* bounds how often connections break
    None

ASSUME ValkeyConnectionAssumption == MaxBreaks \in Nat /\ None \notin Calls

VARIABLES
    opened,      \* _isRedisConnectionOpened
    redis,       \* _redis: the number of the multiplexer in use, 0 for null
    made,        \* the multiplexers 1 .. made have been opened
    up,          \* the multiplexers that are connected
    subscribed,  \* the multiplexers with event handlers
    events,      \* the events raised and not handled: <<multiplexer, "failed" or "restored">>
    holder,      \* the call that holds _locker, or None
    pc           \* pc[c]: where call c is

\* History: how often a connection broke, and how often an opening or the handling of a
\* broken connection left the flag cleared.
VARIABLES breaks, closings

vars == <<opened, redis, made, up, subscribed, events, holder, pc, breaks, closings>>
shared == <<redis, made, up, subscribed, events>>

Init ==
    /\ opened = FALSE
    /\ redis = 0
    /\ made = 0
    /\ up = {}
    /\ subscribed = {}
    /\ events = {}
    /\ holder = None
    /\ pc = [c \in Calls |-> "check"]
    /\ breaks = 0
    /\ closings = 0

Goto(c, step) == pc' = [pc EXCEPT ![c] = step]

\* Mutant: the flag is set while the field still holds the old multiplexer (or null).
CheckOpensEarly(c) ==
    /\ pc[c] = "check"
    /\ Goto(c, IF opened THEN "use" ELSE "lock")
    /\ opened' = TRUE
    /\ UNCHANGED <<shared, holder, breaks, closings>>

\* Line 74.
Check(c) ==
    /\ pc[c] = "check"
    /\ Goto(c, IF opened THEN "use" ELSE "lock")
    /\ UNCHANGED <<shared, opened, holder, breaks, closings>>

\* Line 80.
Lock(c) ==
    /\ pc[c] = "lock"
    /\ holder = None
    /\ holder' = c
    /\ Goto(c, "recheck")
    /\ UNCHANGED <<shared, opened, breaks, closings>>

\* Mutant: whoever got the lock connects.
RecheckNever(c) ==
    /\ pc[c] = "recheck"
    /\ Goto(c, "connect") /\ UNCHANGED holder
    /\ UNCHANGED <<shared, opened, breaks, closings>>

\* Mutant: the early return leaves the lock taken.
RecheckKeepsLock(c) ==
    /\ pc[c] = "recheck"
    /\ Goto(c, IF opened THEN "use" ELSE "connect")
    /\ UNCHANGED <<shared, opened, holder, breaks, closings>>

\* Line 82.
Recheck(c) ==
    /\ pc[c] = "recheck"
    /\ IF opened THEN Goto(c, "use") /\ holder' = None
                 ELSE Goto(c, "connect") /\ UNCHANGED holder
    /\ UNCHANGED <<shared, opened, breaks, closings>>

\* Lines 88-104: the field is set before the connection is looked at.  No connection, or a
\* failure of the small test, throws: the lock is released, the field stays.
Connect(c) ==
    /\ pc[c] = "connect"
    /\ made' = made + 1
    /\ redis' = made + 1
    /\ \/ up' = up \cup {made + 1} /\ Goto(c, "subscribe") /\ UNCHANGED <<holder, closings>>
       \/ /\ \/ up' = up \cup {made + 1}
             \/ UNCHANGED up
          /\ Goto(c, "failed")
          /\ holder' = None
          /\ closings' = closings + 1
    /\ UNCHANGED <<opened, subscribed, events, breaks>>

\* Mutant: the handlers go to the multiplexer that comes next.
SubscribeNext(c) ==
    /\ pc[c] = "subscribe"
    /\ subscribed' = subscribed \cup {redis + 1}
    /\ Goto(c, "open")
    /\ UNCHANGED <<opened, redis, made, up, events, holder, breaks, closings>>

\* Lines 106-116.
Subscribe(c) ==
    /\ pc[c] = "subscribe"
    /\ subscribed' = subscribed \cup {redis}
    /\ Goto(c, "open")
    /\ UNCHANGED <<opened, redis, made, up, events, holder, breaks, closings>>

\* Lines 118-119.
Open(c) ==
    /\ pc[c] = "open"
    /\ opened' = TRUE
    /\ holder' = None
    /\ Goto(c, "use")
    /\ UNCHANGED <<shared, breaks, closings>>

\* The call works on _redis, whatever that is by now.
Use(c) ==
    /\ pc[c] = "use"
    /\ Goto(c, "done")
    /\ UNCHANGED <<shared, opened, holder, breaks, closings>>

\* A multiplexer loses its connection ...
Break(m) ==
    /\ m \in up
    /\ breaks < MaxBreaks
    /\ breaks' = breaks + 1
    /\ up' = up \ {m}
    /\ events' = events \cup ({<<m, "failed">>} \cap (subscribed \X {"failed"}))
    /\ UNCHANGED <<opened, redis, made, subscribed, holder, pc, closings>>

\* ... and gets it back.
Restore(m) ==
    /\ m \notin up
    /\ up' = up \cup {m}
    /\ events' = events \cup ({<<m, "restored">>} \cap (subscribed \X {"restored"}))
    /\ UNCHANGED <<opened, redis, made, subscribed, holder, pc, breaks, closings>>

\* Lines 107-111 and 112-116: the handlers do not ask whose event it is.
HandleRestored(m) ==
    /\ <<m, "restored">> \in events
    /\ events' = events \ {<<m, "restored">>}
    /\ opened' = TRUE
    /\ UNCHANGED <<redis, made, up, subscribed, holder, pc, breaks, closings>>

HandleFailed(m) ==
    /\ <<m, "failed">> \in events
    /\ events' = events \ {<<m, "failed">>}
    /\ opened' = FALSE
    /\ closings' = closings + 1
    /\ UNCHANGED <<redis, made, up, subscribed, holder, pc, breaks>>

Call(c) ==
    Check(c) \/ Lock(c) \/ Recheck(c) \/ Connect(c) \/ Subscribe(c) \/ Open(c) \/ Use(c)

Finished == (\A c \in Calls : pc[c] \in {"done", "failed"}) /\ UNCHANGED vars

Next ==
    \/ \E c \in Calls : Call(c)
    \/ \E m \in 1 .. made : Break(m) \/ Restore(m) \/ HandleRestored(m) \/ HandleFailed(m)
    \/ Finished

\* Threads run when they can, and Connect returns (it tries a bounded number of times).
Fairness == \A c \in Calls : WF_vars(Call(c))

Spec == Init /\ [][Next]_vars /\ Fairness
-----------------------------------------------------------------------------
(* Properties.                                                              *)

\* Type invariant.
TypeOK ==
    /\ opened \in BOOLEAN
    /\ made \in Nat
    /\ redis \in 0 .. made
    /\ up \subseteq 1 .. made
    /\ subscribed \subseteq 1 .. made
    /\ events \subseteq (1 .. made) \X {"failed", "restored"}
    /\ holder \in Calls \cup {None}
    /\ pc \in [Calls -> {"check", "lock", "recheck", "connect", "subscribe", "open", "use",
                         "done", "failed"}]
    /\ breaks \in 0 .. MaxBreaks
    /\ closings \in Nat

\* A call that found the flag set finds a multiplexer in _redis, though neither the flag nor
\* the field is read under the lock (lines 74 and 131).
UseHasMultiplexer == \A c \in Calls : pc[c] = "use" => redis # 0

\* Every multiplexer after the first is opened because the flag was cleared once more, by a
\* failed opening or by the handler of a broken connection: calls that wait for the lock
\* do not connect again.
OneConnectPerClosing == made <= closings + 1

\* However connections break, every call ends: no thread keeps the lock.
EveryCallEnds == \A c \in Calls : <>(pc[c] \in {"done", "failed"})
=============================================================================
