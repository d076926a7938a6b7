---------------------------- MODULE KafkaProducer ----------------------------
(***************************************************************************)
(* checkout: sendToPostProcessor (main.go, 492-557) in the handlers of       *)
(* several orders, the goroutines of flag kafkaQueueProblems and the         *)
(* goroutine of producer.go that logs errors, all on the Input, Successes    *)
(* and Errors channels of one sarama producer.                               *)
(*                                                                           *)
(* The producer is external: it accepts a message while it has room for it,  *)
(* and offers one response for each accepted message on one of the channels  *)
(* until somebody takes it.  With RequiredAcks = NoResponse a success says   *)
(* that the message was sent, not that it was written.                       *)
(***************************************************************************)
EXTENDS Naturals, FiniteSets

CONSTANTS
    Orders,
    Overload,   \* the value of flag kafkaQueueProblems when it is on
    Buffer,     \* the messages and responses the producer can hold
    None

\* <<o, 0>> is o's message, <<o, k>> with k > 0 its k-th copy, each with its sender.
Copies == Orders \X (1 .. Overload)
Senders == Orders \X (0 .. Overload)
Main(o) == <<o, 0>>

ASSUME KafkaProducerAssumption ==
    IsFiniteSet(Orders) /\ Overload \in Nat /\ Buffer \in Nat \ {0} /\ None \notin Senders

VARIABLES
    pc,        \* pc[s]: the step of handler <<o, 0>> or of goroutine <<o, k>>
    live,      \* the orders whose context is not done
    accepted,  \* the messages the producer has taken and not answered
    offered,   \* the responses on the channels: <<"ok" or "error", message>>
    got,       \* got[o]: the message whose response o's handler took
    drained    \* the messages whose error the background goroutine logged

\* History: the orders whose handler left its wait without a response.
VARIABLE gaveUp

vars == <<pc, live, accepted, offered, got, drained, gaveUp>>

Init ==
    /\ pc = [s \in Senders |-> IF s[2] = 0 THEN "send" ELSE "off"]
    /\ live = Orders
    /\ accepted = {}
    /\ offered = {}
    /\ got = [o \in Orders |-> None]
    /\ drained = {}
    /\ gaveUp = {}

Goto(s, step) == pc' = [pc EXCEPT ![s] = step]

\* Mutant: off by one.
RoomForOneMore == Cardinality(accepted) + Cardinality(offered) <= Buffer

Room == Cardinality(accepted) + Cardinality(offered) < Buffer

\* Input() <- &msg, by a handler or a goroutine.
Send(s) ==
    /\ pc[s] = "send"
    /\ Room
    /\ accepted' = accepted \cup {s}
    /\ Goto(s, "wait")
    /\ UNCHANGED <<live, offered, got, drained, gaveUp>>

\* Line 536: the context is done before the producer takes the message; nothing more is sent.
SendCancelled(o) ==
    /\ pc[Main(o)] = "send"
    /\ o \notin live
    /\ Goto(Main(o), "done")
    /\ UNCHANGED <<live, accepted, offered, got, drained, gaveUp>>

\* Mutant: the handler drops responses that are not its own and goes on waiting.
TakeUntilOwn(o) ==
    /\ pc[Main(o)] = "wait"
    /\ \E r \in offered :
         /\ offered' = offered \ {r}
         /\ got' = [got EXCEPT ![o] = r[2]]
         /\ Goto(Main(o), IF r[2] = Main(o) THEN "flag" ELSE "wait")
    /\ UNCHANGED <<live, accepted, drained, gaveUp>>

\* Lines 514 and 521: the handler takes whatever response is offered, success or error.
Take(o) ==
    /\ pc[Main(o)] = "wait"
    /\ \E r \in offered :
         /\ offered' = offered \ {r}
         /\ got' = [got EXCEPT ![o] = r[2]]
    /\ Goto(Main(o), "flag")
    /\ UNCHANGED <<live, accepted, drained, gaveUp>>

\* Mutant: the wait for a response does not watch the context.
WaitCancelledNever(o) == FALSE /\ UNCHANGED vars

\* Line 528: the context is done first; the response stays for somebody else.
WaitCancelled(o) ==
    /\ pc[Main(o)] = "wait"
    /\ o \notin live
    /\ Goto(Main(o), "flag")
    /\ gaveUp' = gaveUp \cup {o}
    /\ UNCHANGED <<live, accepted, offered, got, drained>>

\* Lines 546-555: with the flag on, goroutines send the message again and again.
StartCopies(o) ==
    /\ pc[Main(o)] = "flag"
    /\ \/ Goto(Main(o), "done")
       \/ pc' = [s \in Senders |->
                   IF s = Main(o) THEN "done" ELSE IF s[1] = o THEN "send" ELSE pc[s]]
    /\ UNCHANGED <<live, accepted, offered, got, drained, gaveUp>>

\* Mutant: a goroutine does not wait for its response.
CopyLeaves(s) ==
    /\ pc[s] = "wait"
    /\ Goto(s, "done")
    /\ UNCHANGED <<live, accepted, offered, got, drained, gaveUp>>

\* Line 552: a goroutine waits for a success, and for nothing else.
TakeCopy(s) ==
    /\ pc[s] = "wait"
    /\ \E m \in Senders :
         /\ <<"ok", m>> \in offered
         /\ offered' = offered \ {<<"ok", m>>}
    /\ Goto(s, "done")
    /\ UNCHANGED <<live, accepted, got, drained, gaveUp>>

\* producer.go, lines 37-41: the background goroutine takes any error.
Drain ==
    /\ \E m \in Senders :
         /\ <<"error", m>> \in offered
         /\ offered' = offered \ {<<"error", m>>}
         /\ drained' = drained \cup {m}
    /\ UNCHANGED <<pc, live, accepted, got, gaveUp>>

\* The producer answers a message.
Respond ==
    /\ \E m \in accepted, kind \in {"ok", "error"} :
         /\ accepted' = accepted \ {m}
         /\ offered' = offered \cup {<<kind, m>>}
    /\ UNCHANGED <<pc, live, got, drained, gaveUp>>

\* The caller of PlaceOrder goes away.
Cancel(o) ==
    /\ o \in live
    /\ live' = live \ {o}
    /\ UNCHANGED <<pc, accepted, offered, got, drained, gaveUp>>

Handler(o) ==
    Send(Main(o)) \/ SendCancelled(o) \/ Take(o) \/ WaitCancelled(o) \/ StartCopies(o)

Goroutine(s) == Send(s) \/ TakeCopy(s)

Next ==
    \/ \E o \in Orders : Handler(o) \/ Cancel(o)
    \/ \E s \in Copies : Goroutine(s)
    \/ Drain
    \/ Respond

\* Goroutines run when they can, and the producer answers what it has accepted.  No caller
\* has to go away.
Fairness ==
    /\ \A o \in Orders : WF_vars(Handler(o))
    /\ \A s \in Copies : WF_vars(Goroutine(s))
    /\ WF_vars(Drain)
    /\ WF_vars(Respond)

Spec == Init /\ [][Next]_vars /\ Fairness
-----------------------------------------------------------------------------
(* Properties.                                                              *)

Waiting == {s \in Senders : pc[s] = "wait"}

\* Type invariant; the producer never holds more than it has room for.
TypeOK ==
    /\ pc \in [Senders -> {"off", "send", "wait", "flag", "done"}]
    /\ live \subseteq Orders
    /\ accepted \subseteq Senders
    /\ offered \subseteq {"ok", "error"} \X Senders
    /\ got \in [Orders -> Senders \cup {None}]
    /\ drained \subseteq Senders
    /\ gaveUp \subseteq Orders
    /\ Cardinality(accepted) + Cardinality(offered) <= Buffer

\* As long as no error was drained behind their backs, there are at least as many responses
\* on their way as handlers and goroutines waiting for one.  (Each wait takes any response,
\* so a drained error leaves somebody waiting: the handler of another order perhaps.)
\* Those that wait for room in the producer are not counted.
StuckHasACause ==
    Cardinality(Waiting) <=
        Cardinality(accepted) + Cardinality(offered) + Cardinality(drained)

\* Every place taken in the producer is matched by a handler or a goroutine waiting for a
\* response, or by a handler that gave up its wait (line 528).  Only such a handler can
\* leave behind a response that nobody waits for, which takes a place from every later
\* order: copies, errors and responses taken by somebody else leave none.
LeftoverHasACause ==
    Cardinality(accepted) + Cardinality(offered) <= Cardinality(Waiting) + Cardinality(gaveUp)

\* A handler whose context is done ends, whatever the producer does.
CancelledHandlerEnds == \A o \in Orders : o \notin live ~> pc[Main(o)] = "done"

\* If no message fails and no caller goes away, every handler and every goroutine ends,
\* however small the producer's buffer.
HealthyProducerServesAll ==
    [](live = Orders /\ \A m \in Senders : <<"error", m>> \notin offered)
        => <>(\A s \in Senders : pc[s] \in {"off", "done"})

\* producer.go, line 28: the response a handler waits for tells the partition and offset of
\* its message.  It may be the response to another order's message, or to a copy.
OwnResponse == \A o \in Orders : got[o] \in {None, Main(o)}
=============================================================================
