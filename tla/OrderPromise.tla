---------------------------- MODULE OrderPromise ----------------------------
(***************************************************************************)
(* What PlaceOrder promises about the customer's money and parcel, with no  *)
(* carts, calls or queues: a card is charged at most once per order, a       *)
(* parcel leaves only for a charged order, and the status the caller gets    *)
(* says what may have happened and what may still happen: nothing is asked   *)
(* for after the answer, but what was asked for before it may come later.    *)
(* Checkout implements this specification.                                   *)
(***************************************************************************)
CONSTANT Orders

VARIABLES card,    \* card[o]: has the order's amount been charged?
          parcel,  \* parcel[o]: has the order's parcel been sent?
          asked,   \* asked[o]: what has been asked for and not come yet
          answer   \* answer[o]: what PlaceOrder returned for the order

pvars == <<card, parcel, asked, answer>>

Init ==
    /\ card = [o \in Orders |-> "untouched"]
    /\ parcel = [o \in Orders |-> "none"]
    /\ asked = [o \in Orders |-> "nothing"]
    /\ answer = [o \in Orders |-> "none"]

Open(o) == answer[o] = "none"

AskCharge(o) ==
    /\ Open(o)
    /\ asked[o] = "nothing"
    /\ card[o] = "untouched"
    /\ asked' = [asked EXCEPT ![o] = "charge"]
    /\ UNCHANGED <<card, parcel, answer>>

AskParcel(o) ==
    /\ Open(o)
    /\ asked[o] = "nothing"
    /\ card[o] = "charged"
    /\ parcel[o] = "none"
    /\ asked' = [asked EXCEPT ![o] = "parcel"]
    /\ UNCHANGED <<card, parcel, answer>>

\* What was asked for comes at any time, before or after the answer, or never.
Charge(o) ==
    /\ asked[o] = "charge"
    /\ card' = [card EXCEPT ![o] = "charged"]
    /\ asked' = [asked EXCEPT ![o] = "nothing"]
    /\ UNCHANGED <<parcel, answer>>

Send(o) ==
    /\ asked[o] = "parcel"
    /\ parcel' = [parcel EXCEPT ![o] = "sent"]
    /\ asked' = [asked EXCEPT ![o] = "nothing"]
    /\ UNCHANGED <<card, answer>>

Miss(o) ==
    /\ asked[o] # "nothing"
    /\ asked' = [asked EXCEPT ![o] = "nothing"]
    /\ UNCHANGED <<card, parcel, answer>>

Answer(o, status) ==
    /\ Open(o)
    /\ answer' = [answer EXCEPT ![o] = status]
    /\ UNCHANGED <<card, parcel, asked>>

\* Success is reported only for a charged order whose parcel has left.
Place(o) == card[o] = "charged" /\ parcel[o] = "sent" /\ Answer(o, "placed")

\* codes.Internal is never reported once a parcel was asked for; the card may be charged,
\* before or after it.
FailInternal(o) == parcel[o] = "none" /\ asked[o] # "parcel" /\ Answer(o, "internal")

\* codes.Unavailable is reported only once the card is charged; the parcel may leave.
FailUnavailable(o) == card[o] = "charged" /\ Answer(o, "unavailable")

\* The process dies: every open order of S is left as it is, for good.
Lose(S) ==
    /\ \A o \in S : Open(o)
    /\ answer' = [o \in Orders |-> IF o \in S THEN "crashed" ELSE answer[o]]
    /\ UNCHANGED <<card, parcel, asked>>

Next ==
    \/ \E S \in SUBSET Orders : Lose(S)
    \/ \E o \in Orders :
         \/ AskCharge(o) \/ AskParcel(o) \/ Charge(o) \/ Send(o) \/ Miss(o)
         \/ Place(o) \/ FailInternal(o) \/ FailUnavailable(o)

Spec == Init /\ [][Next]_pvars
=============================================================================
