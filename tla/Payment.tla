------------------------------- MODULE Payment -------------------------------
(***************************************************************************)
(* The payment service: charge (src/src/payment/charge.js), called by the  *)
(* gRPC handler chargeServiceHandler (src/src/payment/index.js).  It keeps  *)
(* no state between calls: a charge is a decision about one card.           *)
(*                                                                         *)
(* A card is [number, year, month].  What the card validator                *)
(* (simple-card-validator, external) makes of the digits is the number's    *)
(* kind: "visa", "mastercard", another brand, or "invalid".                 *)
(***************************************************************************)
EXTENDS Integers

CONSTANT Now          \* [year, month] of the service's clock, month 1..12

ASSUME NowAssumption == Now \in [year : Nat, month : 1..12]

\* The brands charge accepts.
Accepted == {"visa", "mastercard"}

\* card.getCardDetails().valid.
ValidNumber(card) == card.number # "invalid"

\* year * 12 + month, the comparison of charge; the values that come from the
\* form as text are numbers again once the protobuf writer has encoded them.
MonthsOf(d) == d.year * 12 + d.month

\* Mutant: the month of the clock counts from 0, as Date.getMonth does.
ExpiredFromZero(card) == MonthsOf(Now) - 1 > MonthsOf(card)

Expired(card) == MonthsOf(Now) > MonthsOf(card)

\* charge: the first error wins, and no error means a transaction id.  "unlucky"
\* is the draw of the paymentFailure flag, Math.random() < numberVariant.
Charge(card, unlucky) ==
  IF unlucky THEN "token"
  ELSE IF ~ValidNumber(card) THEN "invalid"
  ELSE IF card.number \notin Accepted THEN "brand"
  ELSE IF Expired(card) THEN "expired"
  ELSE "paid"

\* chargeServiceHandler: every error of charge is the error of the call.
ChargeSucceeds(card, unlucky) == Charge(card, unlucky) = "paid"

-----------------------------------------------------------------------------
\* The reference: a card is out of date after the month printed on it.
PastCalendar(card) ==
  \/ Now.year > card.year
  \/ Now.year = card.year /\ Now.month > card.month

Usable(card) == card.number \in Accepted /\ ~PastCalendar(card)
=============================================================================
