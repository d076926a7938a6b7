----------------------------- MODULE MCCheckout -----------------------------
(***************************************************************************)
(* An instance of Checkout: two orders and two units of one customer, with   *)
(* one cart whose total makes Must panic.                                    *)
(***************************************************************************)
EXTENDS Checkout, TLC

CONSTANTS u1, o1, o2, x1, x2

MCCustomer == [o \in Orders |-> u1]
MCOwner == [x \in Units |-> u1]
MCAmount(S) ==
    CASE S = {} -> 0
      [] S = {x1} -> 1
      [] S = {x2} -> Panic
      [] S = {x1, x2} -> 3

\* The two orders are interchangeable; the units are not, since Amount tells them apart.
OrderSymmetry == Permutations(Orders)
=============================================================================
