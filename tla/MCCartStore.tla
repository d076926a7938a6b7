---------------------------- MODULE MCCartStore ----------------------------
(***************************************************************************)
(* Three AddItem calls, two of them for one product with a sum beyond the    *)
(* largest quantity, one EmptyCart and one GetCart.                          *)
(***************************************************************************)
EXTENDS CartStore

CONSTANTS a1, a2, a3, p1, p2

MCProduct == [c \in {a1, a2, a3} |-> IF c = a3 THEN p2 ELSE p1]
MCQuantity == [c \in {a1, a2, a3} |-> CASE c = a1 -> 1 [] c = a2 -> 3 [] c = a3 -> 1]
=============================================================================
