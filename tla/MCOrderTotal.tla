---------------------------- MODULE MCOrderTotal ----------------------------
(***************************************************************************)
(* Orders of up to two lines in a currency of 3 nanos to the unit: amounts   *)
(* below, at and above one unit, quantities that are negative, zero and more *)
(* than one.                                                                 *)
(***************************************************************************)
EXTENDS OrderTotal

MCCosts == [units : 0 .. 1, nanos : 0 .. NanosMod - 1, code : Currencies]
MCQuantities == {-1, 0, 1, 2, 3}
=============================================================================
