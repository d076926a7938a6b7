-------------------------------- MODULE Money --------------------------------
(***************************************************************************)
(* checkout/money/money.go: amounts as whole units and nanos of the same     *)
(* sign.  NanosMod stands for the 10^9 nanos of a unit.  Units are int64 and *)
(* never come near their limit; that the int32 nanos do not overflow is      *)
(* lemma NanosFit of OrderTotalProofs.                                       *)
(***************************************************************************)
EXTENDS Integers

CONSTANTS
    NanosMod,     \* nanosMod
    Currencies    \* the currency codes

ASSUME MoneyAssumption == NanosMod \in Nat /\ NanosMod > 1

Moneys == [units : Int, nanos : Int, code : Currencies]

\* The exact worth of an amount, in nanos.
Value(m) == m.units * NanosMod + m.nanos

signMatches(m) == m.nanos = 0 \/ m.units = 0 \/ (m.nanos < 0 <=> m.units < 0)

validNanos(nanos) == -NanosMod < nanos /\ nanos < NanosMod

IsValid(m) == signMatches(m) /\ validNanos(m.nanos)

\* Go's / and % truncate towards zero.
Quot(a) == IF a >= 0 THEN a \div NanosMod ELSE -((-a) \div NanosMod)
Rem(a) == a - Quot(a) * NanosMod

SumFails(l, r) == ~IsValid(l) \/ ~IsValid(r) \/ l.code # r.code

\* Mutant: the carry is not added to the units.
CarryDropped(units, nanos) == [units |-> units, nanos |-> Rem(nanos)]

Carry(units, nanos) == [units |-> units + Quot(nanos), nanos |-> Rem(nanos)]

\* Mutant: a sum without nanos is taken for one of different signs.
SameSignStrict(units, nanos) ==
    \/ units = 0 /\ nanos = 0
    \/ units > 0 /\ nanos > 0
    \/ units < 0 /\ nanos < 0

\* Line 90: the test for "same sign <units, nanos>".
SameSign(units, nanos) ==
    \/ units = 0 /\ nanos = 0
    \/ units > 0 /\ nanos >= 0
    \/ units < 0 /\ nanos <= 0

Borrow(units, nanos) ==
    IF units > 0 THEN [units |-> units - 1, nanos |-> nanos + NanosMod]
                 ELSE [units |-> units + 1, nanos |-> nanos - NanosMod]

\* What Sum returns when it does not fail.
Sum(l, r) ==
    LET units == l.units + r.units
        nanos == l.nanos + r.nanos
        s == IF SameSign(units, nanos) THEN Carry(units, nanos) ELSE Borrow(units, nanos)
    IN [units |-> s.units, nanos |-> s.nanos, code |-> l.code]
=============================================================================
