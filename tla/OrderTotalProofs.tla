-------------------------- MODULE OrderTotalProofs --------------------------
(***************************************************************************)
(* Proofs about Money's Sum and about the loops of OrderTotal, for any       *)
(* number of nanos to the unit, any costs, quantities and number of lines.   *)
(***************************************************************************)
EXTENDS OrderTotal, TLAPS

\* A well-formed amount that is not negative, and the malformed form Sum gives to an
\* amount below one unit.
Good(m) == m \in Moneys /\ m.units >= 0 /\ m.nanos >= 0 /\ m.nanos < NanosMod
Odd(m) == m \in Moneys /\ m.units = 1 /\ m.nanos < 0 /\ m.nanos > -NanosMod
-----------------------------------------------------------------------------
(* Money.                                                                   *)

\* Two operands' nanos fit an int32: 2 * 10^9 < 2^31.
LEMMA NanosFit ==
  ASSUME NEW l \in Moneys, NEW r \in Moneys, IsValid(l), IsValid(r)
  PROVE  -2 * NanosMod < l.nanos + r.nanos /\ l.nanos + r.nanos < 2 * NanosMod
  BY MoneyAssumption DEF IsValid, validNanos, Moneys

\* The quotient of nanos below two units.
LEMMA QuotOfTwo ==
  ASSUME NEW a \in Int, 0 <= a, a < 2 * NanosMod
  PROVE  Quot(a) = (IF a < NanosMod THEN 0 ELSE 1)
<1>1. CASE a < NanosMod
  <2>1. a \div NanosMod = 0
    BY <1>1, MoneyAssumption
  <2>2. QED
    BY <1>1, <2>1 DEF Quot
<1>2. CASE a >= NanosMod
  <2>1. a = 1 * NanosMod + (a - NanosMod) /\ 0 <= a - NanosMod /\ a - NanosMod < NanosMod
    BY <1>2, MoneyAssumption
  <2>2. a \div NanosMod = 1
    BY <2>1, MoneyAssumption
  <2>3. QED
    BY <1>2, <2>2, MoneyAssumption DEF Quot
<1>3. QED
  BY <1>1, <1>2, MoneyAssumption

LEMMA QuotType == ASSUME NEW a \in Int PROVE Quot(a) \in Int
  BY MoneyAssumption DEF Quot

\* Sum loses and invents nothing, whatever branch it takes and whatever its operands.
LEMMA SumExact ==
  ASSUME NEW l \in Moneys, NEW r \in Moneys
  PROVE  /\ Sum(l, r) \in Moneys
         /\ Sum(l, r).code = l.code
         /\ Value(Sum(l, r)) = Value(l) + Value(r)
<1> DEFINE u == l.units + r.units
           k == l.nanos + r.nanos
<1>0. u \in Int /\ k \in Int /\ l.code \in Currencies /\ NanosMod \in Int
  BY MoneyAssumption DEF Moneys
<1>1. Value(l) + Value(r) = u * NanosMod + k
  BY MoneyAssumption DEF Value, Moneys
<1> HIDE DEF u, k
<1>2. Carry(u, k).units \in Int /\ Carry(u, k).nanos \in Int
      /\ Carry(u, k).units * NanosMod + Carry(u, k).nanos = u * NanosMod + k
  BY <1>0, QuotType DEF Carry, Rem
<1>3. Borrow(u, k).units \in Int /\ Borrow(u, k).nanos \in Int
      /\ Borrow(u, k).units * NanosMod + Borrow(u, k).nanos = u * NanosMod + k
  BY <1>0 DEF Borrow
<1> DEFINE s == IF SameSign(u, k) THEN Carry(u, k) ELSE Borrow(u, k)
<1>4. s.units \in Int /\ s.nanos \in Int /\ s.units * NanosMod + s.nanos = u * NanosMod + k
  BY <1>2, <1>3
<1> HIDE DEF s
<1>5. Sum(l, r) = [units |-> s.units, nanos |-> s.nanos, code |-> l.code]
  BY DEF Sum, s, u, k
<1>6. QED
  BY <1>0, <1>1, <1>4, <1>5 DEF Moneys, Value

LEMMA GoodValid ==
  ASSUME NEW m
  PROVE  /\ Good(m) => IsValid(m) /\ Value(m) >= 0 /\ Value(m) \in Int
         /\ Odd(m) => ~IsValid(m) /\ BelowOne(Value(m))
<1> USE MoneyAssumption DEF Moneys
<1>1. Good(m) => IsValid(m)
  BY DEF Good, IsValid, signMatches, validNanos
<1>2. ASSUME Good(m) PROVE Value(m) >= 0 /\ Value(m) \in Int
  <2>1. m.units * NanosMod >= 0 /\ m.units * NanosMod \in Int
    BY <1>2 DEF Good
  <2>2. QED
    BY <1>2, <2>1 DEF Good, Value
<1>3. Odd(m) => ~IsValid(m) /\ BelowOne(Value(m))
  BY DEF Odd, IsValid, signMatches, Value, BelowOne
<1>4. QED
  BY <1>1, <1>2, <1>3

\* The sum of two well-formed amounts is well formed, unless it is below one unit.
LEMMA SumGood ==
  ASSUME NEW l, NEW r, Good(l), Good(r)
  PROVE  Good(Sum(l, r)) \/ Odd(Sum(l, r))
<1> DEFINE u == l.units + r.units
           k == l.nanos + r.nanos
<1>0. /\ u \in Int /\ k \in Int /\ NanosMod \in Nat
      /\ u >= 0 /\ k >= 0 /\ k < 2 * NanosMod
      /\ l \in Moneys /\ r \in Moneys
  BY MoneyAssumption DEF Good, Moneys
<1>1. Sum(l, r) \in Moneys
  BY <1>0, SumExact
<1> HIDE DEF u, k
<1>2. CASE SameSign(u, k)
  <2>1. Quot(k) = (IF k < NanosMod THEN 0 ELSE 1)
    BY <1>0, QuotOfTwo
  <2>2. Quot(k) \in {0, 1} /\ Rem(k) >= 0 /\ Rem(k) < NanosMod
    BY <1>0, <2>1 DEF Rem
  <2>3. Sum(l, r).units = u + Quot(k) /\ Sum(l, r).nanos = Rem(k)
    BY <1>2 DEF Sum, Carry, u, k
  <2>4. QED
    BY <1>0, <1>1, <2>2, <2>3 DEF Good
<1>3. CASE ~SameSign(u, k)
  <2>1. u = 0 /\ k > 0
    BY <1>0, <1>3 DEF SameSign
  <2>2. Sum(l, r).units = 1 /\ Sum(l, r).nanos = k - NanosMod
    <3>1. Borrow(u, k) = [units |-> 1, nanos |-> k - NanosMod]
      BY <2>1 DEF Borrow
    <3>2. QED
      BY <1>3, <3>1 DEF Sum, u, k
  <2>3. QED
    BY <1>0, <1>1, <2>1, <2>2 DEF Good, Odd
<1>4. QED
  BY <1>2, <1>3
-----------------------------------------------------------------------------
(* The loops.                                                               *)

Cost(k) == lines[k].cost

\* The amounts and quantities of an order.
LinesOK ==
    /\ Good(shipping)
    /\ shipping.units > 0 \/ Value(shipping) = 0
    /\ Len(lines) \in Nat
    /\ \A k \in 1 .. Len(lines) :
         /\ Good(Cost(k))
         /\ Cost(k).code = shipping.code
         /\ lines[k].quantity \in Int

\* The control state and the variables that go with it.
ControlOK ==
    /\ pc \in {"add", "next", "multiply", "done", "panic"}
    /\ i \in 0 .. Len(lines)
    /\ pc = "next" => i < Len(lines)
    /\ pc = "multiply" => i > 0
    /\ n \in 0 .. 2 ^ Width - 1

\* What the amounts are worth.
WorthOK ==
    /\ due \in Int
    /\ pc = "add" /\ i = 0 =>
         total = Zero(shipping.code) /\ out = shipping /\ due = Value(shipping)
    /\ pc = "add" => Value(total) + Value(out) = due
    /\ pc = "multiply" => Value(total) + Value(out) + (Times(n) - 1) * Value(Cost(i)) = due
    /\ pc \in {"next", "done"} => Value(total) = due

\* Which amounts can be malformed, and why.
FormOK ==
    /\ Good(total) \/ Odd(total)
    /\ Good(out) \/ Odd(out)
    /\ total.code = shipping.code /\ out.code = shipping.code
    /\ ~(pc = "add" /\ i = 0) /\ pc # "panic" => Value(total) >= Value(shipping)
    /\ i = 0 => out = shipping
    /\ i > 0 => /\ out = Cost(i) \/ Value(out) >= 2 * Value(Cost(i))
                /\ Value(Cost(i)) = 0 => Value(out) = 0
    /\ pc = "panic" => Odd(out) \/ (Odd(total) /\ Value(total) >= Value(shipping))

IInv == LinesOK /\ ControlOK /\ WorthOK /\ FormOK

LEMMA LinesAreSeq ==
  ASSUME NEW s \in Lines
  PROVE  /\ Len(s) \in Nat
         /\ \A k \in 1 .. Len(s) : s[k] \in [cost : Costs, quantity : Quantities]
<1>1. PICK k \in 0 .. MaxLines : s \in [1 .. k -> [cost : Costs, quantity : Quantities]]
  BY DEF Lines
<1>2. k \in Nat
  BY OrderTotalAssumption
<1>3. Len(s) = k
  BY <1>1, <1>2
<1>4. QED
  BY <1>1, <1>2, <1>3

LEMMA CostsAreGood ==
  ASSUME NEW m \in Costs
  PROVE  Good(m) /\ \A l \in Costs : l.code = m.code
  BY OrderTotalAssumption, MoneyAssumption DEF Good, IsValid, validNanos

LEMMA InitIInv == Init => IInv
<1> SUFFICES ASSUME Init PROVE IInv
  OBVIOUS
<1> USE OrderTotalAssumption, MoneyAssumption
<1>1. LinesOK
  <2>1. Good(shipping) /\ (shipping.units > 0 \/ Value(shipping) = 0)
    BY CostsAreGood DEF Init, Quoted, Free
  <2>2. \A k \in 1 .. Len(lines) :
          Good(Cost(k)) /\ Cost(k).code = shipping.code /\ lines[k].quantity \in Int
    BY LinesAreSeq, CostsAreGood DEF Init, Cost
  <2>3. QED
    BY <2>1, <2>2, LinesAreSeq DEF Init, LinesOK
<1>2. ControlOK
  BY LinesAreSeq DEF Init, ControlOK
<1>3. shipping.code \in Currencies /\ Value(shipping) \in Int
  BY <1>1, GoodValid DEF LinesOK, Good, Moneys
<1>4. Good(Zero(shipping.code)) /\ Value(Zero(shipping.code)) = 0
  BY <1>3 DEF Zero, Good, Moneys, Value
<1>5. WorthOK
  BY <1>3, <1>4 DEF Init, WorthOK
<1>6. FormOK
  BY <1>1, <1>4 DEF Init, FormOK, LinesOK, Zero
<1>7. QED
  BY <1>1, <1>2, <1>5, <1>6 DEF IInv

\* In a step that leaves the order alone, its lines stay as they are.
LEMMA LinesFrame == ASSUME LinesOK, UNCHANGED <<lines, shipping>> PROVE LinesOK'
  BY DEF LinesOK, Good, Value, Cost

\* A Sum in the loops fails only on a malformed operand: the currencies agree.
LEMMA AddIInv == ASSUME IInv, Add PROVE IInv'
<1>0. LinesOK /\ ControlOK /\ WorthOK /\ FormOK /\ LinesOK'
  BY LinesFrame DEF IInv, Add
<1>1. pc = "add" /\ UNCHANGED <<lines, shipping, i, out, n, due>>
  BY DEF Add
<1>2. Good(shipping) /\ Value(shipping) \in Int /\ Value(shipping) >= 0
  BY <1>0, GoodValid DEF LinesOK
<1>3. CASE SumFails(total, out)
  <2>1. pc' = "panic" /\ total' = total
    BY <1>3 DEF Add
  <2>2. Odd(total) \/ Odd(out)
    BY <1>0, <1>3, GoodValid DEF FormOK, SumFails
  <2>3. i # 0
    <3>1. i = 0 => Good(total) /\ Good(out) /\ ~Odd(total) /\ ~Odd(out)
      <4>1. i = 0 => total = Zero(shipping.code) /\ out = shipping
        BY <1>0, <1>1 DEF WorthOK
      <4>2. Zero(shipping.code).nanos = 0
        BY DEF Zero
      <4>3. i = 0 => ~Odd(total) /\ ~Odd(out)
        BY <1>2, <4>1, <4>2 DEF Good, Odd, Moneys
      <4>4. QED
        BY <1>0, <4>3 DEF FormOK
    <3>2. QED
      BY <2>2, <3>1
  <2>4. ControlOK'
    BY <1>0, <1>1, <2>1 DEF ControlOK
  <2>5. WorthOK'
    BY <1>0, <1>1, <2>1 DEF WorthOK
  <2>6. FormOK'
    BY <1>0, <1>1, <2>1, <2>2, <2>3 DEF FormOK, Good, Odd, Value, Cost
  <2>7. QED
    BY <1>0, <2>4, <2>5, <2>6 DEF IInv
<1>4. CASE ~SumFails(total, out)
  <2>1. total' = Sum(total, out) /\ pc' = IF i = Len(lines) THEN "done" ELSE "next"
    BY <1>4 DEF Add
  <2>2. Good(total) /\ Good(out)
    BY <1>0, <1>4, GoodValid DEF FormOK, SumFails
  <2>3. Value(total)' = Value(total) + Value(out) /\ total'.code = total.code
    BY <2>1, <2>2, SumExact DEF Good, Value
  <2>4. Good(total)' \/ Odd(total)'
    BY <2>1, <2>2, SumGood DEF Good, Odd
  <2>5. /\ Value(total) \in Int /\ Value(total) >= 0
        /\ Value(out) \in Int /\ Value(out) >= 0
    BY <2>2, GoodValid
  <2>6. Value(total)' = due
    BY <1>0, <1>1, <2>3 DEF WorthOK
  <2>7. Value(total)' >= Value(shipping)
    BY <1>0, <1>1, <1>2, <2>3, <2>5, <2>6 DEF WorthOK, FormOK
  <2>8. ControlOK'
    BY <1>0, <1>1, <2>1 DEF ControlOK
  <2>9. WorthOK'
    BY <1>0, <1>1, <2>1, <2>6 DEF WorthOK
  <2>10. UNCHANGED <<Value(shipping), Value(out)>> /\ \A k : UNCHANGED Cost(k) /\ Value(Cost(k))' = Value(Cost(k))
    BY <1>1 DEF Value, Cost
  <2>11. FormOK'
    BY <1>0, <1>1, <2>1, <2>3, <2>4, <2>7, <2>10 DEF FormOK, Good, Odd
  <2>12. QED
    BY <1>0, <2>8, <2>9, <2>11 DEF IInv
<1>5. QED
  BY <1>3, <1>4

LEMMA NextLineIInv == ASSUME IInv, NextLine PROVE IInv'
<1>0. LinesOK /\ ControlOK /\ WorthOK /\ FormOK /\ LinesOK'
  BY LinesFrame DEF IInv, NextLine
<1> DEFINE k == ToUint32(lines[i + 1].quantity)
           m == Cost(i + 1)
<1>1. /\ pc = "next" /\ pc' = "multiply" /\ i' = i + 1 /\ out' = m /\ n' = k
      /\ due' = due + Times(k) * Value(m) /\ UNCHANGED <<lines, shipping, total>>
  BY DEF NextLine, Cost
<1>2. i + 1 \in 1 .. Len(lines)
  BY <1>0, <1>1 DEF ControlOK, LinesOK
<1>3. Good(m) /\ m.code = shipping.code /\ Value(m) \in Int
  BY <1>0, <1>2, GoodValid DEF LinesOK
<1>4. k \in 0 .. 2 ^ Width - 1
  BY <1>0, <1>2, OrderTotalAssumption DEF LinesOK, ToUint32
<1>5. Times(k) \in Int
  BY <1>4, OrderTotalAssumption DEF Times
<1> HIDE DEF k, m
<1>6. ControlOK'
  BY <1>0, <1>1, <1>2, <1>4 DEF ControlOK
<1>7. Cost(i)' = m /\ Value(out)' = Value(m) /\ Value(total)' = Value(total)
      /\ Value(shipping)' = Value(shipping) /\ Value(Cost(i))' = Value(m)
  BY <1>1 DEF Cost, m, Value
<1>8. WorthOK'
  <2>1. Value(total) = due /\ due \in Int
    BY <1>0, <1>1 DEF WorthOK
  <2>2. Value(m) + (Times(k) - 1) * Value(m) = Times(k) * Value(m)
    BY <1>3, <1>5
  <2>3. Times(k) * Value(m) \in Int /\ (Times(k) - 1) * Value(m) \in Int
    BY <1>3, <1>5
  <2>4. Value(total) + Value(m) + (Times(k) - 1) * Value(m) = due + Times(k) * Value(m)
    BY <1>3, <2>1, <2>2, <2>3
  <2>5. Times(n)' = Times(k)
    BY <1>1 DEF Times
  <2>6. QED
    BY <1>1, <1>7, <2>1, <2>3, <2>4, <2>5 DEF WorthOK
<1>9. FormOK'
  <2>1. i' # 0
    BY <1>0, <1>1 DEF ControlOK, LinesOK
  <2>2. QED
    BY <1>0, <1>1, <1>3, <1>7, <2>1 DEF FormOK, Good, Odd
<1>10. QED
  BY <1>0, <1>6, <1>8, <1>9 DEF IInv

LEMMA MultiplyIInv == ASSUME IInv, Multiply PROVE IInv'
<1>0. LinesOK /\ ControlOK /\ WorthOK /\ FormOK /\ LinesOK'
  BY LinesFrame DEF IInv, Multiply
<1> DEFINE m == Cost(i)
<1>1. pc = "multiply" /\ UNCHANGED <<lines, shipping, i, total, due>>
  BY DEF Multiply
<1>2. i \in 1 .. Len(lines) /\ n \in Nat
  BY <1>0, <1>1, OrderTotalAssumption DEF ControlOK, LinesOK
<1>3. Good(m) /\ m.code = shipping.code /\ Value(m) \in Int /\ Value(m) >= 0
  BY <1>0, <1>2, GoodValid DEF LinesOK
<1> HIDE DEF m
<1>4. Cost(i)' = m /\ Cost(i) = m /\ Value(Cost(i))' = Value(m) /\ Value(total)' = Value(total)
      /\ Value(shipping)' = Value(shipping)
  BY <1>1 DEF Cost, m, Value
<1>5. CASE n <= 1
  <2>1. pc' = "add" /\ out' = out /\ n' = n
    BY <1>2, <1>5 DEF Multiply
  <2>2. ControlOK'
    BY <1>0, <1>1, <2>1 DEF ControlOK
  <2>3. Times(n) = 1 /\ Value(out)' = Value(out)
    BY <1>2, <1>5, <2>1 DEF Times, Value
  <2>4. 0 * Value(m) = 0
    BY <1>3
  <2>5. Value(total) \in Int /\ Value(out) \in Int
    BY <1>0, MoneyAssumption DEF FormOK, Good, Odd, Moneys, Value
  <2>6. Value(total) + Value(out) = due
    BY <1>0, <1>1, <1>4, <2>3, <2>4, <2>5 DEF WorthOK
  <2>7. WorthOK'
    BY <1>0, <1>1, <1>2, <1>4, <2>1, <2>3, <2>6 DEF WorthOK
  <2>8. FormOK'
    BY <1>0, <1>1, <1>2, <1>4, <2>1, <2>3 DEF FormOK, Good, Odd
  <2>9. QED
    BY <1>0, <2>2, <2>7, <2>8 DEF IInv
<1>6. CASE n > 1 /\ SumFails(out, m)
  <2>1. pc' = "panic" /\ out' = out /\ n' = n
    BY <1>4, <1>6 DEF Multiply, Cost
  <2>2. Odd(out)
    BY <1>0, <1>3, <1>6, GoodValid DEF FormOK, SumFails
  <2>3. Value(out)' = Value(out)
    BY <2>1 DEF Value
  <2>4. ControlOK'
    BY <1>0, <1>1, <2>1 DEF ControlOK
  <2>5. WorthOK'
    BY <1>0, <1>1, <2>1 DEF WorthOK
  <2>6. FormOK'
    BY <1>0, <1>1, <1>2, <1>4, <2>1, <2>2, <2>3 DEF FormOK, Good, Odd
  <2>7. QED
    BY <1>0, <2>4, <2>5, <2>6 DEF IInv
<1>7. CASE n > 1 /\ ~SumFails(out, m)
  <2>1. pc' = pc /\ out' = Sum(out, m) /\ n' = n - 1
    BY <1>4, <1>7 DEF Multiply, Cost
  <2>2. Good(out)
    BY <1>0, <1>7, GoodValid DEF FormOK, SumFails
  <2>3. Value(out)' = Value(out) + Value(m) /\ out'.code = out.code
    BY <1>3, <2>1, <2>2, SumExact DEF Good, Value
  <2>4. Good(out)' \/ Odd(out)'
    BY <1>3, <2>1, <2>2, SumGood DEF Good, Odd
  <2>5. Value(out) \in Int /\ Value(out) >= 0
    BY <2>2, GoodValid
  <2>6. ControlOK'
    <3>1. n - 1 \in 0 .. 2 ^ Width - 1
      BY <1>0, <1>7, OrderTotalAssumption DEF ControlOK
    <3>2. QED
      BY <1>0, <1>1, <2>1, <3>1 DEF ControlOK
  <2>7. WorthOK'
    <3>1. Times(n) = n /\ Times(n)' = n - 1
      BY <1>2, <1>7, <2>1 DEF Times
    <3>2. Value(m) + (n - 2) * Value(m) = (n - 1) * Value(m)
      BY <1>2, <1>3
    <3>3. (n - 2) * Value(m) \in Int /\ (n - 1) * Value(m) \in Int
      BY <1>2, <1>3
    <3>4. Value(total) + Value(out) + (n - 1) * Value(m) = due
      BY <1>0, <1>1, <1>4, <3>1 DEF WorthOK
    <3>5. Value(total) \in Int
      BY <1>0, MoneyAssumption DEF FormOK, Good, Odd, Moneys, Value
    <3>6. Value(total) + (Value(out) + Value(m)) + (n - 2) * Value(m) = due
      BY <1>3, <2>5, <3>2, <3>3, <3>4, <3>5
    <3>7. n - 1 - 1 = n - 2
      BY <1>2
    <3>8. QED
      BY <1>0, <1>1, <1>4, <2>1, <2>3, <3>1, <3>6, <3>7 DEF WorthOK
  <2>8. Value(out)' >= 2 * Value(m) /\ (Value(m) = 0 => Value(out)' = 0)
    BY <1>0, <1>2, <1>3, <1>4, <2>3, <2>5 DEF FormOK
  <2>9. FormOK'
    BY <1>0, <1>1, <1>2, <1>4, <2>1, <2>3, <2>4, <2>8 DEF FormOK, Good, Odd
  <2>10. QED
    BY <1>0, <2>6, <2>7, <2>9 DEF IInv
<1>8. QED
  BY <1>2, <1>5, <1>6, <1>7

LEMMA StutterIInv == ASSUME IInv, UNCHANGED vars PROVE IInv'
<1>1. UNCHANGED <<lines, shipping, pc, i, out, n, total, due>>
  BY DEF vars
<1>2. LinesOK'
  BY <1>1, LinesFrame DEF IInv
<1>3. ControlOK' /\ WorthOK' /\ FormOK'
  BY <1>1 DEF IInv, ControlOK, WorthOK, FormOK, Good, Odd, Value, Cost, Times
<1>4. QED
  BY <1>2, <1>3 DEF IInv

LEMMA LoopInvariant == Spec => []IInv
<1>1. IInv /\ [Next]_vars => IInv'
  BY AddIInv, NextLineIInv, MultiplyIInv, StutterIInv DEF Next, Ended
<1>2. QED
  BY <1>1, InitIInv, PTL DEF Spec

\* The order stays as it was read.
InputsOK == lines \in Lines /\ shipping \in Costs

\* The type invariant.  The nanos of every amount stay below a unit, so that Sum never
\* meets a number of nanos that an int32 cannot hold; n stays an unsigned number.
THEOREM TypeCorrect == Spec => []TypeOK
<1>1. Init => InputsOK
  BY DEF Init, InputsOK
<1>2. InputsOK /\ [Next]_vars => InputsOK'
  BY DEF InputsOK, Next, Add, NextLine, Multiply, Ended, vars
<1>3. Spec => []InputsOK
  BY <1>1, <1>2, PTL DEF Spec
<1>4. InputsOK /\ IInv => TypeOK
  <2> SUFFICES ASSUME InputsOK, IInv PROVE TypeOK
    OBVIOUS
  <2>1. ASSUME NEW m, Good(m) \/ Odd(m) PROVE m \in Moneys /\ validNanos(m.nanos)
    BY <2>1, MoneyAssumption DEF Good, Odd, validNanos, Moneys
  <2>2. QED
    BY <2>1 DEF TypeOK, InputsOK, IInv, ControlOK, WorthOK, FormOK
<1>5. QED
  BY <1>3, <1>4, LoopInvariant, PTL

\* The amount charged is worth exactly shipping plus quantity times cost of every line.
THEOREM TotalsAreExact == Spec => []TotalExact
<1>1. IInv => TotalExact
  BY DEF IInv, WorthOK, TotalExact
<1>2. QED
  BY <1>1, LoopInvariant, PTL

\* A panic is due to a line two of which cost less than one unit, or to free shipping
\* with lines worth less than one unit.
THEOREM PanicsHaveACause == Spec => []PanicHasACause
<1>1. IInv => PanicHasACause
  <2> SUFFICES ASSUME IInv PROVE PanicHasACause
    OBVIOUS
  <2>1. ASSUME pc = "panic", Odd(out)
        PROVE  i > 0 /\ BelowOne(2 * Value(Cost(i)))
    <3>1. BelowOne(Value(out))
      BY <2>1, GoodValid
    <3>2. i \in 0 .. Len(lines) /\ Len(lines) \in Nat
      BY DEF IInv, ControlOK, LinesOK
    <3>3. i > 0
      <4>1. ~Odd(shipping)
        BY GoodValid DEF IInv, LinesOK
      <4>2. QED
        BY <2>1, <3>2, <4>1 DEF IInv, FormOK
    <3>4. Good(Cost(i)) /\ Value(Cost(i)) \in Int /\ Value(Cost(i)) >= 0
      BY <3>2, <3>3, GoodValid DEF IInv, LinesOK
    <3>5. out # Cost(i)
      BY <2>1, <3>4, GoodValid
    <3>6. Value(out) >= 2 * Value(Cost(i)) /\ (Value(Cost(i)) = 0 => Value(out) = 0)
      BY <3>3, <3>5 DEF IInv, FormOK
    <3>7. Value(out) \in Int
      BY <2>1, MoneyAssumption DEF Odd, Moneys, Value
    <3>8. QED
      BY <3>1, <3>3, <3>4, <3>6, <3>7, MoneyAssumption DEF BelowOne
  <2>2. ASSUME Odd(total), Value(total) >= Value(shipping)
        PROVE  Value(shipping) = 0 /\ BelowOne(Value(total))
    <3>1. BelowOne(Value(total))
      BY <2>2, GoodValid
    <3>2. Good(shipping) /\ (shipping.units > 0 \/ Value(shipping) = 0)
      BY DEF IInv, LinesOK
    <3>3. shipping.units > 0 => Value(shipping) >= NanosMod
      <4>1. ASSUME shipping.units > 0 PROVE shipping.units * NanosMod >= NanosMod
        BY <3>2, <4>1, MoneyAssumption DEF Good, Moneys
      <4>2. QED
        BY <3>2, <4>1, MoneyAssumption DEF Good, Moneys, Value
    <3>4. Value(total) \in Int /\ Value(shipping) \in Int
      BY <2>2, <3>2, MoneyAssumption DEF Good, Odd, Moneys, Value
    <3>5. QED
      BY <2>2, <3>1, <3>2, <3>3, <3>4, MoneyAssumption DEF BelowOne
  <2>3. pc = "done" /\ ~IsValid(total) => BelowOne(Value(total))
    BY GoodValid DEF IInv, FormOK
  <2>4. pc = "panic" => Odd(out) \/ (Odd(total) /\ Value(total) >= Value(shipping))
    BY DEF IInv, FormOK
  <2>5. QED
    BY <2>1, <2>2, <2>3, <2>4 DEF PanicHasACause, Cost
<1>2. QED
  BY <1>1, LoopInvariant, PTL
=============================================================================
