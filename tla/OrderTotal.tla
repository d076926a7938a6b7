----------------------------- MODULE OrderTotal -----------------------------
(***************************************************************************)
(* checkout/main.go, lines 268-275: the amount PlaceOrder charges, with the  *)
(* loop of MultiplySlow inside the loop over the order's lines.  Must turns  *)
(* every failing Sum into a panic, which ends the process (see Checkout).    *)
(*                                                                           *)
(* The costs and the shipping cost are what the currency service's Convert   *)
(* returns: valid, not negative, in the user's currency.                     *)
(***************************************************************************)
EXTENDS Money, Sequences, Functions

CONSTANTS
    Costs,        \* the prices and shipping costs Convert may return
    Quantities,   \* the int32 quantities of cart items
    MaxLines,     \* the most lines an order has
    Width         \* the bits of uint32

ASSUME OrderTotalAssumption ==
    /\ Costs \subseteq {m \in Moneys : IsValid(m) /\ m.units >= 0 /\ m.nanos >= 0}
    /\ \A l, r \in Costs : l.code = r.code
    /\ Quantities \subseteq Int
    /\ MaxLines \in Nat
    /\ Width \in Nat /\ 2 ^ Width \in Nat \ {0}

VARIABLES
    lines,      \* prep.orderItems
    shipping,   \* prep.shippingCostLocalized
    pc,         \* "add" to the total, "multiply" a line, "done" or "panic"
    i,          \* the lines taken so far
    out,        \* the summand: shipping first, then MultiplySlow's out
    n,          \* MultiplySlow's n: additions of the line's cost to go, plus one
    total

\* History: the exact price, in nanos, of the shipping and the first i lines.
VARIABLE due

vars == <<lines, shipping, pc, i, out, n, total, due>>

Lines == UNION {[1 .. k -> [cost : Costs, quantity : Quantities]] : k \in 0 .. MaxLines}

Zero(code) == [units |-> 0, nanos |-> 0, code |-> code]

\* shipping_service.rs, line 68: the number of items shipping is quoted for, a wrapping u32.
ItemCount == FoldFunction(LAMBDA line, count : (count + line.quantity) % 2 ^ Width, 0, lines)

\* server.cpp, lines 199-203: the rate of a currency that is not in the table is 0.
Free ==
    Value(shipping) = 0 /\ \A k \in DOMAIN lines : Value(lines[k].cost) = 0

\* routes.php, lines 28-30: 40 to 100 dollars for each item, so nothing for no items.
Quoted == IF ItemCount = 0 THEN Value(shipping) = 0 ELSE shipping.units > 0 \/ Free

\* What prepareOrderItemsAndShippingQuoteFromCart returns, and the sum before its first term.
Init ==
    /\ lines \in Lines
    /\ shipping \in Costs
    /\ Quoted
    /\ pc = "add"
    /\ i = 0
    /\ out = shipping
    /\ n = 0
    /\ total = Zero(shipping.code)
    /\ due = Value(shipping)

\* Mutant: the quantity stays a signed number.
ToUint32Signed(quantity) == quantity

\* Go's uint32(quantity).
ToUint32(quantity) == quantity % 2 ^ Width

\* How often MultiplySlow(m, n) counts m: n times, but once for n = 0.
Times(k) == IF k = 0 THEN 1 ELSE k

\* total = money.Must(money.Sum(total, out)): line 271 for shipping, line 274 for a line.
Add ==
    /\ pc = "add"
    /\ IF SumFails(total, out)
       THEN pc' = "panic" /\ UNCHANGED total
       ELSE /\ total' = Sum(total, out)
            /\ pc' = IF i = Len(lines) THEN "done" ELSE "next"
    /\ UNCHANGED <<lines, shipping, i, out, n, due>>

\* MultiplySlow is called for the next line.
NextLine ==
    LET line == lines[i + 1]
        k == ToUint32(line.quantity) IN
    /\ pc = "next"
    /\ i' = i + 1
    /\ out' = line.cost
    /\ n' = k
    /\ due' = due + Times(k) * Value(line.cost)
    /\ pc' = "multiply"
    /\ UNCHANGED <<lines, shipping, total>>

\* One turn of MultiplySlow's loop, or its end.
Multiply ==
    /\ pc = "multiply"
    /\ IF n > 1
       THEN IF SumFails(out, lines[i].cost)
            THEN pc' = "panic" /\ UNCHANGED <<out, n>>
            ELSE /\ out' = Sum(out, lines[i].cost)
                 /\ n' = n - 1
                 /\ UNCHANGED pc
       ELSE pc' = "add" /\ UNCHANGED <<out, n>>
    /\ UNCHANGED <<lines, shipping, i, total, due>>

\* The amount is charged, or the process is gone.
Ended == pc \in {"done", "panic"} /\ UNCHANGED vars

Next == Add \/ NextLine \/ Multiply \/ Ended

Spec == Init /\ [][Next]_vars
-----------------------------------------------------------------------------
(* Properties.                                                              *)

\* Type invariant; n is an unsigned number of Width bits, and no amount leaves int32 nanos.
TypeOK ==
    /\ lines \in Lines
    /\ shipping \in Costs
    /\ pc \in {"add", "next", "multiply", "done", "panic"}
    /\ i \in 0 .. Len(lines)
    /\ out \in Moneys
    /\ n \in 0 .. 2 ^ Width - 1
    /\ total \in Moneys
    /\ due \in Int
    /\ validNanos(total.nanos) /\ validNanos(out.nanos)

\* The amount charged is worth exactly the shipping plus quantity times cost of each line
\* (a line of quantity 0 counts once), carries and borrows included (lines 268-275).
TotalExact == pc = "done" => Value(total) = due

BelowOne(worth) == 0 < worth /\ worth < NanosMod

\* Must panics only at a line two of which cost less than one unit, or when nothing is paid
\* for shipping and the lines before cost less than one unit; and the charged total has
\* nanos of the wrong sign only when it is itself worth less than one unit.
PanicHasACause ==
    /\ pc = "panic" =>
         \/ i > 0 /\ BelowOne(2 * Value(lines[i].cost))
         \/ Value(shipping) = 0 /\ BelowOne(Value(total))
    /\ pc = "done" /\ ~IsValid(total) => BelowOne(Value(total))

\* The comment of line 95: Sum borrows only when its operands have different signs.  It
\* also borrows when two amounts, neither negative, add up to 0 units and some nanos.
BorrowMeansDifferentSigns ==
    LET SignsDiffer(l, r) == Value(l) < 0 \/ Value(r) < 0
        Borrows(l, r) ==
            ~SumFails(l, r) /\ ~SameSign(l.units + r.units, l.nanos + r.nanos)
    IN /\ pc = "add" /\ Borrows(total, out) => SignsDiffer(total, out)
       /\ pc = "multiply" /\ n > 1 /\ Borrows(out, lines[i].cost)
            => SignsDiffer(out, lines[i].cost)
=============================================================================
