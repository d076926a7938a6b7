--------------------------- MODULE CartStoreProofs ---------------------------
(***************************************************************************)
(* Proofs about CartStore for any calls, products, quantities and times.     *)
(***************************************************************************)
EXTENDS CartStore, FiniteSetTheorems, WellFoundedInduction, TLAPS

Maybe == Carts \cup {Null}

NoDuplicates(cart) ==
    cart # Null =>
        \A j, k \in DOMAIN cart.items :
            cart.items[j].product = cart.items[k].product => j = k

\* What a call has read was stored once, so it has no duplicates either.
BasesOK == \A c \in Adds : NoDuplicates(base[c])

IInv == TypeOK /\ NoDuplicates(value) /\ BasesOK /\ ImmortalHasACause

\* The cart is what the calls of S asked for, each counted once.
Counts(cart, S) == \A p \in Products : InCart(cart, p) = Wrap(Asked(S, p))

\* Not only the stored cart, but every cart that a call has read and not written yet
\* counts some of the calls that wrote; and none of these is yet to write.
CountInv ==
    /\ \E S \in SUBSET wrote : (~torn => S = wrote) /\ Counts(value, S)
    /\ \A c \in Adds : pc[c] = "write" => \E S \in SUBSET wrote : Counts(base[c], S)
    /\ \A c \in wrote : pc[c] \notin {"idle", "write"}
    /\ IsFiniteSet(wrote)
-----------------------------------------------------------------------------
(* Sums over finite sets.  SumFunctionOnSet is a fold, which picks the        *)
(* elements in an order of its own: what is shown here is that any of them    *)
(* may be taken out first.  The induction is over the subsets of a finite     *)
(* set, ordered by strict inclusion.                                          *)

\* The element a fold begins with, and the sum as the recursion that it is.
Pick(s) == CHOOSE x \in s : TRUE
SumRec(f, S, w) == f = [s \in SUBSET S |-> IF s = {} THEN 0 ELSE w[Pick(s)] + f[s \ {Pick(s)}]]
SumOf(S, w) == (CHOOSE f : SumRec(f, S, w))[S]

LEMMA SumIs ==
  ASSUME NEW S, NEW w
  PROVE  SumFunctionOnSet(w, S) = SumOf(S, w)
  BY DEF SumFunctionOnSet, FoldFunctionOnSet, MapThenFoldSet, SumOf, SumRec, Pick

\* A set of subsets that holds a set as soon as it holds all that is smaller.
LEMMA SubsetInduction ==
  ASSUME NEW S, IsFiniteSet(S), NEW T,
         \A s \in SUBSET S : (\A u \in SUBSET s : u # s => u \in T) => s \in T
  PROVE  SUBSET S \subseteq T
<1> DEFINE Bad == (SUBSET S) \ T
<1>1. Bad \subseteq FiniteSubsetsOf(S)
  BY FS_Subset DEF FiniteSubsetsOf
<1>2. ASSUME Bad # {} PROVE FALSE
  <2>1. IsWellFoundedOn(StrictSubsetOrdering(S), FiniteSubsetsOf(S))
    BY FS_StrictSubsetOrderingWellFounded
  <2>2. PICK x \in Bad : \A y \in Bad : ~(<<y, x>> \in StrictSubsetOrdering(S))
    <3> HIDE DEF Bad
    <3>1. QED
      BY <1>1, <1>2, <2>1, WFMin
  <2>3. ASSUME NEW u \in SUBSET x, u # x PROVE u \in T
    BY <2>2, <2>3 DEF StrictSubsetOrdering
  <2>4. QED
    BY <2>2, <2>3
<1>3. QED
  BY <1>2

LEMMA SumStep ==
  ASSUME NEW S, NEW w, NEW f, SumRec(f, S, w), NEW s \in SUBSET S
  PROVE  f[s] = IF s = {} THEN 0 ELSE w[Pick(s)] + f[s \ {Pick(s)}]
  BY DEF SumRec

\* The recursion has one solution, on a set and on its subsets alike.
LEMMA SumUnique ==
  ASSUME NEW S, IsFiniteSet(S), NEW T, NEW w, NEW f, NEW g, SumRec(f, S, w), SumRec(g, T, w)
  PROVE  \A s \in SUBSET S : s \subseteq T => f[s] = g[s]
<1> DEFINE Same == {s \in SUBSET S : s \subseteq T => f[s] = g[s]}
<1>1. ASSUME NEW s \in SUBSET S, \A u \in SUBSET s : u # s => u \in Same
      PROVE  s \in Same
  <2>1. ASSUME s \subseteq T, s # {} PROVE f[s] = g[s]
    <3>1. Pick(s) \in s
      BY <2>1 DEF Pick
    <3>2. s \ {Pick(s)} \in Same
      BY <1>1, <3>1
    <3>3. f[s \ {Pick(s)}] = g[s \ {Pick(s)}]
      BY <2>1, <3>2
    <3>4. f[s] = w[Pick(s)] + f[s \ {Pick(s)}] /\ g[s] = w[Pick(s)] + g[s \ {Pick(s)}]
      BY <2>1 DEF SumRec
    <3>5. QED
      BY <3>3, <3>4
  <2>2. ASSUME s = {}, s \subseteq T PROVE f[s] = g[s]
    BY <2>2 DEF SumRec
  <2>3. QED
    BY <2>1, <2>2
<1>2. SUBSET S \subseteq Same
  <2> HIDE DEF Same
  <2>1. QED
    BY <1>1, SubsetInduction
<1>3. QED
  BY <1>2

LEMMA SumExists ==
  ASSUME NEW S, IsFiniteSet(S), NEW w
  PROVE  \A s \in SUBSET S : SumRec(CHOOSE f : SumRec(f, s, w), s, w)
<1> DEFINE Good == {s \in SUBSET S : \E f : SumRec(f, s, w)}
           Sol(s) == CHOOSE f : SumRec(f, s, w)
<1>1. ASSUME NEW s \in SUBSET S, \A u \in SUBSET s : u # s => u \in Good
      PROVE  s \in Good
  <2> DEFINE less(u) == u \ {Pick(u)}
             G == [u \in SUBSET s |-> IF u = {} THEN 0 ELSE w[Pick(u)] + Sol(less(u))[less(u)]]
  <2>1. ASSUME NEW u \in SUBSET s, u # s PROVE SumRec(Sol(u), u, w)
    BY <1>1, <2>1
  <2>2. ASSUME NEW u \in SUBSET s, u # {} PROVE less(u) \in SUBSET u /\ less(u) # u /\ less(u) # s
    BY <2>2 DEF Pick
  <2>3. ASSUME NEW u \in SUBSET s, u # s PROVE G[u] = Sol(u)[u]
    <3>0. SumRec(Sol(u), u, w) /\ u \in SUBSET u
      BY <2>1, <2>3
    <3>1. CASE u = {}
      <4> HIDE DEF Sol
      <4>1. Sol(u)[u] = 0
        BY <3>0, <3>1, SumStep
      <4>2. QED
        BY <3>1, <4>1
    <3>2. CASE u # {}
      <4>1. Sol(u)[u] = w[Pick(u)] + Sol(u)[less(u)]
        <5> HIDE DEF Sol
        <5>1. QED
          BY <3>0, <3>2, SumStep
      <4>2. SumRec(Sol(less(u)), less(u), w) /\ SumRec(Sol(u), u, w) /\ less(u) \in SUBSET u
        BY <2>1, <2>2, <2>3, <3>2
      <4>3. IsFiniteSet(less(u))
        BY <4>2, FS_Subset
      <4> HIDE DEF Sol, less
      <4>4. Sol(less(u))[less(u)] = Sol(u)[less(u)]
        BY <4>2, <4>3, SumUnique
      <4>5. G[u] = w[Pick(u)] + Sol(less(u))[less(u)]
        BY <3>2
      <4>6. QED
        BY <4>1, <4>4, <4>5
    <3>3. QED
      BY <3>1, <3>2
  <2>4. G = [u \in SUBSET s |-> IF u = {} THEN 0 ELSE w[Pick(u)] + G[less(u)]]
    <3>1. ASSUME NEW u \in SUBSET s, u # {} PROVE G[less(u)] = Sol(less(u))[less(u)]
      BY <2>2, <2>3, <3>1
    <3>2. \A u \in SUBSET s : G[u] = IF u = {} THEN 0 ELSE w[Pick(u)] + G[less(u)]
      <4> HIDE DEF less, Sol
      <4>1. QED
        BY <3>1
    <3> HIDE DEF less, Sol
    <3>3. G = [u \in SUBSET s |-> G[u]]
      OBVIOUS
    <3> HIDE DEF G
    <3>4. QED
      BY <3>2, <3>3
  <2>5. SumRec(G, s, w)
    <3> HIDE DEF G
    <3>1. QED
      BY <2>4 DEF SumRec
  <2> HIDE DEF G
  <2>6. QED
    BY <2>5
<1>2. SUBSET S \subseteq Good
  <2> HIDE DEF Good
  <2>1. QED
    BY <1>1, SubsetInduction
<1>3. QED
  BY <1>2

\* What a sum is: of nothing, and with its terms taken out.
LEMMA SumLess ==
  ASSUME NEW S, IsFiniteSet(S), NEW w, S # {}
  PROVE  SumOf(S, w) = w[Pick(S)] + SumOf(S \ {Pick(S)}, w)
<1> DEFINE f == CHOOSE f : SumRec(f, S, w)
           r == S \ {Pick(S)}
           g == CHOOSE g : SumRec(g, r, w)
<1>1. SumRec(f, S, w) /\ SumRec(g, r, w)
  BY SumExists
<1>2. SumOf(S, w) = f[S] /\ SumOf(r, w) = g[r]
  BY DEF SumOf
<1> HIDE DEF f, g
<1>3. f[S] = w[Pick(S)] + f[r]
  BY <1>1, SumStep
<1>4. f[r] = g[r]
  <2>1. r \in SUBSET S /\ IsFiniteSet(r)
    BY FS_Subset
  <2> HIDE DEF r
  <2>2. QED
    BY <1>1, <2>1, SumUnique
<1>5. QED
  BY <1>2, <1>3, <1>4

LEMMA SumEmpty == ASSUME NEW w PROVE SumOf({}, w) = 0
<1> DEFINE f == CHOOSE f : SumRec(f, {}, w)
<1>1. SumRec(f, {}, w)
  BY SumExists, FS_EmptySet
<1>2. SumOf({}, w) = f[{}]
  BY DEF SumOf
<1> HIDE DEF f
<1>3. QED
  BY <1>1, <1>2, SumStep

LEMMA SumType ==
  ASSUME NEW S, IsFiniteSet(S), NEW w, \A x \in S : w[x] \in Int
  PROVE  \A s \in SUBSET S : SumOf(s, w) \in Int
<1> DEFINE Good == {s \in SUBSET S : SumOf(s, w) \in Int}
<1>1. ASSUME NEW s \in SUBSET S, \A u \in SUBSET s : u # s => u \in Good
      PROVE  s \in Good
  <2>1. CASE s = {}
    BY <2>1, SumEmpty
  <2>2. CASE s # {}
    <3>1. Pick(s) \in s /\ IsFiniteSet(s)
      BY <2>2, FS_Subset DEF Pick
    <3>2. s \ {Pick(s)} \in Good
      BY <1>1, <3>1
    <3>3. w[Pick(s)] \in Int /\ SumOf(s \ {Pick(s)}, w) \in Int
      BY <3>1, <3>2
    <3>4. SumOf(s, w) = w[Pick(s)] + SumOf(s \ {Pick(s)}, w)
      BY <2>2, <3>1, SumLess
    <3>5. SumOf(s, w) \in Int
      BY <3>3, <3>4
    <3>6. QED
      BY <3>5
  <2>3. QED
    BY <2>1, <2>2
<1>2. SUBSET S \subseteq Good
  <2> HIDE DEF Good
  <2>1. QED
    BY <1>1, SubsetInduction
<1>3. QED
  BY <1>2

LEMMA SumTakeOut ==
  ASSUME NEW S, IsFiniteSet(S), NEW w, \A x \in S : w[x] \in Int
  PROVE  \A s \in SUBSET S : \A x \in s : SumOf(s, w) = w[x] + SumOf(s \ {x}, w)
<1> DEFINE Good == {s \in SUBSET S : \A x \in s : SumOf(s, w) = w[x] + SumOf(s \ {x}, w)}
<1>1. ASSUME NEW s \in SUBSET S, \A u \in SUBSET s : u # s => u \in Good, NEW x \in s
      PROVE  SumOf(s, w) = w[x] + SumOf(s \ {x}, w)
  <2> DEFINE y == Pick(s)
             both == (s \ {x}) \ {y}
  <2>1. y \in s /\ SumOf(s, w) = w[y] + SumOf(s \ {y}, w)
    BY FS_Subset, SumLess DEF Pick
  <2>2. CASE x # y
    <3>1. s \ {y} \in Good /\ s \ {x} \in Good
      BY <1>1, <2>1
    <3>2. SumOf(s \ {y}, w) = w[x] + SumOf((s \ {y}) \ {x}, w)
      BY <2>1, <2>2, <3>1
    <3>3. SumOf(s \ {x}, w) = w[y] + SumOf(both, w)
      BY <2>1, <2>2, <3>1
    <3>4. (s \ {y}) \ {x} = both
      OBVIOUS
    <3>5. both \in SUBSET S /\ w[x] \in Int /\ w[y] \in Int
      BY <2>1
    <3>6. SumOf(both, w) \in Int
      <4> HIDE DEF both
      <4>1. QED
        BY <3>5, SumType
    <3>7. SumOf((s \ {y}) \ {x}, w) = SumOf(both, w)
      BY <3>4
    <3> HIDE DEF both, y
    <3>8. SumOf(s, w) = w[y] + (w[x] + SumOf(both, w))
      BY <2>1, <3>2, <3>7
    <3>9. SumOf(s, w) = w[x] + (w[y] + SumOf(both, w))
      BY <3>5, <3>6, <3>8
    <3>10. QED
      BY <3>3, <3>9
  <2>3. QED
    BY <2>1, <2>2
<1>2. SUBSET S \subseteq Good
  <2>1. \A s \in SUBSET S : (\A u \in SUBSET s : u # s => u \in Good) => s \in Good
    BY <1>1
  <2> HIDE DEF Good
  <2>2. QED
    BY <2>1, SubsetInduction
<1>3. QED
  BY <1>2

\* A sum of nothing but zeros, and one with a single other term.
LEMMA SumZero ==
  ASSUME NEW S, IsFiniteSet(S), NEW w, \A x \in S : w[x] = 0
  PROVE  SumOf(S, w) = 0
<1> DEFINE Good == {s \in SUBSET S : SumOf(s, w) = 0}
<1>1. ASSUME NEW s \in SUBSET S, \A u \in SUBSET s : u # s => u \in Good
      PROVE  SumOf(s, w) = 0
  <2>1. CASE s = {}
    BY <2>1, SumEmpty
  <2>2. CASE s # {}
    <3>1. Pick(s) \in s /\ IsFiniteSet(s)
      BY <2>2, FS_Subset DEF Pick
    <3>2. s \ {Pick(s)} \in Good /\ w[Pick(s)] = 0
      BY <1>1, <3>1
    <3>3. SumOf(s, w) = w[Pick(s)] + SumOf(s \ {Pick(s)}, w)
      BY <2>2, <3>1, SumLess
    <3>4. QED
      BY <3>2, <3>3
  <2>3. QED
    BY <2>1, <2>2
<1>2. SUBSET S \subseteq Good
  <2>1. \A s \in SUBSET S : (\A u \in SUBSET s : u # s => u \in Good) => s \in Good
    BY <1>1
  <2> HIDE DEF Good
  <2>2. QED
    BY <2>1, SubsetInduction
<1>3. QED
  BY <1>2

LEMMA SumOne ==
  ASSUME NEW S, IsFiniteSet(S), NEW w, NEW x \in S, w[x] \in Int,
         \A y \in S : y # x => w[y] = 0
  PROVE  SumOf(S, w) = w[x]
<1> DEFINE rest == S \ {x}
<1>1. \A y \in S : w[y] \in Int
  OBVIOUS
<1>2. SumOf(S, w) = w[x] + SumOf(rest, w)
  BY <1>1, SumTakeOut
<1>3. IsFiniteSet(rest) /\ \A y \in rest : w[y] = 0
  BY FS_Subset
<1> HIDE DEF rest
<1>4. SumOf(rest, w) = 0
  BY <1>3, SumZero
<1>5. QED
  BY <1>2, <1>4
-----------------------------------------------------------------------------
(* Int32 sums.                                                              *)

\* The remainder does not see whole turns.
LEMMA ModUnique ==
  ASSUME NEW m \in Nat \ {0}, NEW a \in Int, NEW b \in Int, NEW e \in 0 .. m - 1,
         NEW f \in 0 .. m - 1, a * m + e = b * m + f
  PROVE  e = f
<1>1. (a - b) * m = f - e
  OBVIOUS
<1>2. CASE a - b >= 1
  <2>1. (a - b) * m >= m
    BY <1>2
  <2>2. QED
    BY <1>1, <2>1
<1>3. CASE a - b <= -1
  <2>1. (a - b) * m <= -m
    BY <1>3
  <2>2. QED
    BY <1>1, <2>1
<1>4. CASE a - b = 0
  BY <1>1, <1>4
<1>5. QED
  BY <1>2, <1>3, <1>4

LEMMA ModTurns ==
  ASSUME NEW m \in Nat \ {0}, NEW q \in Int, NEW y \in Int
  PROVE  (q * m + y) % m = y % m
<1> DEFINE z == q * m + y
           d == y \div m
           e == y % m
           g == z \div m
           h == z % m
<1>1. z \in Int /\ y = d * m + e /\ d \in Int /\ e \in 0 .. m - 1
  OBVIOUS
<1>2. z = g * m + h /\ g \in Int /\ h \in 0 .. m - 1
  BY <1>1
<1>3. z = q * m + y
  OBVIOUS
<1> HIDE DEF z, d, e, g, h
<1>4. (q + d) * m + e = g * m + h /\ q + d \in Int
  BY <1>1, <1>2, <1>3
<1>5. e = h
  BY <1>1, <1>2, <1>4, ModUnique
<1>6. QED
  BY <1>5 DEF z, e, h

LEMMA WrapTurns ==
  ASSUME NEW a \in Int
  PROVE  \E q \in Int : Wrap(a) = a - q * 2 ^ Width
<1> DEFINE m == 2 ^ Width
           h == 2 ^ (Width - 1)
<1>1. m \in Nat \ {0} /\ h \in Nat
  BY CartStoreAssumption
<1>2. Wrap(a) = ((a + h) % m) - h
  BY DEF Wrap
<1> HIDE DEF m, h
<1>3. a + h = ((a + h) \div m) * m + ((a + h) % m) /\ (a + h) \div m \in Int
  BY <1>1
<1>4. Wrap(a) = a - ((a + h) \div m) * m
  BY <1>1, <1>2, <1>3
<1>5. QED
  BY <1>3, <1>4 DEF m

\* A quantity is what it is, and a sum may be wrapped at every step or at the end.
LEMMA WrapIs ==
  ASSUME NEW q \in Quantities
  PROVE  Wrap(q) = q
<1> DEFINE m == 2 ^ Width
           h == 2 ^ (Width - 1)
<1>1. m \in Nat \ {0} /\ h \in Nat /\ m = 2 * h /\ q \in -h .. h - 1
  BY CartStoreAssumption DEF Quantities
<1>2. Wrap(q) = ((q + h) % m) - h
  BY DEF Wrap
<1> HIDE DEF m, h
<1>3. q + h \in 0 .. m - 1
  BY <1>1
<1>4. (q + h) % m = q + h
  BY <1>1, <1>3
<1>5. QED
  BY <1>1, <1>2, <1>4

LEMMA WrapSum ==
  ASSUME NEW a \in Int, NEW b \in Int
  PROVE  Wrap(Wrap(a) + b) = Wrap(a + b)
<1> DEFINE m == 2 ^ Width
           h == 2 ^ (Width - 1)
<1>1. m \in Nat \ {0} /\ h \in Nat
  BY CartStoreAssumption
<1>2. PICK q \in Int : Wrap(a) = a - q * m
  BY WrapTurns
<1>3. /\ Wrap(Wrap(a) + b) = ((Wrap(a) + b + h) % m) - h
      /\ Wrap(a + b) = ((a + b + h) % m) - h
  BY DEF Wrap
<1> HIDE DEF m, h
<1> DEFINE y == Wrap(a) + b + h
<1>4. y \in Int
  BY <1>1, <1>2
<1>5. a + b + h = q * m + y
  BY <1>1, <1>2
<1> HIDE DEF y
<1>6. (a + b + h) % m = y % m
  BY <1>1, <1>4, <1>5, ModTurns
<1>7. QED
  BY <1>3, <1>6 DEF y

-----------------------------------------------------------------------------
(* The cart a call writes.                                                  *)

LEMMA WrapType == ASSUME NEW q \in Int PROVE Wrap(q) \in Quantities
  BY CartStoreAssumption DEF Wrap, Quantities

LEMMA MapItems ==
  ASSUME NEW s \in Seq(Items), NEW t, DOMAIN t = DOMAIN s, t = [k \in DOMAIN s |-> t[k]],
         \A k \in DOMAIN s : t[k] \in Items
  PROVE  t \in Seq(Items)
<1>1. DOMAIN s = 1 .. Len(s) /\ Len(s) \in Nat
  OBVIOUS
<1>2. t \in [1 .. Len(s) -> Items]
  BY <1>1
<1>3. QED
  BY <1>1, <1>2

\* AddItem adds its product or merges it into the item that has it.
LEMMA AddedOK ==
  ASSUME NEW cart \in Maybe, NoDuplicates(cart), NEW c \in Adds
  PROVE  Added(cart, c) \in Carts /\ NoDuplicates(Added(cart, c))
<1> DEFINE p == Product[c]
           item == [product |-> p, quantity |-> Quantity[c]]
<1>0. p \in Products /\ Quantity[c] \in Quantities /\ item \in Items
  BY CartStoreAssumption DEF Items
<1>1. CASE cart = Null
  <2>1. Added(cart, c) = [named |-> TRUE, items |-> <<item>>]
    BY <1>1 DEF Added
  <2>2. <<item>> \in Seq(Items)
    BY <1>0
  <2> HIDE DEF item
  <2>3. QED
    BY <2>1, <2>2 DEF Carts, NoDuplicates
<1>2. CASE cart # Null /\ \A k \in DOMAIN cart.items : cart.items[k].product # p
  <2>0. cart \in Carts /\ cart.items \in Seq(Items)
    BY <1>2 DEF Maybe, Carts
  <2>1. Added(cart, c) = [cart EXCEPT !.items = Append(@, item)]
    BY <1>2 DEF Added
  <2>2. item.product = p
    OBVIOUS
  <2> HIDE DEF item
  <2>3. Append(cart.items, item) \in Seq(Items)
    BY <1>0, <2>0
  <2>4. Added(cart, c).items = Append(cart.items, item) /\ Added(cart, c) \in Carts
    BY <2>0, <2>1, <2>3 DEF Carts
  <2>5. NoDuplicates(Added(cart, c))
    <3> DEFINE s == cart.items
               t == Append(s, item)
    <3>1. DOMAIN t = 1 .. Len(s) + 1 /\ DOMAIN s = 1 .. Len(s) /\ Len(s) \in Nat
      BY <2>0
    <3>2. t[Len(s) + 1] = item /\ \A k \in 1 .. Len(s) : t[k] = s[k]
      BY <2>0
    <3>3. \A j, k \in 1 .. Len(s) : s[j].product = s[k].product => j = k
      BY <1>2, <3>1 DEF NoDuplicates
    <3>4. \A k \in 1 .. Len(s) : s[k].product # p
      BY <1>2, <3>1
    <3> HIDE DEF s, t, p
    <3>5. \A j, k \in DOMAIN t : t[j].product = t[k].product => j = k
      BY <2>2, <3>1, <3>2, <3>3, <3>4
    <3>6. QED
      BY <2>4, <3>5 DEF NoDuplicates, s, t
  <2>6. QED
    BY <2>4, <2>5
<1>3. CASE cart # Null /\ ~\A k \in DOMAIN cart.items : cart.items[k].product # p
  <2>0. cart \in Carts /\ cart.items \in Seq(Items)
    BY <1>3 DEF Maybe, Carts
  <2> DEFINE s == cart.items
             t == [k \in DOMAIN s |->
                     IF s[k].product = p
                     THEN [product |-> p, quantity |-> Wrap(s[k].quantity + Quantity[c])]
                     ELSE s[k]]
  <2>1. Added(cart, c) = [cart EXCEPT !.items = t]
    BY <1>3 DEF Added
  <2>2. \A k \in DOMAIN s : s[k] \in Items
    BY <2>0
  <2>3. \A k \in DOMAIN s : t[k] \in Items /\ t[k].product = s[k].product
    <3> SUFFICES ASSUME NEW k \in DOMAIN s
                 PROVE  t[k] \in Items /\ t[k].product = s[k].product
      OBVIOUS
    <3>1. s[k].quantity \in Int /\ Quantity[c] \in Int
      BY <1>0, <2>2, CartStoreAssumption DEF Items, Quantities
    <3>2. Wrap(s[k].quantity + Quantity[c]) \in Quantities
      BY <3>1, WrapType
    <3>3. QED
      BY <1>0, <2>2, <3>2 DEF Items
  <2>4. t \in Seq(Items)
    <3>1. DOMAIN t = DOMAIN s /\ t = [k \in DOMAIN s |-> t[k]]
      OBVIOUS
    <3> HIDE DEF t
    <3>2. QED
      BY <2>0, <2>3, <3>1, MapItems
  <2>5. DOMAIN t = DOMAIN s
    OBVIOUS
  <2> HIDE DEF t
  <2>6. Added(cart, c).items = t /\ Added(cart, c) \in Carts
    BY <2>0, <2>1, <2>4 DEF Carts
  <2>7. NoDuplicates(Added(cart, c))
    BY <1>3, <2>3, <2>5, <2>6 DEF NoDuplicates
  <2>8. QED
    BY <2>6, <2>7
<1>4. QED
  BY <1>1, <1>2, <1>3

LEMMA CartIsNotNull == ASSUME NEW cart \in Carts PROVE cart # Null
  BY CartStoreAssumption

LEMMA EmptyCartOK == EmptyCart \in Carts /\ NoDuplicates(EmptyCart)
  BY DEF EmptyCart, Carts, NoDuplicates
-----------------------------------------------------------------------------
(* What a cart holds of a product.                                          *)

LEMMA ItemQuantities ==
  ASSUME NEW s \in Seq(Items)
  PROVE  \A k \in DOMAIN s : s[k].quantity \in Int
<1>1. \A k \in DOMAIN s : s[k] \in Items
  OBVIOUS
<1>2. Quantities \subseteq Int
  BY CartStoreAssumption DEF Quantities
<1>3. QED
  BY <1>1, <1>2 DEF Items

LEMMA InCartIs ==
  ASSUME NEW cart \in Carts, NoDuplicates(cart), NEW p \in Products
  PROVE  /\ \A k \in DOMAIN cart.items :
              cart.items[k].product = p => InCart(cart, p) = cart.items[k].quantity
         /\ (\A k \in DOMAIN cart.items : cart.items[k].product # p) => InCart(cart, p) = 0
<1> DEFINE s == cart.items
           D == DOMAIN s
           w == [k \in D |-> IF s[k].product = p THEN s[k].quantity ELSE 0]
<1>1. cart # Null /\ s \in Seq(Items)
  BY CartStoreAssumption DEF Carts
<1>2. IsFiniteSet(D) /\ DOMAIN w = D
  BY <1>1, FS_Interval
<1>3. InCart(cart, p) = SumOf(D, w)
  BY <1>1, <1>2, SumIs DEF InCart, SumFunction
<1>4. \A k \in D : s[k].quantity \in Int
  BY <1>1, ItemQuantities
<1>5. ASSUME NEW k \in D, s[k].product = p PROVE InCart(cart, p) = s[k].quantity
  <2>1. w[k] = s[k].quantity
    BY <1>5
  <2>2. \A j \in D : j # k => w[j] = 0
    BY <1>1, <1>5 DEF NoDuplicates
  <2> HIDE DEF w, D
  <2>3. SumOf(D, w) = w[k]
    BY <1>2, <1>4, <1>5, <2>1, <2>2, SumOne
  <2>4. QED
    BY <1>3, <2>1, <2>3
<1>6. ASSUME \A k \in D : s[k].product # p PROVE InCart(cart, p) = 0
  <2>1. \A j \in D : w[j] = 0
    BY <1>6
  <2> HIDE DEF w, D
  <2>2. QED
    BY <1>2, <1>3, <2>1, SumZero
<1>7. QED
  BY <1>5, <1>6

LEMMA InCartType ==
  ASSUME NEW cart \in Maybe, NoDuplicates(cart), NEW p \in Products
  PROVE  InCart(cart, p) \in Int
<1>1. CASE cart = Null
  BY <1>1 DEF InCart
<1>2. CASE cart \in Carts
  <2>1. \A k \in DOMAIN cart.items : cart.items[k].quantity \in Int
    BY <1>2, ItemQuantities DEF Carts
  <2>2. QED
    BY <1>2, <2>1, InCartIs
<1>3. QED
  BY <1>1, <1>2 DEF Maybe

\* AddItem adds its quantity, as an int32, to what the cart has of its product, and
\* touches no other product.
LEMMA AddedCounts ==
  ASSUME NEW cart \in Maybe, NoDuplicates(cart), NEW c \in Adds, NEW q \in Products
  PROVE  InCart(Added(cart, c), q) =
           IF q = Product[c] THEN Wrap(InCart(cart, q) + Quantity[c]) ELSE InCart(cart, q)
<1> DEFINE p == Product[c]
           n == Quantity[c]
           item == [product |-> p, quantity |-> n]
           new == Added(cart, c)
<1>0. p \in Products /\ n \in Quantities /\ n \in Int /\ item \in Items
  BY CartStoreAssumption DEF Items, Quantities
<1>1. new \in Carts /\ NoDuplicates(new)
  BY AddedOK
<1>2. 0 + n = n /\ Wrap(n) = n
  BY <1>0, WrapIs
<1>3. CASE cart = Null
  <2>1. new.items = <<item>> /\ InCart(cart, q) = 0
    BY <1>3 DEF Added, InCart
  <2>2. DOMAIN new.items = {1} /\ new.items[1].product = p /\ new.items[1].quantity = n
    BY <2>1
  <2> HIDE DEF new, item, p, n
  <2>3. InCart(new, q) = IF q = p THEN n ELSE 0
    BY <1>1, <2>2, InCartIs
  <2>4. QED
    BY <1>2, <2>1, <2>3 DEF p, n, new
<1>4. CASE cart # Null /\ \A k \in DOMAIN cart.items : cart.items[k].product # p
  <2> DEFINE s == cart.items
             t == new.items
  <2>1. cart \in Carts /\ s \in Seq(Items)
    BY <1>4 DEF Maybe, Carts
  <2>2. t = Append(s, item)
    BY <1>4, <2>1 DEF Added, Carts
  <2>3. DOMAIN t = 1 .. Len(s) + 1 /\ DOMAIN s = 1 .. Len(s) /\ Len(s) \in Nat
    BY <2>1, <2>2
  <2>4. /\ t[Len(s) + 1].product = p /\ t[Len(s) + 1].quantity = n
        /\ \A k \in DOMAIN s : t[k] = s[k] /\ s[k].product # p
    BY <1>4, <2>1, <2>2
  <2> HIDE DEF new, item, p, n
  <2>5. CASE q = p
    <3>1. InCart(new, q) = n
      BY <1>1, <2>3, <2>4, <2>5, InCartIs
    <3>2. InCart(cart, q) = 0
      BY <2>1, <2>4, <2>5, InCartIs
    <3>3. QED
      BY <1>2, <2>5, <3>1, <3>2 DEF p, n, new
  <2>6. CASE q # p
    <3>1. CASE \E k \in DOMAIN s : s[k].product = q
      <4>1. PICK k \in DOMAIN s : s[k].product = q
        BY <3>1
      <4>2. InCart(cart, q) = s[k].quantity
        BY <2>1, <4>1, InCartIs
      <4>3. k \in DOMAIN t /\ t[k].product = q /\ t[k].quantity = s[k].quantity
        BY <2>3, <2>4, <4>1
      <4>4. InCart(new, q) = s[k].quantity
        BY <1>1, <4>3, InCartIs
      <4>5. QED
        BY <2>6, <4>2, <4>4 DEF p, new
    <3>2. CASE ~ \E k \in DOMAIN s : s[k].product = q
      <4>1. InCart(cart, q) = 0
        BY <2>1, <3>2, InCartIs
      <4>2. \A k \in DOMAIN t : t[k].product # q
        BY <2>3, <2>4, <2>6, <3>2
      <4>3. InCart(new, q) = 0
        BY <1>1, <4>2, InCartIs
      <4>4. QED
        BY <2>6, <4>1, <4>3 DEF p, new
    <3>3. QED
      BY <3>1, <3>2
  <2>7. QED
    BY <2>5, <2>6
<1>5. CASE cart # Null /\ ~ \A k \in DOMAIN cart.items : cart.items[k].product # p
  <2> DEFINE s == cart.items
             t == [k \in DOMAIN s |->
                     IF s[k].product = p THEN [product |-> p, quantity |-> Wrap(s[k].quantity + n)]
                     ELSE s[k]]
  <2>1. cart \in Carts /\ s \in Seq(Items)
    BY <1>5 DEF Maybe, Carts
  <2>2. new.items = t
    BY <1>5, <2>1 DEF Added, Carts
  <2>3. /\ DOMAIN t = DOMAIN s
        /\ \A k \in DOMAIN s :
             /\ t[k].product = s[k].product
             /\ t[k].quantity = IF s[k].product = p THEN Wrap(s[k].quantity + n) ELSE s[k].quantity
    OBVIOUS
  <2> HIDE DEF new, p, n, t
  <2>4. CASE \E k \in DOMAIN s : s[k].product = q
    <3>1. PICK k \in DOMAIN s : s[k].product = q
      BY <2>4
    <3>2. InCart(cart, q) = s[k].quantity
      BY <2>1, <3>1, InCartIs
    <3>3. InCart(new, q) = t[k].quantity
      BY <1>1, <2>2, <2>3, <3>1, InCartIs
    <3>4. QED
      BY <2>3, <3>1, <3>2, <3>3 DEF p, n, new
  <2>5. CASE ~ \E k \in DOMAIN s : s[k].product = q
    <3>1. InCart(cart, q) = 0 /\ q # p
      BY <1>5, <2>1, <2>5, InCartIs
    <3>2. InCart(new, q) = 0
      BY <1>1, <2>2, <2>3, <2>5, InCartIs
    <3>3. QED
      BY <3>1, <3>2 DEF p, new
  <2>6. QED
    BY <2>4, <2>5
<1>6. QED
  BY <1>3, <1>4, <1>5

-----------------------------------------------------------------------------
(* The steps.                                                               *)

LEMMA NeverNotTTL == Never \notin 1 .. TTL /\ TTL \in 1 .. TTL
  BY CartStoreAssumption

LEMMA InitIInv == Init => IInv
  BY DEF Init, IInv, TypeOK, NoDuplicates, BasesOK, ImmortalHasACause

LEMMA AddReadIInv ==
  ASSUME IInv, NEW c \in Adds, AddRead(c) PROVE IInv'
<1> USE DEF IInv, AddRead
<1>1. TypeOK'
  BY DEF TypeOK, Calls
<1>2. BasesOK'
  BY DEF TypeOK, BasesOK, NoDuplicates
<1>3. NoDuplicates(value)'
  BY DEF NoDuplicates
<1>4. ImmortalHasACause'
  BY DEF TypeOK, ImmortalHasACause
<1>5. QED
  BY <1>1, <1>2, <1>3, <1>4

LEMMA AddWriteIInv ==
  ASSUME IInv, NEW c \in Adds, AddWrite(c) PROVE IInv'
<1> DEFINE new == Added(base[c], c)
<1>1. new \in Carts /\ NoDuplicates(new)
  BY AddedOK DEF IInv, TypeOK, BasesOK, Maybe
<1>2. new # Null
  BY <1>1, CartIsNotNull
<1>3. c \in Calls /\ pc[c] = "write" /\ base' = base
  BY DEF AddWrite, Calls
<1> HIDE DEF new
<1>4. CASE /\ HashSet(new) /\ wrote' = wrote \cup {c}
           /\ \/ pc' = [pc EXCEPT ![c] = "expire"] /\ UNCHANGED stranded
              \/ pc' = [pc EXCEPT ![c] = "failed"] /\ stranded' = stranded \cup {c}
  <2>1. TypeOK'
    <3>1. torn' \in BOOLEAN
      BY DEF IInv, TypeOK, AddWrite
    <3>2. QED
      BY <1>1, <1>3, <1>4, <3>1 DEF IInv, TypeOK, HashSet
  <2>2. NoDuplicates(value)'
    BY <1>1, <1>4 DEF HashSet, NoDuplicates
  <2>3. BasesOK'
    BY <1>3 DEF IInv, BasesOK, NoDuplicates
  <2>4. ImmortalHasACause'
    BY <1>3, <1>4 DEF IInv, TypeOK, ImmortalHasACause
  <2>5. QED
    BY <2>1, <2>2, <2>3, <2>4 DEF IInv
<1>5. CASE pc' = [pc EXCEPT ![c] = "failed"] /\ UNCHANGED <<value, ttl, wrote, torn, stranded>>
  <2>1. TypeOK'
    BY <1>3, <1>5 DEF IInv, TypeOK
  <2>2. NoDuplicates(value)' /\ BasesOK'
    BY <1>3, <1>5 DEF IInv, BasesOK, NoDuplicates
  <2>3. ImmortalHasACause'
    BY <1>3, <1>5 DEF IInv, TypeOK, ImmortalHasACause
  <2>4. QED
    BY <2>1, <2>2, <2>3 DEF IInv
<1>6. QED
  BY <1>4, <1>5 DEF AddWrite, new

LEMMA EmptyWriteIInv ==
  ASSUME IInv, NEW c \in Empties, EmptyWrite(c) PROVE IInv'
<1>1. c \in Calls /\ pc[c] = "idle" /\ UNCHANGED <<base, wrote>>
  BY DEF EmptyWrite, Calls
<1>2. BasesOK'
  BY <1>1 DEF IInv, BasesOK, NoDuplicates
<1>3. TypeOK'
  BY <1>1, EmptyCartOK DEF IInv, TypeOK, EmptyWrite, HashSet
<1>4. NoDuplicates(value)'
  BY EmptyCartOK DEF IInv, EmptyWrite, HashSet, NoDuplicates
<1>5. ImmortalHasACause'
  BY <1>1 DEF IInv, TypeOK, EmptyWrite, ImmortalHasACause
<1>6. QED
  BY <1>2, <1>3, <1>4, <1>5 DEF IInv

LEMMA ExpireIInv ==
  ASSUME IInv, NEW c \in Calls, Expire(c) PROVE IInv'
<1>1. pc[c] = "expire" /\ UNCHANGED <<value, base, wrote>>
  BY DEF Expire
<1>2. BasesOK' /\ NoDuplicates(value)'
  BY <1>1 DEF IInv, BasesOK, NoDuplicates
<1>3. TypeOK'
  BY <1>1, NeverNotTTL DEF IInv, TypeOK, Expire, KeyExpire
<1>4. ImmortalHasACause'
  BY <1>1, NeverNotTTL DEF IInv, TypeOK, Expire, KeyExpire, ImmortalHasACause
<1>5. QED
  BY <1>2, <1>3, <1>4 DEF IInv

LEMMA OtherIInv ==
  ASSUME IInv, (\E c \in Gets : GetCart(c)) \/ Crash \/ Tick \/ ValkeyRestart \/ UNCHANGED vars
  PROVE  IInv'
<1>1. ASSUME NEW c \in Gets, GetCart(c) PROVE IInv'
  <2>1. TypeOK'
    BY <1>1 DEF IInv, TypeOK, GetCart, Calls
  <2>2. BasesOK' /\ NoDuplicates(value)' /\ ImmortalHasACause'
    BY <1>1 DEF IInv, TypeOK, GetCart, BasesOK, NoDuplicates, ImmortalHasACause
  <2>3. QED
    BY <2>1, <2>2 DEF IInv
<1>2. CASE Crash
  <2>1. TypeOK'
    BY <1>2 DEF IInv, TypeOK, Crash
  <2>2. BasesOK' /\ NoDuplicates(value)'
    BY <1>2 DEF IInv, Crash, BasesOK, NoDuplicates
  <2>3. ImmortalHasACause'
    BY <1>2 DEF IInv, TypeOK, Crash, ImmortalHasACause
  <2>4. QED
    BY <2>1, <2>2, <2>3 DEF IInv
<1>3. CASE Drop
  BY <1>3 DEF IInv, TypeOK, Drop, BasesOK, NoDuplicates, ImmortalHasACause
<1>4. CASE /\ ttl # Never /\ ttl > 1 /\ ttl' = ttl - 1
           /\ UNCHANGED <<value, pc, base, wrote, torn, stranded>>
  <2>1. TypeOK'
    BY <1>4, CartStoreAssumption DEF IInv, TypeOK
  <2>2. BasesOK' /\ NoDuplicates(value)'
    BY <1>4 DEF IInv, BasesOK, NoDuplicates
  <2>3. ttl' # Never
    BY <2>1, <1>4, NeverNotTTL, CartStoreAssumption DEF IInv, TypeOK
  <2>4. QED
    BY <2>1, <2>2, <2>3 DEF IInv, ImmortalHasACause
<1>5. CASE UNCHANGED vars
  BY <1>5 DEF vars, IInv, TypeOK, BasesOK, NoDuplicates, ImmortalHasACause
<1>6. QED
  BY <1>1, <1>2, <1>3, <1>4, <1>5 DEF Tick, ValkeyRestart

-----------------------------------------------------------------------------
(* Which calls a cart counts.                                               *)

LEMMA NothingCounts == Counts(Null, {}) /\ Counts(EmptyCart, {})
<1>1. Wrap(0) = 0
  <2>1. 0 \in Quantities
    BY CartStoreAssumption DEF Quantities
  <2>2. QED
    BY <2>1, WrapIs
<1>2. ASSUME NEW p \in Products PROVE Asked({}, p) = 0
  BY SumIs, SumEmpty DEF Asked
<1>3. ASSUME NEW p \in Products PROVE InCart(Null, p) = 0 /\ InCart(EmptyCart, p) = 0
  <2>1. EmptyCart.items = <<>> /\ DOMAIN EmptyCart.items = {}
    BY DEF EmptyCart
  <2>2. QED
    BY <2>1, EmptyCartOK, InCartIs DEF InCart
<1>4. QED
  BY <1>1, <1>2, <1>3 DEF Counts

\* What AddItem makes of a cart counts the call once more than the cart did.
LEMMA AddedCountsOnce ==
  ASSUME NEW cart \in Maybe, NoDuplicates(cart), NEW S \in SUBSET Adds, IsFiniteSet(S),
         Counts(cart, S), NEW c \in Adds, c \notin S
  PROVE  Counts(Added(cart, c), S \cup {c})
<1> SUFFICES ASSUME NEW p \in Products
             PROVE  InCart(Added(cart, c), p) = Wrap(Asked(S \cup {c}, p))
  BY DEF Counts
<1> DEFINE w == [d \in Adds |-> IF Product[d] = p THEN Quantity[d] ELSE 0]
           T == S \cup {c}
<1>1. IsFiniteSet(T) /\ T \subseteq Adds /\ T \ {c} = S /\ c \in T /\ S \in SUBSET T
  BY FS_AddElement
<1>2. \A d \in Adds : Quantity[d] \in Int
  BY CartStoreAssumption DEF Quantities
<1>3. \A d \in T : w[d] \in Int
  BY <1>1, <1>2
<1>4. w[c] = IF Product[c] = p THEN Quantity[c] ELSE 0
  OBVIOUS
<1>5. Asked(T, p) = SumOf(T, w) /\ Asked(S, p) = SumOf(S, w)
  BY SumIs DEF Asked
<1> HIDE DEF w, T
<1>6. Asked(T, p) = w[c] + Asked(S, p)
  BY <1>1, <1>3, <1>5, SumTakeOut
<1>7. Asked(S, p) \in Int
  BY <1>1, <1>3, <1>5, SumType
<1>8. InCart(cart, p) = Wrap(Asked(S, p))
  BY DEF Counts
<1>9. InCart(Added(cart, c), p) =
        IF p = Product[c] THEN Wrap(InCart(cart, p) + Quantity[c]) ELSE InCart(cart, p)
  BY AddedCounts
<1>10. CASE p = Product[c]
  <2>1. w[c] = Quantity[c] /\ Quantity[c] \in Int
    BY <1>2, <1>4, <1>10
  <2>2. Wrap(Wrap(Asked(S, p)) + Quantity[c]) = Wrap(Asked(S, p) + Quantity[c])
    BY <1>7, <2>1, WrapSum
  <2>3. Asked(T, p) = Asked(S, p) + Quantity[c]
    BY <1>6, <1>7, <2>1
  <2>4. QED
    BY <1>8, <1>9, <1>10, <2>2, <2>3 DEF T
<1>11. CASE p # Product[c]
  <2>1. Asked(T, p) = Asked(S, p)
    BY <1>4, <1>6, <1>7, <1>11
  <2>2. QED
    BY <1>8, <1>9, <1>11, <2>1 DEF T
<1>12. QED
  BY <1>10, <1>11

LEMMA InitCounts == Init => CountInv
<1> SUFFICES ASSUME Init PROVE CountInv
  OBVIOUS
<1>1. value = Null /\ wrote = {} /\ wrote \in SUBSET wrote /\ \A c \in Adds : pc[c] = "idle"
  BY DEF Init, Calls
<1>2. QED
  BY <1>1, NothingCounts, FS_EmptySet DEF CountInv

\* A step after which the key holds what it held, or a cart that counts no call, and no
\* call has read anything.
LEMMA QuietCounts ==
  ASSUME IInv, CountInv, wrote' = wrote, base' = base,
         \/ value' = value /\ torn' = torn
         \/ value' \in {Null, EmptyCart} /\ torn' = TRUE,
         \A c \in Adds : \/ pc'[c] = pc[c]
                        \/ pc'[c] \notin {"idle", "write"}
  PROVE  CountInv'
<1>1. \E S \in SUBSET wrote' : (~torn' => S = wrote') /\ Counts(value', S)
  <2>1. CASE value' = value /\ torn' = torn
    BY <2>1 DEF CountInv
  <2>2. CASE value' \in {Null, EmptyCart} /\ torn' = TRUE
    <3>1. {} \in SUBSET wrote' /\ Counts(value', {})
      BY <2>2, NothingCounts
    <3>2. QED
      BY <2>2, <3>1
  <2>3. QED
    BY <2>1, <2>2
<1>2. \A c \in Adds : pc'[c] = "write" => \E S \in SUBSET wrote' : Counts(base'[c], S)
  BY DEF CountInv
<1>3. \A c \in wrote' : pc'[c] \notin {"idle", "write"}
  BY DEF CountInv, IInv, TypeOK
<1>4. IsFiniteSet(wrote')
  BY DEF CountInv
<1>5. QED
  BY <1>1, <1>2, <1>3, <1>4 DEF CountInv, Counts

LEMMA AddReadCounts ==
  ASSUME IInv, CountInv, NEW c \in Adds, AddRead(c) PROVE CountInv'
<1>1. /\ pc[c] = "idle" /\ UNCHANGED <<value, wrote, torn>>
      /\ \/ pc' = [pc EXCEPT ![c] = "write"] /\ base' = [base EXCEPT ![c] = value]
         \/ pc' = [pc EXCEPT ![c] = "failed"] /\ UNCHANGED base
  BY DEF AddRead
<1>2. c \notin wrote /\ wrote \subseteq Adds
  BY <1>1 DEF CountInv, IInv, TypeOK
<1>3. PICK S \in SUBSET wrote : (~torn => S = wrote) /\ Counts(value, S)
  BY DEF CountInv
<1>4. \A d \in Adds : d # c => pc'[d] = pc[d] /\ base'[d] = base[d]
  BY <1>1 DEF IInv, TypeOK, Calls
<1>5. pc'[c] = "write" => base'[c] = value
  BY <1>1 DEF IInv, TypeOK, Calls
<1>6. ASSUME NEW d \in Adds, pc'[d] = "write"
      PROVE  \E R \in SUBSET wrote' : Counts(base'[d], R)
  <2>1. CASE d = c
    BY <1>1, <1>3, <1>5, <1>6, <2>1
  <2>2. CASE d # c
    BY <1>1, <1>4, <1>6, <2>2 DEF CountInv
  <2>3. QED
    BY <2>1, <2>2
<1>7. \A d \in wrote' : pc'[d] \notin {"idle", "write"}
  BY <1>1, <1>2, <1>4 DEF CountInv
<1>8. QED
  BY <1>1, <1>3, <1>6, <1>7 DEF CountInv, Counts

LEMMA AddWriteCounts ==
  ASSUME IInv, CountInv, NEW c \in Adds, AddWrite(c) PROVE CountInv'
<1> DEFINE new == Added(base[c], c)
<1>1. pc[c] = "write" /\ base' = base /\ wrote \subseteq Adds
  BY DEF AddWrite, IInv, TypeOK
<1>2. CASE /\ value' = new /\ wrote' = wrote \cup {c} /\ torn' = (torn \/ value # base[c])
           /\ pc' = [pc EXCEPT ![c] = "expire"] \/ pc' = [pc EXCEPT ![c] = "failed"]
  <2>1. PICK S \in SUBSET wrote : (~torn' => S = wrote) /\ Counts(base[c], S)
    <3>1. CASE torn'
      BY <1>1, <3>1 DEF CountInv
    <3>2. CASE ~torn'
      BY <1>2, <3>2 DEF CountInv
    <3>3. QED
      BY <3>1, <3>2
  <2>2. c \notin S /\ IsFiniteSet(S) /\ S \subseteq Adds
    BY <1>1, FS_Subset DEF CountInv
  <2>3. base[c] \in Maybe /\ NoDuplicates(base[c])
    BY DEF IInv, TypeOK, BasesOK, Maybe
  <2>4. Counts(new, S \cup {c})
    BY <2>1, <2>2, <2>3, AddedCountsOnce
  <2> HIDE DEF new
  <2>5. \E R \in SUBSET wrote' : (~torn' => R = wrote') /\ Counts(value', R)
    BY <1>2, <2>1, <2>4
  <2>6. \A d \in Adds : d # c => pc'[d] = pc[d]
    BY <1>2 DEF IInv, TypeOK, Calls
  <2>7. pc'[c] \notin {"idle", "write"}
    BY <1>2 DEF IInv, TypeOK, Calls
  <2>8. ASSUME NEW d \in Adds, pc'[d] = "write"
        PROVE  \E R \in SUBSET wrote' : Counts(base'[d], R)
    <3>1. pc[d] = "write"
      BY <2>6, <2>7, <2>8
    <3>2. PICK R \in SUBSET wrote : Counts(base[d], R)
      BY <3>1 DEF CountInv
    <3>3. R \in SUBSET wrote'
      BY <1>2
    <3>4. QED
      BY <1>1, <3>2, <3>3
  <2>9. \A d \in wrote' : pc'[d] \notin {"idle", "write"}
    BY <1>1, <1>2, <2>6, <2>7 DEF CountInv
  <2>10. IsFiniteSet(wrote')
    BY <1>2, FS_AddElement DEF CountInv
  <2>11. QED
    BY <2>5, <2>8, <2>9, <2>10 DEF CountInv, Counts
<1>3. CASE pc' = [pc EXCEPT ![c] = "failed"] /\ UNCHANGED <<value, wrote, torn>>
  <2>1. \A d \in Adds : pc'[d] = pc[d] \/ pc'[d] = "failed"
    BY <1>3 DEF IInv, TypeOK, Calls
  <2>2. QED
    BY <1>1, <1>3, <2>1, QuietCounts
<1>4. QED
  BY <1>2, <1>3 DEF AddWrite, HashSet

LEMMA OtherCounts ==
  ASSUME IInv, CountInv,
         \/ \E c \in Calls : Expire(c)
         \/ \E c \in Empties : EmptyWrite(c)
         \/ \E c \in Gets : GetCart(c)
         \/ Crash \/ Tick \/ ValkeyRestart \/ UNCHANGED vars
  PROVE  CountInv'
<1>1. wrote' = wrote /\ base' = base
  BY DEF Expire, EmptyWrite, GetCart, Crash, Tick, ValkeyRestart, Drop, vars
<1>2. \/ value' = value /\ torn' = torn
      \/ value' \in {Null, EmptyCart} /\ torn' = TRUE
  BY DEF Expire, EmptyWrite, GetCart, Crash, Tick, ValkeyRestart, Drop, HashSet, vars
<1>3. ASSUME NEW d \in Adds PROVE pc'[d] = pc[d] \/ pc'[d] \notin {"idle", "write"}
  <2>1. pc \in [Calls -> {"idle", "write", "expire", "ok", "failed"}] /\ d \in Calls
    BY DEF IInv, TypeOK, Calls
  <2>2. ASSUME NEW c \in Calls, NEW end \in {"expire", "ok", "failed"},
               pc' = [pc EXCEPT ![c] = end]
        PROVE  pc'[d] = pc[d] \/ pc'[d] \notin {"idle", "write"}
    BY <2>1, <2>2
  <2>3. \/ \E c \in Calls, end \in {"expire", "ok", "failed"} : pc' = [pc EXCEPT ![c] = end]
        \/ pc' = [c \in Calls |-> IF pc[c] \in {"write", "expire"} THEN "failed" ELSE pc[c]]
        \/ pc' = pc
    BY DEF Expire, EmptyWrite, GetCart, Crash, Tick, ValkeyRestart, Drop, vars, Calls
  <2>4. QED
    BY <2>1, <2>2, <2>3
<1>4. QED
  BY <1>1, <1>2, <1>3, QuietCounts

-----------------------------------------------------------------------------
(* The theorems.                                                            *)

LEMMA StoreInvariant == Spec => []IInv
<1>1. IInv /\ [Next]_vars => IInv'
  BY AddReadIInv, AddWriteIInv, EmptyWriteIInv, ExpireIInv, OtherIInv DEF Next, Call, Finished
<1>2. QED
  BY <1>1, InitIInv, PTL DEF Spec

\* Type correctness: every quantity is an int32, every stored value a Cart message.
THEOREM CartStoreTypeOK == Spec => []TypeOK
  BY StoreInvariant, PTL DEF IInv

\* SingleOrDefault never finds two items of one product.
THEOREM NoProductTwice == Spec => []OneItemPerProduct
<1>1. IInv => OneItemPerProduct
  BY DEF IInv, NoDuplicates, OneItemPerProduct
<1>2. QED
  BY <1>1, StoreInvariant, PTL

LEMMA CountInvariant == Spec => [](IInv /\ CountInv)
<1>1. Init => IInv /\ CountInv
  BY InitIInv, InitCounts
<1>2. IInv /\ CountInv /\ [Next]_vars => CountInv'
  BY AddReadCounts, AddWriteCounts, OtherCounts DEF Next, Call, Finished
<1>3. QED
  BY <1>1, <1>2, StoreInvariant, PTL DEF Spec

\* ValkeyCartStore: however many AddItem calls overlap, fail or lose their answers, the
\* cart counts none of them twice, and leaves one out only if the cart was emptied,
\* dropped or overwritten by a call that had read another one.
THEOREM NoCallCountsTwice == Spec => []EachCallCountsOnce
<1>1. CountInv => EachCallCountsOnce
  BY DEF CountInv, Counts, EachCallCountsOnce
<1>2. QED
  BY <1>1, CountInvariant, PTL

\* Only a call that stops between HSET and EXPIRE makes a cart immortal.
THEOREM ImmortalsHaveACause == Spec => []ImmortalHasACause
  BY StoreInvariant, PTL DEF IInv
=============================================================================
