------------------------------ MODULE CartStore ------------------------------
(***************************************************************************)
(* cart/ValkeyCartStore.cs and CartService.cs: concurrent AddItem, EmptyCart *)
(* and GetCart calls on the Valkey key of one user (calls of other users use *)
(* other keys).  An AddItem is three Valkey commands - HGET, HSET, EXPIRE -  *)
(* and an EmptyCart two, with no transaction around them.                    *)
(*                                                                           *)
(* A command takes effect and is answered, fails without effect, or takes    *)
(* effect and its answer is lost; every exception ends the call with         *)
(* FailedPrecondition and undoes nothing.                                    *)
(***************************************************************************)
EXTENDS Integers, Sequences, FiniteSetsExt

CONSTANTS
    Adds, Empties, Gets,   \* the AddItem, EmptyCart and GetCart calls
    Products,
    Product, Quantity,     \* Product[c], Quantity[c]: the arguments of AddItem call c
    Width,                 \* the bits of a quantity, an int32
    TTL,                   \* the ticks a key lives after EXPIRE: 60 minutes
    Null, Never            \* no value; no time to live

Calls == Adds \cup Empties \cup Gets

\* Mutant: quantities have no limit.
WrapNever(q) == q

\* Line 155 adds int32 quantities, unchecked.
Wrap(q) == ((q + 2 ^ (Width - 1)) % 2 ^ Width) - 2 ^ (Width - 1)

Quantities == -(2 ^ (Width - 1)) .. 2 ^ (Width - 1) - 1
Items == [product : Products, quantity : Quantities]
Carts == [named : BOOLEAN, items : Seq(Items)]

ASSUME CartStoreAssumption ==
    /\ Adds \cap Empties = {} /\ Adds \cap Gets = {} /\ Empties \cap Gets = {}
    /\ Product \in [Adds -> Products]
    /\ Quantity \in [Adds -> Quantities]
    /\ Width \in Nat \ {0} /\ 2 ^ Width \in Nat \ {0} /\ 2 ^ (Width - 1) \in Nat
    /\ 2 ^ Width = 2 * 2 ^ (Width - 1)
    /\ TTL \in Nat \ {0}
    /\ Null \notin Carts /\ Never \notin Nat

VARIABLES
    value,     \* the field "cart" at the user's key: Null or a Cart message
    ttl,       \* the ticks left until Valkey drops the key, or Never
    pc,        \* pc[c]: the next command of call c, "ok" or "failed"
    base       \* base[c]: the value AddItem call c has read

\* History: the AddItem calls whose HSET took effect, whether the cart was ever emptied,
\* dropped or overwritten by a call that had read another one, and the calls that wrote
\* the key and ended without an EXPIRE.
VARIABLES wrote, torn, stranded

vars == <<value, ttl, pc, base, wrote, torn, stranded>>

Init ==
    /\ value = Null
    /\ ttl = Never
    /\ pc = [c \in Calls |-> "idle"]
    /\ base = [c \in Adds |-> Null]
    /\ wrote = {}
    /\ torn = FALSE
    /\ stranded = {}
-----------------------------------------------------------------------------
(* The cart a call writes.                                                  *)

\* Mutant: the product is always added as a new item.
AddedTwice(cart, c) ==
    LET item == [product |-> Product[c], quantity |-> Quantity[c]] IN
    IF cart = Null
    THEN [named |-> TRUE, items |-> <<item>>]
    ELSE [cart EXCEPT !.items = Append(@, item)]

\* Lines 136-157: a new cart carries the user's id, an existing one keeps what it has.
Added(cart, c) ==
    LET p == Product[c]
        item == [product |-> p, quantity |-> Quantity[c]] IN
    IF cart = Null
    THEN [named |-> TRUE, items |-> <<item>>]
    ELSE IF \A k \in DOMAIN cart.items : cart.items[k].product # p
    THEN [cart EXCEPT !.items = Append(@, item)]
    ELSE [cart EXCEPT !.items = [k \in DOMAIN @ |->
             IF @[k].product = p
             THEN [product |-> p, quantity |-> Wrap(@[k].quantity + Quantity[c])]
             ELSE @[k]]]

\* _emptyCartBytes: a Cart message without user id and items.
EmptyCart == [named |-> FALSE, items |-> <<>>]
-----------------------------------------------------------------------------
(* The commands.                                                            *)

\* HSET keeps the time to live of a key that exists; a key it creates has none.
HashSet(cart) ==
    /\ value' = cart
    /\ ttl' = IF value = Null THEN Never ELSE ttl

\* EXPIRE, unless the key is gone.
KeyExpire == ttl' = IF value = Null THEN Never ELSE TTL

\* Mutant: the HSET is repeated after a lost answer, on the cart as it is then.
AddWriteRepeats(c) ==
    /\ pc[c] = "write"
    /\ \/ HashSet(Added(base[c], c)) /\ pc' = [pc EXCEPT ![c] = "expire"]
       \/ HashSet(Added(base[c], c)) /\ c \notin wrote /\ pc' = [pc EXCEPT ![c] = "idle"]
    /\ wrote' = wrote \cup {c}
    /\ torn' = (torn \/ value # base[c])
    /\ UNCHANGED <<base, stranded>>

\* AddItemAsync, HSET.
AddWrite(c) ==
    /\ pc[c] = "write"
    /\ \/ /\ HashSet(Added(base[c], c))
          /\ wrote' = wrote \cup {c}
          /\ torn' = (torn \/ value # base[c])
          /\ \/ pc' = [pc EXCEPT ![c] = "expire"] /\ UNCHANGED stranded
             \/ pc' = [pc EXCEPT ![c] = "failed"] /\ stranded' = stranded \cup {c}
       \/ /\ pc' = [pc EXCEPT ![c] = "failed"]
          /\ UNCHANGED <<value, ttl, wrote, torn, stranded>>
    /\ UNCHANGED base

\* AddItemAsync: the connection, then HGET; either may fail.
AddRead(c) ==
    /\ pc[c] = "idle"
    /\ \/ pc' = [pc EXCEPT ![c] = "write"] /\ base' = [base EXCEPT ![c] = value]
       \/ pc' = [pc EXCEPT ![c] = "failed"] /\ UNCHANGED base
    /\ UNCHANGED <<value, ttl, wrote, torn, stranded>>

\* EmptyCartAsync, HSET.  With flag cartFailure on, the call goes to a store that cannot be
\* reached, and fails without effect.
EmptyWrite(c) ==
    /\ pc[c] = "idle"
    /\ \/ /\ HashSet(EmptyCart) /\ torn' = TRUE
          /\ \/ pc' = [pc EXCEPT ![c] = "expire"] /\ UNCHANGED stranded
             \/ pc' = [pc EXCEPT ![c] = "failed"] /\ stranded' = stranded \cup {c}
       \/ /\ pc' = [pc EXCEPT ![c] = "failed"]
          /\ UNCHANGED <<value, ttl, torn, stranded>>
    /\ UNCHANGED <<base, wrote>>

\* Mutant: only a key that has a time to live already is given a new one.
ExpireRefreshes(c) ==
    /\ pc[c] = "expire"
    /\ ttl' = IF ttl = Never THEN Never ELSE TTL
    /\ pc' = [pc EXCEPT ![c] = "ok"]
    /\ UNCHANGED <<value, base, wrote, torn, stranded>>

\* EXPIRE, the last command of AddItem and EmptyCart.
Expire(c) ==
    /\ pc[c] = "expire"
    /\ \/ KeyExpire /\ pc' = [pc EXCEPT ![c] = "ok"] /\ UNCHANGED stranded
       \/ KeyExpire /\ pc' = [pc EXCEPT ![c] = "failed"] /\ UNCHANGED stranded
       \/ /\ pc' = [pc EXCEPT ![c] = "failed"]
          /\ stranded' = stranded \cup {c}
          /\ UNCHANGED ttl
    /\ UNCHANGED <<value, base, wrote, torn>>

\* GetCartAsync; what it returns is the value, or an empty cart for Null.
GetCart(c) ==
    /\ pc[c] = "idle"
    /\ \E end \in {"ok", "failed"} : pc' = [pc EXCEPT ![c] = end]
    /\ UNCHANGED <<value, ttl, base, wrote, torn, stranded>>

\* The cart process dies; what it has written stays in Valkey.
Crash ==
    /\ \E c \in Calls : pc[c] \in {"write", "expire"}
    /\ pc' = [c \in Calls |-> IF pc[c] \in {"write", "expire"} THEN "failed" ELSE pc[c]]
    /\ stranded' = stranded \cup {c \in Calls : pc[c] = "expire"}
    /\ UNCHANGED <<value, ttl, base, wrote, torn>>

Drop ==
    /\ value' = Null /\ ttl' = Never /\ torn' = TRUE
    /\ UNCHANGED <<pc, base, wrote, stranded>>

\* Time passes; a key whose time is over is dropped.
Tick ==
    /\ ttl # Never
    /\ IF ttl > 1 THEN ttl' = ttl - 1 /\ UNCHANGED <<value, pc, base, wrote, torn, stranded>>
                  ELSE Drop

\* Valkey restarts; it has no volume to read the carts back from.
ValkeyRestart == value # Null /\ Drop

Call(c) ==
    \/ c \in Adds /\ (AddRead(c) \/ AddWrite(c))
    \/ c \in Empties /\ EmptyWrite(c)
    \/ c \in Gets /\ GetCart(c)
    \/ Expire(c)

\* Every call has ended and the key is gone, or will stay for ever.
Finished ==
    /\ \A c \in Calls : pc[c] \in {"ok", "failed"}
    /\ ttl = Never
    /\ UNCHANGED vars

Next == (\E c \in Calls : Call(c)) \/ Crash \/ Tick \/ ValkeyRestart \/ Finished

\* A call that is running goes on (a command that is not answered times out), and time
\* passes.  Nobody has to call the service, and nothing has to fail.
Fairness ==
    /\ \A c \in Calls : WF_vars(pc[c] # "idle" /\ Call(c))
    /\ WF_vars(Tick)

Spec == Init /\ [][Next]_vars /\ Fairness
-----------------------------------------------------------------------------
(* Properties.                                                              *)

\* Type invariant of the key and the calls.
TypeOK ==
    /\ value \in Carts \cup {Null}
    /\ ttl \in 1 .. TTL \cup {Never}
    /\ pc \in [Calls -> {"idle", "write", "expire", "ok", "failed"}]
    /\ base \in [Adds -> Carts \cup {Null}]
    /\ wrote \subseteq Adds
    /\ torn \in BOOLEAN
    /\ stranded \subseteq Calls

\* No product is in a cart twice: SingleOrDefault (line 148) never throws.
OneItemPerProduct ==
    value # Null =>
        \A j, k \in DOMAIN value.items :
            value.items[j].product = value.items[k].product => j = k

\* The quantity of a product in a cart, and what some AddItem calls ask for of it.
InCart(cart, p) ==
    IF cart = Null THEN 0
    ELSE SumFunction([k \in DOMAIN cart.items |->
             IF cart.items[k].product = p THEN cart.items[k].quantity ELSE 0])

Asked(S, p) == SumFunctionOnSet([c \in Adds |-> IF Product[c] = p THEN Quantity[c] ELSE 0], S)

\* However calls overlap and fail, the cart holds what AddItem calls that wrote it asked
\* for, and counts none of them twice: it counts every one of them, unless the cart was
\* emptied, dropped or overwritten by a call that had read another one.
EachCallCountsOnce ==
    \E S \in SUBSET wrote :
        /\ ~torn => S = wrote
        /\ \A p \in Products : InCart(value, p) = Wrap(Asked(S, p))

\* A key has no time to live only while a call is between HSET and EXPIRE, or because a
\* call ended there.
ImmortalHasACause ==
    value # Null /\ ttl = Never => stranded # {} \/ \E c \in Calls : pc[c] = "expire"

\* A cart that is left alone is dropped in the end, unless a call ended between HSET and
\* EXPIRE.
AbandonedCartExpires == <>[](value = Null \/ stranded # {})

\* CartServiceTests.cs, line 95: the cart a user filled carries the user's id.  A cart that
\* was emptied and filled again does not (lines 26, 147).
CartNamesItsUser == value # Null /\ value.items # <<>> => value.named
=============================================================================
