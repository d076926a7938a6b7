CONSTANTS
    a1 = a1
    a2 = a2
    a3 = a3
    p1 = p1
    p2 = p2
    Adds = {a1, a2, a3}
    Empties = {e1}
    Gets = {g1}
    Products = {p1, p2}
    Product <- MCProduct
    Quantity <- MCQuantity
    Width = 3
    TTL = 2
    Null = Null
    Never = Never

SPECIFICATION Spec

INVARIANTS
    TypeOK
    OneItemPerProduct
    EachCallCountsOnce
    ImmortalHasACause

PROPERTY AbandonedCartExpires
