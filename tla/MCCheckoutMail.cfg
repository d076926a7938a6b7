CONSTANTS
    u1 = u1
    o1 = o1
    o2 = o2
    x1 = x1
    x2 = x2
    Users = {u1}
    Orders = {o1, o2}
    Units = {x1, x2}
    Customer <- MCCustomer
    Owner <- MCOwner
    Amounts = {0, 1, 3}
    Amount <- MCAmount
    Panic = Panic
    None = None
    KafkaSet = TRUE
    Overload = 2

SPECIFICATION Spec

SYMMETRY OrderSymmetry

INVARIANT ConfirmationSent
