CONSTANTS
    Orders = {o1, o2}
    Overload = 2
    Buffer = 2
    None = None

SPECIFICATION Spec

INVARIANT OwnResponse

CHECK_DEADLOCK FALSE
