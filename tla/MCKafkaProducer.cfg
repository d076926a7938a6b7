CONSTANTS
    Orders = {o1, o2}
    Overload = 2
    Buffer = 2
    None = None

SPECIFICATION Spec

INVARIANTS
    TypeOK
    StuckHasACause
    LeftoverHasACause

PROPERTIES
    CancelledHandlerEnds
    HealthyProducerServesAll

CHECK_DEADLOCK FALSE
