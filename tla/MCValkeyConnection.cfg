CONSTANTS
    c1 = c1
    c2 = c2
    c3 = c3
    Calls = {c1, c2, c3}
    MaxBreaks = 2
    None = None

SPECIFICATION Spec

INVARIANTS
    TypeOK
    UseHasMultiplexer
    OneConnectPerClosing

PROPERTY EveryCallEnds
