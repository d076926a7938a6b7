CONSTANTS
    NanosMod = 3
    Currencies = {"USD"}
    Costs <- MCCosts
    Quantities <- MCQuantities
    MaxLines = 2
    Width = 3

SPECIFICATION Spec

INVARIANTS
    TypeOK
    TotalExact
    PanicHasACause
