SPECIFICATION Spec
CONSTANTS
  Now <- MCNow
  MaxLaunches = 3
  MaxCalls = 3
  Numbers = {"visa", "amex", ""}
  Years = {2028, 2030}
  Months = {1, 12, 13}
INVARIANTS TypeOK OneUserPerInstall CompleteMeansPlaced PaidWithUsableCard
CHECK_DEADLOCK FALSE
