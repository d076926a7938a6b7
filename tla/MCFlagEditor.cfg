SPECIFICATION Spec
CONSTANTS
  ann = ann
  bob = bob
  adFailure = adFailure
  Tab = {ann, bob}
  Flag = {adFailure}
  Variant = {"off", "on"}
  Default = "off"
  View <- MCView
  MaxEdits = 1
  MaxSaves = 2
  MaxTroubles = 1
INVARIANTS TypeOK BrokenFileHasACause LostUpdateHasACause PageShowsOwnSave StuckSpinnerHasACause
CHECK_DEADLOCK FALSE
