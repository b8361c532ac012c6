SPECIFICATION Spec
CONSTANTS
  Settings = {1}
  Addresses = {66, 67}
  DefaultAddress = 66
  Protocols <- BothSides
  Circles = {c}
  MaxFences = 2
  Keys = {k, l}
  Values = {1, 2}
  Width <- TwoWidths
  MaxEntries = 3
  MaxFaults = 1
  MaxCalls = 4
INVARIANTS FencesAgree AddressIsWhereAsked
PROPERTIES OnlyTheSettingAsked TransactionIntact
CHECK_DEADLOCK FALSE
