\* Every handler of these three families.
SPECIFICATION MCSpec
CONSTANTS
  Models = {"POT", "WIN"}
  Settings = {"fan"}
  Washers = {"F_VB", "F_V", "F_V8", "Y_V8", "WTDN3", "VCDWL"}
  MaxLosses = 1
  Fridges = {"600FWC", "61NFA2", "EIDA", "EBIVPC4"}
  Setpoints = {"fridge", "freezer"}
  MaxFlight = 2
  None = None
INVARIANTS
  SettledAgrees
  AskedIsSet
PROPERTIES
  OnlyTheAskedChanges
  ErrorIsExplained
