\* The window unit, its modes chosen in Home Assistant.
SPECIFICATION Spec
CONSTANTS
  Models = {"WIN"}
  Settings = {"fan"}
  None = None
  MaxFlight = 1
INVARIANT ModeSwitchesPower
