\* A setting right after a programme.
SPECIFICATION SettingsSpec
CONSTANTS
  misti = misti
  None = None
  Cotone = cotone
  Programs <- MCPrograms
  Downloads = {c1}
  MaxWire = 2
  MaxLater = 0
  MaxSessions = 1
  PanelActs = FALSE
PROPERTY SettingsKeepCourse
