\* Two courses; two downloaded cycles, or two sessions and two commands.
SPECIFICATION MCSpec
CONSTANTS
  misti = misti
  None = None
  Cotone = cotone
  Programs <- MCPrograms
  Downloads = {c1, c2}
  MaxWire = 1
  MaxLater = 0
  MaxSessions = 1
  PanelActs = TRUE
INVARIANTS
  SelectionIsOffered
  SelectionAgrees
  OncePerPowerOn
