\* One appliance, its user, its remote control, any number of connections.
CONSTANTS
  Modes <- MCModes
  Switches <- MCSwitches
  JetModes <- MCJetModes
  Units <- MCUnits
  MaxDown = 1
  MaxWaiting = 0
  MaxUp = 1
  PanelActs = TRUE
SPECIFICATION FairSpec
PROPERTY IsConfigured
INVARIANTS
  StartIsPending
  GoneStaysOffline
  HandlerAgrees
