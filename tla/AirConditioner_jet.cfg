\* Nobody but the user in Home Assistant.
CONSTANTS
  Modes <- MCModes
  Switches <- MCSwitches
  JetModes <- MCJetModes
  Units <- MCUnits
  MaxDown = 1
  MaxWaiting = 0
  MaxUp = 1
  PanelActs = FALSE
SPECIFICATION Spec
PROPERTY JetKeepsOff
