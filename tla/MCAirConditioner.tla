--------------------------- MODULE MCAirConditioner ---------------------------
(* Instances of AirConditioner.                                            *)
EXTENDS AirConditioner

MCModes == {"cool", "fan"}
MCSwitches == {"jet"}
MCJetModes == {"cool"}
MCUnits == {"basic", "mfilter"}
=============================================================================
