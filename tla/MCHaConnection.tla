--------------------------- MODULE MCHaConnection ---------------------------
(* An instance of HaConnection.                                            *)
EXTENDS HaConnection

CONSTANTS washer, dryer, v1, v2
=============================================================================
