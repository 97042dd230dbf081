\* Two Device objects, three BridgedDevices, three connections.
SPECIFICATION MCSpec
CONSTANTS
  NoDev = NoDev
  NoB = NoB
  NoUp = NoUp
  Platform = "thinq2"
  Devs = {d1, d2}
  Bs = {b1, b2, b3}
  Us = {u1, u2, u3}
  Calls = {k1, k2}
  PowerLoss = TRUE
INVARIANTS
  OnlineIsBridged
  
  BridgedIsRegistered
  PoolsAreKept
SYMMETRY MCSymmetry
