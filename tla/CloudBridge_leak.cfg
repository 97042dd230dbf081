\* Two calls of enable at once.
SPECIFICATION RaceSpec
CONSTANTS
  NoDev = NoDev
  NoB = NoB
  NoUp = NoUp
  Platform = "thinq2"
  Devs = {d1, d2}
  Bs = {b1, b2}
  Us = {u1, u2}
  Calls = {k1, k2}
  PowerLoss = FALSE
PROPERTY SuspendDetaches
