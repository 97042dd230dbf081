\* Four attempts of a request; two Device objects, two BridgedDevices.
SPECIFICATION MCSpec
CONSTANTS
  Attempts = 4
  Devs = {d1, d2}
  Bs = {b1, b2}
  Us = {u1, u2, u3}
  NoDev = NoDev
  NoB = NoB
  NoUp = NoUp
INVARIANTS
  FailsForACause
  SavedIsRegistered
  SuspendedIsDetached
PROPERTIES
  EveryCallEnds
  ImplementsPolicy
  CloudReattaches
  DetachedIsReleased
