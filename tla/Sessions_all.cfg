\* Two appliances and three connections of either protocol.
SPECIFICATION MCSpec
CONSTANTS
  w1 = w1
  w2 = w2
  f1 = f1
  f2 = f2
  a1 = a1
  b1 = b1
  T1Ids = {w1, w2}
  T2Ids = {f1, f2}
  T1Conns = {a1, a2, a3}
  T2Conns = {b1, b2, b3}
  ModelsOf <- FirstRelabels
  NoConn = NoConn
  NoId = NoId
INVARIANTS
  TypeOK
  RegistriesAgree
  OneLiveHandler
  ServedIsOnline
  OnlineIsServed
PROPERTIES
  GoneAreDropped
  ImplementsRegistry
