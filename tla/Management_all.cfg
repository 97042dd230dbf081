\* One appliance on the page, three Device objects of a monitored one, three clients.
SPECIFICATION MCSpec
CONSTANTS
  Ids = {a}
  Calls = {k1, k2}
  None = None
  MaxQueue = 1
  Objects = {o1, o2, o3}
  Sockets = {s1, s2}
  MaxFlight = 2
  Clients = {c1, c2, c3}
  Appliances = {c1, c2}
  Subscribers = {c2, c3}
  BrokerIds = {"w"}
  Topics <- TwoTopics
  Patterns <- TwoPatterns
  Payloads = {p1}
  Wills <- OneWill
  MaxFilters = 2
  Empty = Empty
SYMMETRY SymCalls
INVARIANTS
  PageAgrees
  RowsAreTrue
  MonitorFollows
  DeliveredOnce
PROPERTIES
  WillAtTheEnd
  ImplementsRegistry
CHECK_DEADLOCK FALSE
