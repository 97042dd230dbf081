SPECIFICATION FairSpec
CONSTANTS
  washer = washer
  dryer = dryer
  v1 = v1
  v2 = v2
  Ids = {washer, dryer}
  Reporting = {washer}
  Values = {v1, v2}
  None = None
  CloudStyle = FALSE
  MaxFaults = 2
  MaxOut = 1
INVARIANTS
  AvailabilityIsTrue
  StoppedIsNotShown
  ShownIsReported
PROPERTIES
  TopicsCatchUp
