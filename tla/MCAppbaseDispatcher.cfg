\* Is the dispatcher stopped before the protocol factories it routes over?
CONSTANTS
  a1 = a1
  a2 = a2
  Shards <- MCShards
  Applets <- MCApplets
  NHard = 2
  NGraceful = 2
  MaxStops = 2
  StopAnyTime = FALSE
SYMMETRY MCSymmetry
SPECIFICATION Spec
PROPERTIES
  DispatcherStoppedBeforeProtocols
