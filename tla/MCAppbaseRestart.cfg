\* Can a service be started again after its exit function stopped it?
CONSTANTS
  a1 = a1
  a2 = a2
  Shards <- MCShards
  Applets <- MCApplets
  NHard = 2
  NGraceful = 2
  MaxStops = 2
  StopAnyTime = TRUE
SYMMETRY MCSymmetry
SPECIFICATION Spec
PROPERTIES
  NoRestartAfterStop
