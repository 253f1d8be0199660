\* Does every user stopper run when one of them fails?
CONSTANTS
  a1 = a1
  a2 = a2
  Shards <- MCShards
  Applets <- MCApplets
  NHard = 2
  NGraceful = 2
  MaxStops = 2
  StopAnyTime = FALSE
SYMMETRY MCSymmetry
SPECIFICATION Spec
INVARIANTS
  AllStoppersRun
