\* App::stop only once startup completed; every option combination and task
\* failure: do the exit functions stop every service, after a stop and after
\* a failed startup alike?
CONSTANTS
  a1 = a1
  a2 = a2
  Shards <- MCShards
  Applets <- MCApplets
  NHard = 2
  NGraceful = 2
  MaxStops = 2
  StopAnyTime = FALSE
SYMMETRY MCSymmetry
SPECIFICATION Spec
INVARIANTS
  ExitStopsServices
