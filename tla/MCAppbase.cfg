\* App::stop may arrive at any point of startup (a signal, or an applet calling
\* it) and again during the exit; every option combination and task failure.
CONSTANTS
  a1 = a1
  a2 = a2
  Shards <- MCShards
  Applets <- MCApplets
  NHard = 2
  NGraceful = 1
  MaxStops = 2
  StopAnyTime = TRUE
SPECIFICATION Spec
INVARIANTS
  TypeOK
  RegisteredOnlyStarted
  ConflictAbortsBeforeConstruction
  StoppersReverse
PROPERTIES
  ExitCompletes
  LifecycleSafety
