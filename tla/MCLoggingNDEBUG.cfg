CONSTANTS
  m1 = m1
  m2 = m2
  l1 = l1
  l2 = l2
  l3 = l3
  l4 = l4
  Modules <- MCModules
  Loggers <- MCLoggers
  LoggerName <- MCLoggerName
  LogArgs <- MCLogArgs
  BadLevel = BadLevel
  NoText = NoText
  NoLogger = NoLogger
  Unset = Unset
  AssertsEnabled = FALSE
SPECIFICATION Spec
INVARIANTS LevelsFollowConfig
CHECK_DEADLOCK FALSE
