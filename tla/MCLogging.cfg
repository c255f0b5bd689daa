SPECIFICATION LoggingSpec
CONSTANTS
  t1 = t1
  t2 = t2
  t3 = t3
  l1 = l1
  l2 = l2
  Caller = {t1, t2, t3}
  Logger = {l1, l2}
  Off = Off
  NoLogger = NoLogger
  Env <- MCEnv
INVARIANTS CallbackIsCurrent LoggerInEffect
PROPERTIES LoggingReturns
