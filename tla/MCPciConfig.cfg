SPECIFICATION DeviceSpec
CONSTANTS
  s1 = s1
  t1 = t1
  t2 = t2
  StatusBit = {s1}
  Thread = {t1, t2}
INVARIANTS ProbeFindsSizes ProbeTransparent RoutedByInternalBases
PROPERTIES StatusKept DeferredReturns
