SPECIFICATION Spec
CONSTANTS
  t1 = t1
  t2 = t2
  t3 = t3
  Thread = {t1, t2, t3}
  INTERVAL_MS = 2
  STATS_EVERY = 2
  MaxOps = 4
  MaxTime = 4
SYMMETRY Symmetry
INVARIANTS StampsApart NeverSilenced OneReportPerCount
