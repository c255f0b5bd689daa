SPECIFICATION Spec
CONSTANTS
  w1 = w1
  w2 = w2
  r1 = r1
  r2 = r2
  Worker = {w1, w2}
  Req = {r1, r2}
  Job = {r1, r2}
  NoJob = NoJob
INVARIANTS InflightExact OwnedOnce QuiescedReturn NoLostWakeup
PROPERTIES RequestServed StopQuiesces ImplementsRequestQueue
