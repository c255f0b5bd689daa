CONSTANTS
  Worker = {w1, w2, w3}
  Job = {j1, j2, j3}
  Submitter = {s1, s2}
  NoJob = NoJob
SPECIFICATION Spec
INVARIANTS WorkConserving DrainedOnJoin
PROPERTIES DropReturns
