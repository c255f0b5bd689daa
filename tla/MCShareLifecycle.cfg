SPECIFICATION Spec
CONSTANTS
  c1 = c1
  c2 = c2
  d1 = d1
  d2 = d2
  d3 = d3
  NoDev = NoDev
  MaxRefs = 2
  MaxFailures = 2
  Client = {c1, c2}
  Dev = {d1, d2, d3}
SYMMETRY Symmetry
INVARIANTS SupportHeld RegistryExact TeardownOrder SlotBacked NoOrphan SlowPathNotSticky
