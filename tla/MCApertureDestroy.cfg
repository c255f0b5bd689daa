SPECIFICATION Spec
CONSTANTS
  None = None
  k1 = k1
  k2 = k2
  k3 = k3
  s1 = s1
  s2 = s2
  a1 = a1
  a2 = a2
  a3 = a3
  a4 = a4
  t1 = t1
  t2 = t2
  Thread = {t1, t2}
  Key = {k1, k2, k3}
  Shard = {s1, s2}
  ShardOf <- MCShardOf
  PER_SHARD_MAX = 1
  Ap = {a1, a2, a3, a4}
  MaxAccesses = 5
SYMMETRY Symmetry
INVARIANTS NoDestroyAfterTeardown
