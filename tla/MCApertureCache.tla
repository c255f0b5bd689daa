-------------------------- MODULE MCApertureCache ---------------------------
(* Instances of the aperture cache: three ranges, two of them in the same  *)
(* shard.                                                                  *)
EXTENDS ApertureCache, TLC

CONSTANTS k1, k2, k3, s1, s2

MCShardOf == k1 :> s1 @@ k2 :> s1 @@ k3 :> s2
MCOneShard == [k \in {k1, k2, k3} |-> s1]

Symmetry == Permutations(Thread) \cup Permutations(Ap)
=============================================================================
