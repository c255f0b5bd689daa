----------------------------- MODULE MCEmitGate -----------------------------
(* Threads are interchangeable.                                            *)
EXTENDS EmitGate, TLC

Symmetry == Permutations(Thread)
=============================================================================
