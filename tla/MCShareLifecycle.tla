-------------------------- MODULE MCShareLifecycle --------------------------
(* Three devices, two calling threads.                                     *)
EXTENDS ShareLifecycle, TLC

Symmetry == Permutations(Client) \cup Permutations(Dev)
=============================================================================
