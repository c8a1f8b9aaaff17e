---------------------------- MODULE MCLifecycle ----------------------------
(* Lifecycle on small instances.  The callers are interchangeable, and the   *)
(* symmetry is used by the runs that check safety only.                      *)
EXTENDS Lifecycle, TLC

CallerSymmetry == Permutations(Callers)
=============================================================================
