----------------------- MODULE MCServiceLifecycle -----------------------
(* Small instances of ServiceLifecycle. *)
EXTENDS ServiceLifecycle, TLC

CONSTANTS s1, s2, o1, o2

Symmetry == Permutations(Starters) \cup Permutations(Operators)
=============================================================================
