--------------------------- MODULE MCRestartQueue ---------------------------
(* RestartQueue on small instances; players, goroutines and worlds are       *)
(* interchangeable.                                                         *)
EXTENDS RestartQueue, TLC

Symmetry == Permutations(People) \cup Permutations(Handlers) \cup Permutations(Worlds)
=============================================================================
