---------------------------- MODULE MCInstances ----------------------------
(* TLC instances of Instances: the request goroutines are interchangeable. *)
EXTENDS Instances, TLC

Symmetry == Permutations(Procs)
=============================================================================
