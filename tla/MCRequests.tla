----------------------------- MODULE MCRequests -----------------------------
(* Requests on small instances; goroutines and non-operators are             *)
(* interchangeable.                                                         *)
EXTENDS Requests, TLC

Symmetry == Permutations(Procs) \cup Permutations(Accounts \ Admins)
=============================================================================
