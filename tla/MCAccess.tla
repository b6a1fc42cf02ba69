------------------------------ MODULE MCAccess ------------------------------
(* Access on small instances; request goroutines are interchangeable, and   *)
(* so are the Accounts as long as they are not told apart by Members.       *)
EXTENDS Access, TLC

Symmetry == Permutations(Procs)
=============================================================================
