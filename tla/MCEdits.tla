------------------------------ MODULE MCEdits ------------------------------
(***************************************************************************)
(* Instances on a small Docker Host with three worlds, used in one of two  *)
(* ways: worlds only start and stop, or one of them is edited, deleted and *)
(* created again.  The size of the last world, which nothing changes, says *)
(* which: in the first it is the largest.                                  *)
(***************************************************************************)
EXTENDS Instances, TLC

Editing == row[MaxInstances].mem = 1

\* The requests that arrive.
Arrives(p) ==
  \/ /\ ~Editing
     /\ \E kind \in Kinds \cap {"start", "stop", "view"}, n \in Numbers \cup {0} : Begin(p, kind, n, 0)
  \/ /\ Editing
     /\ \E kind \in Kinds \ {"start", "stop", "view"}, n \in {0, 1}, size \in {0, 2} : Begin(p, kind, n, size)

MCInit == /\ Init
          /\ IF Editing THEN \A n \in Numbers : srv[n].mem = 1
             ELSE srv[1].mem <= srv[2].mem /\ srv[2].mem <= srv[3].mem
MCNext == \/ \E p \in Procs : Arrives(p) \/ Step(p)
          \/ \E n \in Numbers : Environment(n)
          \/ AgrelhaRestart
MCSpec == MCInit /\ [][MCNext]_vars

Symmetry == Permutations(Procs)
=============================================================================
