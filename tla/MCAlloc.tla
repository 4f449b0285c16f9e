------------------------------ MODULE MCAlloc ------------------------------
(***************************************************************************)
(* Instances of Alloc for TLC.                                             *)
(***************************************************************************)
EXTENDS Alloc, TLC

\* The scan makes no difference between two words of the global data.
Symmetry == Permutations(Globals)

FairSpec == Spec /\ CollectorRuns
=============================================================================
