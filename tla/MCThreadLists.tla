--------------------------- MODULE MCThreadLists ---------------------------
(***************************************************************************)
(* An instance of ThreadLists for TLC.                                     *)
(***************************************************************************)
EXTENDS ThreadLists, TLC

Symmetry ==
    Permutations(TCB \ {Main}) \cup Permutations(Mutex) \cup Permutations(Cond)
=============================================================================
