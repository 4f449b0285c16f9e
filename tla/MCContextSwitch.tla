-------------------------- MODULE MCContextSwitch --------------------------
(***************************************************************************)
(* Threads that use all registers, and put a different value into each.    *)
(***************************************************************************)
EXTENDS ContextSwitch, TLC

CONSTANTS bx, bp, v12, v13, v14, v15

Used == [rbx |-> bx, rbp |-> bp, r12 |-> v12, r13 |-> v13, r14 |-> v14, r15 |-> v15]

ZeroOrUsed == {Used, [r \in Preserved |-> zero]}

Symmetry ==
    Permutations(TCB \ {Main}) \cup Permutations(Functions) \cup Permutations(Sites)
=============================================================================
