----------------------------- MODULE MCThreads -----------------------------
(***************************************************************************)
(* Instances of Threads for TLC.  The addresses but Main's, the mutexes    *)
(* and the condition variables are interchangeable.                        *)
(***************************************************************************)
EXTENDS Threads

Symmetry ==
    Permutations(TCB \ {Main}) \cup Permutations(Mutex) \cup Permutations(Cond)

\* Clients that join nobody while they own a mutex: an owner blocked in a join
\* may keep it for ever.  The main thread initialises before it creates others.
NextReleased ==
    /\ Next
    /\ \A t \in Range(list'[joiningList]) : Owns(t) = {}
    /\ heap' \subseteq heap \/ Mutex \cup Cond = initialized

LiveSpec == Init /\ [][NextReleased]_vars /\ ThreadsYield /\ OwnersUnlock
=============================================================================
