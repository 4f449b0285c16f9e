----------------------------- MODULE Coroutines -----------------------------
(***************************************************************************)
(* What the context switch of Assignment4 promises: every thread has       *)
(* registers, a stack and a place in the code of its own, as if it had a   *)
(* processor to itself.  A switch changes only which of them runs.         *)
(***************************************************************************)
EXTENDS Naturals, Sequences

CONSTANTS
    Thread, Main,
    Functions, Args,    \* what threads are created with
    Sites,              \* the places in the client to which switches return
    RegisterFiles,      \* contents of the registers that calls preserve
    Zeros,              \* the one that new threads find
    Words, zero,        \* what the client puts on its stack
    MaxDepth            \* and how much of it

VARIABLES
    running,    \* the thread that runs
    context     \* of every thread there is

vars == <<running, context>>

Begins(f, a) == <<f, a>>

New(f, a) == [regs |-> Zeros, frames |-> <<zero>>, pc |-> Begins(f, a)]

Init ==
    /\ running = Main
    /\ \E site \in Sites :
           context = [t \in {Main} |-> [regs |-> Zeros, frames |-> <<zero>>, pc |-> site]]

\* The running thread is in its function, and not about to begin it.
InClient == context[running].pc \in Functions \cup Sites

Begin ==
    \E f \in Functions, a \in Args :
        /\ context[running].pc = Begins(f, a)
        /\ context' = [context EXCEPT ![running].pc = f]
        /\ UNCHANGED running

Compute ==
    /\ InClient
    /\ \E regs \in RegisterFiles : context' = [context EXCEPT ![running].regs = regs]
    /\ UNCHANGED running

Push ==
    /\ InClient
    /\ Len(context[running].frames) <= MaxDepth
    /\ \E w \in Words : context' = [context EXCEPT ![running].frames = Append(@, w)]
    /\ UNCHANGED running

Pop ==
    /\ InClient
    /\ Len(context[running].frames) > 1
    /\ context' = [context EXCEPT ![running].frames = SubSeq(@, 1, Len(@) - 1)]
    /\ UNCHANGED running

Create ==
    /\ InClient
    /\ \E t \in Thread \ DOMAIN context, f \in Functions, a \in Args :
           context' = [u \in DOMAIN context \cup {t} |-> IF u = t THEN New(f, a) ELSE context[u]]
    /\ UNCHANGED running

Switch ==
    /\ InClient
    /\ \E next \in DOMAIN context \ {running}, site \in Sites :
           /\ running' = next
           /\ context' = [context EXCEPT ![running].pc = site]

End ==
    /\ InClient
    /\ running # Main
    /\ \E next \in DOMAIN context \ {running} :
           /\ running' = next
           /\ context' = [t \in DOMAIN context \ {running} |-> context[t]]

Next == Begin \/ Compute \/ Push \/ Pop \/ Create \/ Switch \/ End

Spec == Init /\ [][Next]_vars
=============================================================================
