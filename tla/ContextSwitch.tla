--------------------------- MODULE ContextSwitch ---------------------------
(***************************************************************************)
(* The machine below Assignment4/thread.c: the instructions of             *)
(* thread_asm.s, one step each, on the registers, stacks and TCBs they     *)
(* work on.                                                                *)
(*                                                                         *)
(* The code that calls asm_yield is external: clients, and the C compiled  *)
(* around the call, which follow the calling conventions.  Which thread is *)
(* next is Threads' affair: here it is any other.                          *)
(*                                                                         *)
(* A stack is the sequence of its words, the bottom first; what lies above *)
(* the stack pointer is left there until something is pushed over it.      *)
(***************************************************************************)
EXTENDS Naturals, Sequences

CONSTANTS
    TCB, Main, NULL,
    Functions, Args,    \* the arguments of thread_create
    Sites,              \* return addresses in the client
    threadStart, asm_yield, asm_yield_cleanup,      \* addresses of code
    inCleanup,          \* the return address of the call in cleanup
    Files,              \* contents the client gives to the registers below
    Words, zero, MaxDepth

\* The registers that a called function preserves, and those with arguments.
Preserved == {"rbx", "rbp", "r12", "r13", "r14", "r15"}
Registers == Preserved \cup {"rsp", "rdi", "rsi"}
Slots == Registers \ {"rbp"}

Code == Functions \cup Sites \cup {threadStart, asm_yield, asm_yield_cleanup, inCleanup}

ASSUME ContextAssumption ==
    /\ Main \in TCB /\ NULL \notin TCB
    /\ \A file \in Files : file = [r \in Preserved |-> file[r]]
    /\ [r \in Preserved |-> zero] \in Files
    /\ threadStart \notin Functions \cup Sites
    /\ asm_yield \notin Functions \cup Sites \cup {threadStart}
    /\ asm_yield_cleanup \notin Functions \cup Sites \cup {threadStart, asm_yield}
    /\ MaxDepth \in Nat

VARIABLES
    reg,                \* the registers
    ip, step,           \* the function that runs, and how far thread_asm.s is
    stack, tcb,         \* memory, by the TCB it belongs to
    heap,               \* the threads whose memory is allocated
    alive,              \* those that have not ended
    readyQueueHead, waitingForCleanup

vars == <<reg, ip, step, stack, tcb, heap, alive, readyQueueHead, waitingForCleanup>>

threadVars == <<heap, alive, readyQueueHead, waitingForCleanup>>

\* The address that has n words of t's stack below it.
Address(t, n) == [of |-> t, words |-> n]

\* What thread_create leaves on the stack: a return address for threadStart,
\* which never returns, threadStart, and a word for rbp.
NewStack == <<zero, threadStart, zero>>

NewTCB(t, f, a) ==
    [s \in Slots |-> CASE s = "rsp" -> Address(t, Len(NewStack))
                       [] s = "rdi" -> f
                       [] s = "rsi" -> a
                       [] OTHER -> zero]

\* The main thread runs, on a stack it has from the system.
Init ==
    /\ reg = [r \in Registers |-> IF r = "rsp" THEN Address(Main, 1) ELSE zero]
    /\ ip \in Sites
    /\ step = 0
    /\ stack = [t \in TCB |-> IF t = Main THEN <<zero>> ELSE <<>>]
    /\ tcb = [t \in TCB |-> [s \in Slots |-> zero]]
    /\ heap = {Main}
    /\ alive = {Main}
    /\ readyQueueHead = Main
    /\ waitingForCleanup = NULL

-----------------------------------------------------------------------------
(* Instructions *)

\* Bug: r14 restored twice, and r15 not.
asm_yield_code_r14Twice == <<
    <<"push", "rbp">>, <<"mov", "rbp">>,
    <<"save", "rsp">>, <<"save", "rdi">>, <<"save", "rsi">>, <<"save", "rbx">>,
    <<"save", "r12">>, <<"save", "r13">>, <<"save", "r14">>, <<"save", "r15">>,
    <<"load", "rsp">>, <<"load", "rdi">>, <<"load", "rbx">>,
    <<"load", "r12">>, <<"load", "r13">>, <<"load", "r14">>, <<"load", "r14">>,
    <<"load", "rsi">>, <<"pop", "rbp">>, <<"ret", "rsp">> >>

asm_yield_code == <<
    <<"push", "rbp">>, <<"mov", "rbp">>,
    <<"save", "rsp">>, <<"save", "rdi">>, <<"save", "rsi">>, <<"save", "rbx">>,
    <<"save", "r12">>, <<"save", "r13">>, <<"save", "r14">>, <<"save", "r15">>,
    <<"load", "rsp">>, <<"load", "rdi">>, <<"load", "rbx">>,
    <<"load", "r12">>, <<"load", "r13">>, <<"load", "r14">>, <<"load", "r15">>,
    <<"load", "rsi">>, <<"pop", "rbp">>, <<"ret", "rsp">> >>

\* The same without the saving.
asm_yield_cleanup_code == <<
    <<"push", "rbp">>, <<"mov", "rbp">>,
    <<"load", "rsp">>, <<"load", "rdi">>, <<"load", "rbx">>,
    <<"load", "r12">>, <<"load", "r13">>, <<"load", "r14">>, <<"load", "r15">>,
    <<"load", "rsi">>, <<"pop", "rbp">>, <<"ret", "rsp">> >>

Switching == ip \in {asm_yield, asm_yield_cleanup}

\* The instruction at the present step, with the register it is about.
Instruction == (IF ip = asm_yield THEN asm_yield_code ELSE asm_yield_cleanup_code)[step]
Executes(op) == Switching /\ Instruction[1] = op
Operand == Instruction[2]

Continues == step' = step + 1 /\ UNCHANGED ip

Top == stack[reg["rsp"].of][reg["rsp"].words]

\* The stack with w pushed, and where rsp points then and after a word is popped.
Pushed(w) == [stack EXCEPT ![reg["rsp"].of] = Append(SubSeq(@, 1, reg["rsp"].words), w)]
Above == [reg["rsp"] EXCEPT !.words = @ + 1]
Below == [reg["rsp"] EXCEPT !.words = @ - 1]

pushq ==
    /\ Executes("push")
    /\ stack' = Pushed(reg[Operand])
    /\ reg' = [reg EXCEPT !["rsp"] = Above]
    /\ Continues
    /\ UNCHANGED <<tcb, threadVars>>

\* movq %rsp, %rbp
movq ==
    /\ Executes("mov")
    /\ reg' = [reg EXCEPT ![Operand] = reg["rsp"]]
    /\ Continues
    /\ UNCHANGED <<stack, tcb, threadVars>>

\* movq to the TCB that rdi points to
saves ==
    /\ Executes("save")
    /\ tcb' = [tcb EXCEPT ![reg["rdi"]][Operand] = reg[Operand]]
    /\ Continues
    /\ UNCHANGED <<reg, stack, threadVars>>

\* movq from the TCB that rsi points to
loads ==
    /\ Executes("load")
    /\ reg' = [reg EXCEPT ![Operand] = tcb[reg["rsi"]][Operand]]
    /\ Continues
    /\ UNCHANGED <<stack, tcb, threadVars>>

popq ==
    /\ Executes("pop")
    /\ reg' = [reg EXCEPT ![Operand] = Top, !["rsp"] = Below]
    /\ Continues
    /\ UNCHANGED <<stack, tcb, threadVars>>

ret ==
    /\ Executes("ret")
    /\ ip' = Top
    /\ reg' = [reg EXCEPT !["rsp"] = Below]
    /\ step' = 0
    /\ UNCHANGED <<stack, tcb, threadVars>>

-----------------------------------------------------------------------------
(* C code *)

InClient == ip \in Functions \cup Sites

\* asm(first, second), which is to return to the place from.
CallAsm(asm, from, first, second) ==
    /\ ip' = asm
    /\ step' = 1
    /\ stack' = Pushed(from)
    /\ reg' = [reg EXCEPT !["rsp"] = Above, !["rdi"] = first, !["rsi"] = second]

\* threadStart calls the thread's function.
CallWork ==
    /\ ip = threadStart
    /\ ip' = reg["rdi"]
    /\ reg' = [reg EXCEPT !["rdi"] = reg["rsi"]]
    /\ UNCHANGED <<step, stack, tcb, threadVars>>

Compute ==
    /\ InClient
    /\ \E file \in Files :
           reg' = [r \in Registers |-> IF r \in Preserved THEN file[r] ELSE reg[r]]
    /\ UNCHANGED <<ip, step, stack, tcb, threadVars>>

Push ==
    /\ InClient
    /\ reg["rsp"].words <= MaxDepth
    /\ \E w \in Words : stack' = Pushed(w)
    /\ reg' = [reg EXCEPT !["rsp"] = Above]
    /\ UNCHANGED <<ip, step, tcb, threadVars>>

Pop ==
    /\ InClient
    /\ reg["rsp"].words > 1
    /\ reg' = [reg EXCEPT !["rsp"] = Below]
    /\ UNCHANGED <<ip, step, stack, tcb, threadVars>>

thread_create ==
    /\ InClient
    /\ \E t \in TCB \ heap, f \in Functions, a \in Args :
           /\ stack' = [stack EXCEPT ![t] = NewStack]
           /\ tcb' = [tcb EXCEPT ![t] = NewTCB(t, f, a)]
           /\ heap' = heap \cup {t}
           /\ alive' = alive \cup {t}
    /\ UNCHANGED <<reg, ip, step, readyQueueHead, waitingForCleanup>>

\* The end of thread_yield, and of the calls that block.
Yields ==
    /\ InClient
    /\ \E next \in alive \ {readyQueueHead}, site \in Sites :
           /\ readyQueueHead' = next
           /\ CallAsm(asm_yield, site, readyQueueHead, next)
    /\ UNCHANGED <<tcb, heap, alive, waitingForCleanup>>

\* Bug: a thread frees its own memory.
Freed_own == heap \ {readyQueueHead}

\* What is allocated when cleanup has freed the memory of the thread that
\* ended before.
Freed == heap \ {waitingForCleanup}

\* The thread's function returns to threadStart.
cleanup ==
    /\ InClient
    /\ readyQueueHead # Main
    /\ heap' = Freed
    /\ alive' = alive \ {readyQueueHead}
    /\ waitingForCleanup' = readyQueueHead
    /\ \E next \in alive \ {readyQueueHead} :
           /\ readyQueueHead' = next
           /\ CallAsm(asm_yield_cleanup, inCleanup, NULL, next)
    /\ UNCHANGED tcb

Next ==
    \/ pushq \/ movq \/ saves \/ loads \/ popq \/ ret
    \/ CallWork \/ Compute \/ Push \/ Pop
    \/ thread_create \/ Yields \/ cleanup

Spec == Init /\ [][Next]_vars

-----------------------------------------------------------------------------
(* Properties *)

\* Memory is used only as long as it is allocated: the code runs on such a
\* stack, and every thread that can be switched to has one of its own; and
\* threadStart is entered with a stack aligned as functions expect, to 16 bytes
\* but for the return address, as its end is (thread.c:208-217, 257-271,
\* thread_asm.s:38-56).
StacksSound ==
    /\ reg["rsp"].of \in heap
    /\ alive \subseteq heap
    /\ Switching \/ reg["rsp"].of = readyQueueHead
    /\ ip = threadStart => reg["rsp"].words % 2 = 1

Place(address, first, second) ==
    IF address = threadStart THEN <<first, second>> ELSE address

\* What a thread resumes with: its registers from p, rbp from the top of the
\* stack, the place below it.
Resumes(t, p, n) ==
    [regs |-> [r \in Preserved |-> IF r = "rbp" THEN stack[t][n] ELSE p[r]],
     frames |-> SubSeq(stack[t], 1, n - 2),
     pc |-> Place(stack[t][n - 1], p["rdi"], p["rsi"])]

\* What it has when it runs, or has just called asm_yield.
Has(t, n, address) ==
    [regs |-> [r \in Preserved |-> reg[r]],
     frames |-> SubSeq(stack[t], 1, n),
     pc |-> Place(address, reg["rdi"], reg["rsi"])]

\* The thread whose registers asm_yield is saving.
BeingSaved(t) == ip = asm_yield /\ step <= 11 /\ t = reg["rdi"]

Context(t) ==
    LET n == reg["rsp"].words
    IN  IF BeingSaved(t)
        THEN IF step = 1 THEN Has(t, n - 1, stack[t][n]) ELSE Resumes(t, reg, n)
        ELSE IF ~Switching /\ t = readyQueueHead THEN Has(t, n, ip)
        ELSE Resumes(t, tcb[t], tcb[t]["rsp"].words)

\* Threads are coroutines: whatever else runs in between, a thread goes on with
\* the registers and the stack it had, where it was, or begins with the function
\* and the argument it was created with (thread_asm.s:7-56, thread.c:249-271).
C == INSTANCE Coroutines WITH
    Thread <- TCB, RegisterFiles <- Files, Zeros <- [r \in Preserved |-> zero],
    running <- readyQueueHead, context <- [t \in alive |-> Context(t)]

ImplementsCoroutines == C!Spec
=============================================================================
