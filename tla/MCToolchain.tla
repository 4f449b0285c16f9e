---------------------------- MODULE MCToolchain ----------------------------
(***************************************************************************)
(* The command lines of MCLinker, and programs to disassemble.             *)
(***************************************************************************)
EXTENDS Toolchain, MCLinker

\* jmp, call, blt, halt, ret, and words that are data.
Jmp(k) == 20 + 4096 * (k % 256)
Call(k) == 15 + 4096 * (k % 256)
Blt(k) == 17 + 256 + 65536 * (k % 16)
Halt == 0
Ret == 16
Data == 255
Instruction == 11

Program(code) == [inSymbols |-> <<Sym("mainx20", 0)>>, outSymbols |-> <<>>, objCode |-> code]

Programs == {
    \* test.asm: data jumped over, nested calls
    <<Jmp(1), Data, Call(2), Call(4), Halt, Call(2), Ret, Data, Jmp(1), Data, Ret>>,
    \* a loop, behind it what never ends a walk well: data
    <<Instruction, Jmp(-2), Data>>,
    \* a loop, and data that look like code
    <<Blt(2), Instruction, Jmp(-3), Instruction, Halt>>,
    \* code that only a branch leads to
    <<Blt(1), Halt, Instruction, Halt>>,
    \* factorial, and two functions that call each other
    <<Call(1), Halt, Blt(1), Call(-2), Ret>>,
    <<Call(1), Halt, Call(1), Ret, Call(-3), Ret>>,
    \* a function behind one that calls it, and one that runs off the end
    <<Call(3), Call(2), Halt, Ret, Call(-2), Ret>>,
    <<Call(2), Call(2), Jmp(4), Call(-3), Instruction>> }

ToolLines == Lines \cup {<<Program(code)>> : code \in Programs}
=============================================================================
