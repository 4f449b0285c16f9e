-------------------------------- MODULE MCVM --------------------------------
(***************************************************************************)
(* Programs for the machine of VM, as the test programs of Assignment3 and *)
(* others in their style, and what they must have done when execute        *)
(* returns.                                                                *)
(***************************************************************************)
EXTENDS VM

(* An assembler: the operands as in the .asm files, labels as addresses. *)

OpcodeOf(name) == (CHOOSE i \in 1 .. Len(opcodeNames) : opcodeNames[i] = name) - 1

Short(op, reg1, k) == OpcodeOf(op) + 256 * reg1 + 4096 * (k % (16 * Offsets))
Long(op, reg1, reg2, k) ==
    OpcodeOf(op) + 256 * reg1 + 4096 * reg2 + 65536 * (k % Offsets)

\* The word of line c, if the next line is at address next.
Encode(c, next) ==
    CASE c[1] = "word" -> c[2]
      [] c[1] \in {"halt", "ret"} -> Short(c[1], 0, 0)
      [] c[1] \in {"call", "jmp"} -> Short(c[1], 0, c[2] - next)
      [] c[1] \in {"getpid", "getpn", "push", "pop"} -> Short(c[1], c[2], 0)
      [] c[1] = "ldimm" -> Short(c[1], c[2], c[3])
      [] c[1] \in {"load", "store", "ldaddr"} -> Short(c[1], c[2], c[3] - next)
      [] c[1] \in {"ldind", "stind"} -> Long(c[1], c[2], c[3], c[4])
      [] c[1] \in {"blt", "bgt", "beq", "cmpxchg"} -> Long(c[1], c[2], c[3], c[4] - next)
      [] OTHER -> Long(c[1], c[2], c[3], 0)

\* The file of a program that starts at main.
Assemble(main, lines) ==
    [inSymbols |-> <<[name |-> "mainx20", addr |-> main]>>, outSymbols |-> <<>>,
     objCode |-> [i \in 1 .. Len(lines) |-> Encode(lines[i], i)]]

\* Floats stand for themselves as whole numbers.
WholeFloat(op, x, y) ==
    (CASE op = "addf" -> x + y [] op = "subf" -> x - y [] op = "mulf" -> x * y
       [] op = "divf" -> x \div y) % Top

Stacks == [p \in 0 .. 15 |-> IF p < 4 THEN MAX_ADDR - 8 * p ELSE 0]

Executing(file) == machine = "running" /\ currentExecutable = file
Executed(file) == result = 1 /\ machine = "idle" /\ currentExecutable = file
Started == {p \in Procs : at[p] # "never"}

FairSpec == Spec /\ ThreadsRun

-----------------------------------------------------------------------------
(* A counter under a spin lock *)

LockFile == Assemble(2, <<
    <<"word", 0>>,              \*  0 lock
    <<"word", 0>>,              \*  1 count
    <<"ldimm", 2, 1>>,          \*  2 mainx20
    <<"ldimm", 1, 0>>,          \*  3 try
    <<"cmpxchg", 1, 2, 0>>,     \*  4
    <<"beq", 1, 3, 7>>,         \*  5 r3 is 0
    <<"jmp", 3>>,               \*  6
    <<"load", 4, 1>>,           \*  7 got
    <<"addi", 4, 2>>,           \*  8
    <<"store", 4, 1>>,          \*  9
    <<"store", 3, 0>>,          \* 10
    <<"halt">> >>)

\* Two processors are never both between the lock's taking and its release.
MutualExclusion ==
    Executing(LockFile) => \A p, q \in Procs : p # q =>
        ~ \A i \in {p, q} : \/ at[i] = "fetch" /\ r[i][PC] \in 7 .. 10
                            \/ at[i] = "execute" /\ r[i][PC] \in 8 .. 11

-----------------------------------------------------------------------------
(* MultiProcessorTest.asm: every processor writes its number *)

PidFile == Assemble(0, <<
    <<"jmp", 6>>,               \*  0 mainx20
    <<"word", 0>>,              \*  1 pn
    <<"word", 9>>,              \*  2 x1
    <<"word", 9>>,              \*  3 x2
    <<"word", 9>>,              \*  4 x3
    <<"word", 9>>,              \*  5 x4
    <<"getpn", 0>>,             \*  6 skipData
    <<"store", 0, 1>>,          \*  7
    <<"ldaddr", 1, 2>>,         \*  8
    <<"getpid", 2>>,            \*  9
    <<"addi", 1, 2>>,           \* 10
    <<"stind", 2, 1, 0>>,       \* 11
    <<"halt">> >>)

\* "x1" to "x4" and "pn" are as the test expects, and all processors ended
\* normally (testHarness.c:214-218).
PidsWritten ==
    Executed(PidFile) =>
        /\ Started # {} => mem[1] = totalNumProcessors
        /\ \A p \in Started : mem[2 + p] = p /\ terminationStatus[p] = NORMAL_TERMINATION

-----------------------------------------------------------------------------
(* Nested calls on stacks of their own, as in TestCallPushAndPop.asm *)

CallFile == Assemble(3, <<
    <<"word", 0>>,              \*  0 results of the processors
    <<"word", 0>>,              \*  1
    <<"word", 0>>,              \*  2
    <<"addi", FP, SP>>,         \*  3 mainx20: a frame
    <<"ldimm", 0, 1>>,          \*  4
    <<"subi", SP, 0>>,          \*  5
    <<"call", 11>>,             \*  6
    <<"ldind", 1, FP, -1>>,     \*  7
    <<"ldaddr", 3, 0>>,         \*  8
    <<"jmp", 17>>,              \*  9
    <<"halt">>,                 \* 10
    <<"call", 13>>,             \* 11 get
    <<"ret">>,                  \* 12
    <<"getpid", 7>>,            \* 13 inner
    <<"addi", 7, 0>>,           \* 14
    <<"stind", 7, FP, -1>>,     \* 15
    <<"ret">>,                  \* 16
    <<"getpid", 2>>,            \* 17
    <<"addi", 3, 2>>,           \* 18
    <<"stind", 1, 3, 0>>,       \* 19
    <<"push", 1>>,              \* 20
    <<"pop", SP>>,              \* 21
    <<"halt">> >>)

-----------------------------------------------------------------------------
(* The branches of BranchingTest.asm and the arithmetic of the other tests *)

MathFile == Assemble(5, <<
    <<"word", 0>>,              \*  0 x
    <<"word", 1>>,              \*  1 y
    <<"word", 0>>,              \*  2 z
    <<"word", 0>>,              \*  3 result of the integer arithmetic
    <<"word", 0>>,              \*  4 and of the float arithmetic
    <<"load", 1, 0>>,           \*  5 mainx20
    <<"load", 2, 1>>,           \*  6
    <<"blt", 1, 2, 10>>,        \*  7
    <<"bgt", 1, 2, 12>>,        \*  8
    <<"beq", 1, 2, 14>>,        \*  9
    <<"ldimm", 3, 1>>,          \* 10 z1
    <<"jmp", 15>>,              \* 11
    <<"ldimm", 3, 2>>,          \* 12 z2
    <<"jmp", 15>>,              \* 13
    <<"ldimm", 3, 3>>,          \* 14 z3
    <<"store", 3, 2>>,          \* 15 end
    <<"ldimm", 5, -3>>,         \* 16 ((x + -3) - y) * -3 / -3
    <<"addi", 1, 5>>,           \* 17
    <<"subi", 1, 2>>,           \* 18
    <<"muli", 1, 5>>,           \* 19
    <<"divi", 1, 5>>,           \* 20
    <<"store", 1, 3>>,          \* 21
    <<"ldimm", 6, 2>>,          \* 22
    <<"ldimm", 7, 3>>,          \* 23
    <<"addf", 6, 7>>,           \* 24 (2.0 + 3.0 - 3.0) * 3.0 / 3.0
    <<"subf", 6, 7>>,           \* 25
    <<"mulf", 6, 7>>,           \* 26
    <<"divf", 6, 7>>,           \* 27
    <<"store", 6, 4>>,          \* 28
    <<"halt">> >>)

\* z says how x compares with y, as the test expects after each execution; and
\* the arithmetic wraps at the sign (testHarness.c:140-174).
BranchesRight ==
    Executed(MathFile) /\ AllStarted =>
        /\ mem[2] = IF Signed(mem[0]) < 1 THEN 1 ELSE IF Signed(mem[0]) > 1 THEN 2 ELSE 3
        /\ Signed(mem[3]) = Signed(mem[0]) - 4
        /\ mem[4] = 2

-----------------------------------------------------------------------------
(* Each processor ends in its own way *)

ErrorFile == Assemble(0, <<
    <<"getpid", 1>>,            \*  0 mainx20
    <<"ldaddr", 2, 4>>,         \*  1
    <<"addi", 2, 1>>,           \*  2
    <<"addi", PC, 1>>,          \*  3 skips as many lines as the number says
    <<"divi", 1, 1>>,           \*  4
    <<"jmp", -1>>,              \*  5
    <<"word", 26>> >>)          \*  6

\* A processor's error is its own: each status is that of its own program.
StatusesRight ==
    Executed(ErrorFile) => \A p \in Started : terminationStatus[p] =
        <<DIVIDE_BY_ZERO, ADDRESS_OUT_OF_RANGE, ILLEGAL_INSTRUCTION>>[p + 1]

\* When execute returns, every processor that was started has ended, has done
\* what its program says and has a status of its own, whatever ran in between
\* and before (vmx20.c:116-177, testHarness.c:140-218).
ResultsRight == PidsWritten /\ BranchesRight /\ StatusesRight

-----------------------------------------------------------------------------
(* A processor that spins until the other one rewrites its code *)

SpinFile == Assemble(0, <<
    <<"getpid", 1>>,            \*  0 mainx20
    <<"beq", 1, 0, 3>>,         \*  1 processor 0 spins
    <<"jmp", 4>>,               \*  2
    <<"jmp", 3>>,               \*  3 spin
    <<"store", 0, 3>>,          \*  4 0 is the word of "halt"
    <<"halt">> >>)

-----------------------------------------------------------------------------
(* Files that are refused *)

UnlinkedFile == [LockFile EXCEPT !.outSymbols = <<[name |-> "get", addr |-> 3]>>]
EntrylessFile == [LockFile EXCEPT !.inSymbols = <<>>]

-----------------------------------------------------------------------------
(* What the caller does *)

AllFiles == {LockFile, PidFile, CallFile, MathFile, ErrorFile, SpinFile,
             UnlinkedFile, EntrylessFile}

ProgramCounts(f) ==
    CASE f = PidFile -> {1, 2, 4}
      [] f = LockFile -> {2, 3}
      [] f = ErrorFile -> {3}
      [] f \in {CallFile, SpinFile} -> {2}
      [] f = MathFile -> {1}
      [] OTHER -> {}

ProgramPokes(f) == IF f = MathFile THEN {0} \X {0, 1, 2, Top - 1} ELSE {}
=============================================================================
