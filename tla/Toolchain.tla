----------------------------- MODULE Toolchain -----------------------------
(***************************************************************************)
(* The programs of Assignment2 one after the other: object files are       *)
(* linked and the linker's output is disassembled, or one of the files is  *)
(* disassembled instead.                                                   *)
(***************************************************************************)
EXTENDS Linker

CONSTANTS MaxDepth, MAX_ADDR

VARIABLES dsx, objFile, recursive, dataOrCode, activations, listing

D == INSTANCE Disassembler

\* The machine's disassembler, which has no state.
M == INSTANCE MachineDisassembler

dsxVars == <<dsx, objFile, recursive, dataOrCode, activations, listing>>
toolVars == <<vars, dsxVars>>

\* Every code that is disassembled has fewer words than the stack has room for
\* activations.
ASSUME ToolchainAssumption ==
    /\ MaxDepth \in Nat
    /\ \A line \in CommandLines :
           MapThenSumSet(LAMBDA n : IF line[n] = Missing THEN 0 ELSE Len(line[n].objCode),
                         DOMAIN line) < MaxDepth

ASSUME AddressAssumption == MAX_ADDR \in Nat

ToolInit == Init /\ D!Idle

Links == dsx = "idle" /\ Next /\ UNCHANGED dsxVars

\* An object file before it is linked, or what the linker has written.
Disassembles ==
    /\ \E r \in BOOLEAN :
           \/ /\ phase = "load" /\ i = 1
              /\ \E n \in DOMAIN argv : argv[n] # Missing /\ D!main(Assembled(argv[n]), r)
           \/ /\ phase = "written"
              /\ D!main(outFile, r)
    /\ UNCHANGED vars

Prints == D!Steps /\ UNCHANGED vars

Over == dsx \in {"printed", "fault", "overflow"} /\ UNCHANGED toolVars

ToolNext == Links \/ Disassembles \/ Prints \/ Over

ToolSpec == ToolInit /\ [][ToolNext]_toolVars /\ WF_toolVars(Prints)

-----------------------------------------------------------------------------
(* Properties *)

Words == 0 .. Len(objFile.objCode) - 1

\* The words that the machine may execute after each word, if a program leaves
\* its code, the PC and its return addresses alone: both ways of a branch, and
\* with a call also the word behind it, to which the function may return.
Machine ==
    [a \in Words |->
        LET w == objFile.objCode[a + 1]
            name == opcodeNames[Opcode(w) + 1]
        IN  Words \cap
            IF Opcode(w) > 25 \/ name \in {"halt", "ret"} THEN {}
            ELSE IF name = "jmp" THEN {a + 1 + Addr(w)}
            ELSE IF name = "call" THEN {a + 1, a + 1 + Addr(w)}
            ELSE IF name \in {"blt", "bgt", "beq"} THEN {a + 1, a + 1 + Offset(w)}
            ELSE {a + 1}]

Has(a, names) ==
    LET opcode == Opcode(objFile.objCode[a + 1])
    IN  opcode < 26 /\ opcodeNames[opcode + 1] \in names

Illegal(a) == Opcode(objFile.objCode[a + 1]) > 25

\* Of these, those reached without a branch that is taken or a jump backwards.
Straight ==
    [a \in Words |->
        {b \in Machine[a] : /\ Has(a, {"blt", "bgt", "beq"}) => b = a + 1
                            /\ Has(a, {"jmp"}) => b > a}]

\* As if a jump backwards, or a word that is no instruction, might do nothing.
Loose ==
    [a \in Words |->
        Machine[a] \cup (Words \cap
            IF Illegal(a) \/ \E b \in Machine[a] : Has(a, {"jmp"}) /\ b <= a
            THEN {a + 1} ELSE {})]

Reached(next, from) ==
    LET within[k \in 0 .. Len(objFile.objCode)] ==
            IF k = 0 THEN from \cap Words
            ELSE LET before == within[k - 1]
                 IN  before \cup UNION {next[a] : a \in before}
    IN  within[Len(objFile.objCode)]

\* A call is reached whose function leads to it again.
Recursion(next) ==
    \E a \in Reached(next, {0}) :
        Has(a, {"call"}) /\ a \in Reached(next, {a + 1 + Addr(objFile.objCode[a + 1])})

\* The first pass, measured by what the machine may execute from word 0 on: it
\* misses only what a taken branch or a jump backwards leads to, and marks
\* besides only what stands behind a jump backwards or a word that is no
\* instruction.  It runs out of stack for functions that call themselves, always
\* and only for these, and a word without a handler or in front of the code is
\* met in no other program than one that has it on those ways (dsx20.c:248-274,
\* 332).
WalkBounds ==
    recursive =>
        /\ dsx = "print" /\ listing = <<>> =>
               /\ Reached(Straight, {0}) \subseteq dataOrCode
               /\ dataOrCode \subseteq Reached(Loose, {0})
               /\ ~Recursion(Straight)
        /\ dsx = "overflow" => Recursion(Loose)
        /\ dsx = "fault" =>
               \E a \in Reached(Loose, {0}) :
                   Illegal(a) \/ (Has(a, {"call"}) /\ a + 1 + Addr(objFile.objCode[a + 1]) < 0)

\* A line of dsx20 says what the machine's disassembler answers.
SaysTheSame(line, answer) ==
    IF answer.returned = 1
    THEN line = D!Line(answer.name, answer.operand, FALSE)
    ELSE line.kind = "UNKNOWN" /\ answer.errorNumber = M!VMX20_ILLEGAL_INSTRUCTION

\* The instructions that use an address in the memory relative to the PC.
HasAddress(w) ==
    Opcode(w) < 26 /\ opcodeNames[Opcode(w) + 1] \in
        {"load", "store", "ldaddr", "call", "jmp", "blt", "bgt", "beq", "cmpxchg"}

\* In the listing of a linked program every instruction that refers to an
\* imported symbol has the address at which the symbol section lists the symbol,
\* unless it is too far away, nothing is undefined, and every line says what the
\* machine's disassembler, with a table and handlers of its own, says of the
\* word in the memory: the same instruction and address, or that it is none
\* (dsx20.c:75-164, linkx20.c:77-95, vmx20.c:179-197, 229-256, vmx20.h:75-78).
ListingAgrees ==
    phase = "written" /\ dsx = "printed" /\ ~recursive =>
        /\ Len(listing) = Len(Linked.objCode)
        /\ \A a \in Words : a < MAX_ADDR =>
               SaysTheSame(listing[a + 1], M!disassemble(Linked.objCode, a))
        /\ \A n \in DOMAIN argv : \A s \in ToSet(argv[n].outSymbols) :
               LET at == Start(n) + s.addr + 1
                   w == argv[n].objCode[s.addr + 1]
                   target == getAddress(Linked, s.name)
               IN  HasAddress(w) /\ Fits(w, target - at) => listing[at].address = <<target>>

\* The disassembler comes to an end, if only that of its stack
\* (dsx20.c:248-274, 327-337).
DisassemblyEnds == dsx # "idle" ~> dsx \in {"printed", "fault", "overflow"}
=============================================================================
