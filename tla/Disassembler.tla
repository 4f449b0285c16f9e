---------------------------- MODULE Disassembler ----------------------------
(***************************************************************************)
(* Assignment2/dsx20.c: the disassembler.  With the option -r a first pass *)
(* follows the flow of control and marks what it meets as code; a second   *)
(* one prints a line for each word.  Without it there is only the second.  *)
(*                                                                         *)
(* One step for each turn of a loop.  Of a line there is what kind of line *)
(* it is and the address it gives for a reference; the registers and the   *)
(* layout are left out.                                                    *)
(***************************************************************************)
EXTENDS ObjectFile, SequencesExt

CONSTANT MaxDepth   \* the activations that the C stack has room for

VARIABLES
    dsx,            \* "idle", "walk", "print", "printed", or the end by a
                    \* "fault" or an "overflow" of the stack
    objFile,
    recursive,      \* whether -r is given
    dataOrCode,     \* the words marked as code
    activations,    \* the pc of every activation of recursiveDisassembler
    listing

Idle ==
    /\ dsx = "idle"
    /\ objFile = [inSymbols |-> <<>>, outSymbols |-> <<>>, objCode |-> <<>>]
    /\ recursive = FALSE
    /\ dataOrCode = {}
    /\ activations = <<>>
    /\ listing = <<>>

\* What main reads from a file.
Loaded(blob) ==
    LET inSymLen == readWord(blob, 0)
        outSymLen == readWord(blob, 1)
    IN  [inSymbols |-> readSymbolSection(blob, Symbols(inSymLen), 3),
         outSymbols |-> readSymbolSection(blob, Symbols(outSymLen), 3 + inSymLen),
         objCode |-> getObjCodeAsWordArray(blob, 3 + inSymLen + outSymLen, readWord(blob, 2))]

main(blob, r) ==
    /\ dsx = "idle"
    /\ dsx' = IF r THEN "walk" ELSE "print"
    /\ objFile' = Loaded(blob)
    /\ recursive' = r
    /\ dataOrCode' = {}
    /\ activations' = IF r THEN <<0>> ELSE <<>>
    /\ listing' = <<>>

Code == objFile.objCode

\* Whether the word before pc refers to an imported symbol.
checkInsymbols(f, addr, pc) == addr = 0 /\ \E s \in ToSet(f.outSymbols) : s.addr = pc - 1

-----------------------------------------------------------------------------
(* The first pass *)

pc == Last(activations)
Walking == dsx = "walk" /\ activations # <<>>

\* The activation goes on at this pc.
GoesOn(to) == activations' = Append(Front(activations), to)

\* The word at pc is marked, unless it is outside the code.
Visits(opcodes) ==
    /\ Walking
    /\ pc \in 0 .. Len(Code) - 1
    /\ Opcode(Code[pc + 1]) \in opcodes
    /\ dataOrCode' = dataOrCode \cup {pc}
    /\ UNCHANGED <<objFile, recursive, listing>>

VisitsHaltOrRet ==
    /\ Visits({0, 16})
    /\ activations' = Front(activations)
    /\ UNCHANGED dsx

\* Bug: jumps followed backwards, too.
VisitsJmp_backwards ==
    /\ Visits({20})
    /\ GoesOn(pc + 1 + Addr(Code[pc + 1]))
    /\ UNCHANGED dsx

\* A jump backwards is passed over.
VisitsJmp ==
    /\ Visits({20})
    /\ LET addr == Addr(Code[pc + 1])
       IN  GoesOn(IF addr > 0 THEN pc + 1 + addr ELSE pc + 1)
    /\ UNCHANGED dsx

\* Bug: the address relative to the call itself.
VisitsCall_ofCall ==
    /\ Visits({15})
    /\ LET addr == Addr(Code[pc + 1])
       IN  IF checkInsymbols(objFile, addr, pc + 1) THEN GoesOn(pc + 1) /\ UNCHANGED dsx
           ELSE IF Len(activations) = MaxDepth
           THEN dsx' = "overflow" /\ UNCHANGED activations
           ELSE /\ activations' = Front(activations) \o <<pc + 1, pc + addr>>
                /\ UNCHANGED dsx

\* A call into this file is walked at once, visited or not.
VisitsCall ==
    /\ Visits({15})
    /\ LET addr == Addr(Code[pc + 1])
       IN  IF checkInsymbols(objFile, addr, pc + 1) THEN GoesOn(pc + 1) /\ UNCHANGED dsx
           ELSE IF Len(activations) = MaxDepth
           THEN dsx' = "overflow" /\ UNCHANGED activations
           ELSE /\ activations' = Front(activations) \o <<pc + 1, pc + 1 + addr>>
                /\ UNCHANGED dsx

VisitsOther ==
    /\ Visits(0 .. 255 \ {0, 15, 16, 20})
    /\ GoesOn(pc + 1)
    /\ UNCHANGED dsx

\* Behind the code an activation ends; in front of it there is no word to read.
Leaves ==
    /\ Walking
    /\ IF pc >= Len(Code)
       THEN activations' = Front(activations) /\ UNCHANGED dsx
       ELSE pc < 0 /\ dsx' = "fault" /\ UNCHANGED activations
    /\ UNCHANGED <<objFile, recursive, dataOrCode, listing>>

WalkReturns ==
    /\ dsx = "walk" /\ activations = <<>>
    /\ dsx' = "print"
    /\ UNCHANGED <<objFile, recursive, dataOrCode, activations, listing>>

-----------------------------------------------------------------------------
(* The second pass *)

\* opcodeNames and instrFormatHandlers of this program, by opcode.
names == <<
    "halt", "load", "store", "ldimm", "ldaddr", "ldind", "stind", "addf", "subf",
    "divf", "mulf", "addi", "subi", "divi", "muli", "call", "ret", "blt", "bgt",
    "beq", "jmp", "cmpxchg", "getpid", "getpn", "push", "pop">>

handlers == <<
    "op", "opRegAddr", "opRegAddr", "opRegConst", "opRegAddr", "opRegOffsetReg",
    "opRegOffsetReg", "opRegReg", "opRegReg", "opRegReg", "opRegReg", "opRegReg",
    "opRegReg", "opRegReg", "opRegReg", "opAddr", "op", "opRegRegAddr",
    "opRegRegAddr", "opRegRegAddr", "opAddr", "opRegRegAddr", "opReg", "opReg",
    "opReg", "opReg">>

\* Bug: the addresses of all instructions taken for 20 bits.
Reference_wide(w) ==
    IF handlers[Opcode(w) + 1] \in {"opAddr", "opRegAddr", "opRegRegAddr"} THEN <<Addr(w)>>
    ELSE <<>>

\* The address relative to the PC that the handler takes from the word, if any.
Reference(w) ==
    LET handler == handlers[Opcode(w) + 1]
    IN  IF handler \in {"opAddr", "opRegAddr"} THEN <<Addr(w)>>
        ELSE IF handler = "opRegRegAddr" THEN <<Offset(w)>> ELSE <<>>

\* A line: the instruction, the address it refers to, if any, and whether
\* [UNDEF] is printed in place of that.
Line(kind, address, undef) == [kind |-> kind, address |-> address, undef |-> undef]

Absolute(w, next) == [k \in DOMAIN Reference(w) |-> next + Reference(w)[k]]

Formatted(w, next) ==
    IF \E k \in DOMAIN Reference(w) : checkInsymbols(objFile, Reference(w)[k], next)
    THEN Line(names[Opcode(w) + 1], <<>>, TRUE)
    ELSE Line(names[Opcode(w) + 1], Absolute(w, next), FALSE)

\* The handler of a word marked as code is called whatever its opcode is; above
\* 25 there is none.
PrintsLine ==
    /\ dsx = "print" /\ Len(listing) < Len(Code)
    /\ LET a == Len(listing)
           w == Code[a + 1]
           known == Opcode(w) < 26
           asCode == IF recursive THEN a \in dataOrCode ELSE known
       IN  IF asCode /\ ~known THEN dsx' = "fault" /\ UNCHANGED listing
           ELSE /\ listing' = Append(listing,
                    IF asCode THEN Formatted(w, a + 1)
                    ELSE Line(IF recursive THEN "[DATA]" ELSE "UNKNOWN", <<>>, FALSE))
                /\ UNCHANGED dsx
    /\ UNCHANGED <<objFile, recursive, dataOrCode, activations>>

Exits ==
    /\ dsx = "print" /\ Len(listing) = Len(Code)
    /\ dsx' = "printed"
    /\ UNCHANGED <<objFile, recursive, dataOrCode, activations, listing>>

Steps ==
    \/ VisitsHaltOrRet \/ VisitsJmp \/ VisitsCall \/ VisitsOther \/ Leaves
    \/ WalkReturns \/ PrintsLine \/ Exits
=============================================================================
