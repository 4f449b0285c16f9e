----------------------------- MODULE ObjectFile -----------------------------
(***************************************************************************)
(* What the linker of Assignment2 writes and the machine of Assignment3    *)
(* reads: object files, and the words of their code.                       *)
(*                                                                         *)
(* A word has 16 bits for the opcode and two registers, as in the code,    *)
(* and a field of Offsets values for the rest, which are 2^16 there.  A    *)
(* file is a sequence of words; the order of the four bytes of one, which  *)
(* the programs agree on, is left out, and addresses count words.          *)
(***************************************************************************)
EXTENDS Integers, Sequences

CONSTANT Offsets        \* how many values the offset behind two registers has

ASSUME OffsetAssumption == Offsets \in Nat \ {0} /\ Offsets % 2 = 0

Top == 65536 * Offsets      \* one more than the largest word
Word == 0 .. Top - 1

opcodeNames == <<"halt", "load", "store", "ldimm", "ldaddr", "ldind", "stind",
    "addf", "subf", "divf", "mulf", "addi", "subi", "divi", "muli", "call", "ret",
    "blt", "bgt", "beq", "jmp", "cmpxchg", "getpid", "getpn", "push", "pop">>

Opcode(w) == w % 256
Reg1(w) == (w \div 256) % 16
Reg2(w) == (w \div 4096) % 16

\* The signed value of a field that has this many values.
twosComplementer(value, values) == IF value < values \div 2 THEN value ELSE value - values

Addr(w) == twosComplementer(w \div 4096, 16 * Offsets)
Offset(w) == twosComplementer(w \div 65536, Offsets)

\* inSymbols are the names a file defines, with their addresses; outSymbols the
\* places at which it refers to names of other files.
Symbol == [name : STRING, addr : Word]
ObjFile == [inSymbols : Seq(Symbol), outSymbols : Seq(Symbol), objCode : Seq(Word)]

-----------------------------------------------------------------------------
(* A file: the lengths of the three sections, imported symbols behind those  *)
(* that are defined, and the code.  A symbol is five words: of the four for  *)
(* its name the first stands for it here; and the address.                   *)

SymbolWords == 5

Symbols(words) == words \div SymbolWords

\* The words of some symbols, one symbol after the other.
writeSymbols(symbols) ==
    [w \in 1 .. SymbolWords * Len(symbols) |->
        LET symbol == symbols[(w - 1) \div SymbolWords + 1]
        IN  IF w % SymbolWords = 1 THEN symbol.name
            ELSE IF w % SymbolWords = 0 THEN symbol.addr ELSE ""]

\* What the assembler makes of a program.
Assembled(f) ==
    <<SymbolWords * Len(f.inSymbols), SymbolWords * Len(f.outSymbols), Len(f.objCode)>>
        \o writeSymbols(f.inSymbols) \o writeSymbols(f.outSymbols) \o f.objCode

readWord(blob, addr) == blob[addr + 1]

readSymbolSection(blob, numSymbols, secStartAddr) ==
    [k \in 1 .. numSymbols |->
        LET start == secStartAddr + SymbolWords * (k - 1)
        IN  [name |-> readWord(blob, start), addr |-> readWord(blob, start + 4)]]

getObjCodeAsWordArray(blob, codeStartAddr, numCodeWords) ==
    SubSeq(blob, codeStartAddr + 1, codeStartAddr + numCodeWords)

\* What the machine and the linker read from a file.
parseObjFile(blob) ==
    LET numInSymbols == Symbols(readWord(blob, 0))
        numOutSymbols == Symbols(readWord(blob, 1))
        outStart == 3 + SymbolWords * numInSymbols
    IN  [inSymbols |-> readSymbolSection(blob, numInSymbols, 3),
         outSymbols |-> readSymbolSection(blob, numOutSymbols, outStart),
         objCode |-> getObjCodeAsWordArray(blob, outStart + SymbolWords * numOutSymbols,
                                           readWord(blob, 2))]

-----------------------------------------------------------------------------
Defines(f, label) == \E k \in DOMAIN f.inSymbols : f.inSymbols[k].name = label

\* The address of the first symbol of that name.
getAddress(f, label) ==
    f.inSymbols[CHOOSE k \in DOMAIN f.inSymbols :
        /\ f.inSymbols[k].name = label
        /\ \A j \in 1 .. k - 1 : f.inSymbols[j].name # label].addr
=============================================================================
