------------------------------- MODULE Linker -------------------------------
(***************************************************************************)
(* Assignment2/linkx20.c: the linker puts the code of the files on the     *)
(* command line one behind the other, moves the symbols they define, and   *)
(* fills in the addresses of the symbols they import.                      *)
(*                                                                         *)
(* One step for each turn of the outer loops of main.  A file's numbers of *)
(* symbols and words are the lengths of its sequences; that its list of    *)
(* imported symbols gets shorter as they are resolved is the code's        *)
(* numOutSymbols--.                                                        *)
(***************************************************************************)
EXTENDS ObjectFile, FiniteSetsExt, SequencesExt

CONSTANTS
    CommandLines,   \* the files named on the command line, in order
    Missing         \* a name that no file has

\* A word of the code refers to one symbol at most.
ASSUME LinkerAssumption ==
    /\ Missing \notin ObjFile
    /\ CommandLines \subseteq Seq(ObjFile \cup {Missing})
    /\ \A line \in CommandLines : \A n \in DOMAIN line : line[n] # Missing =>
           \A k \in DOMAIN line[n].outSymbols :
               /\ line[n].outSymbols[k].addr < Len(line[n].objCode)
               /\ \A j \in 1 .. k - 1 :
                      line[n].outSymbols[j].addr # line[n].outSymbols[k].addr

VARIABLES
    argv,           \* the files named on the command line, before they were
                    \* assembled
    phase,          \* of main; "failed" or "unopened" after an exit with an error
    files,          \* objFiles: the object files as far as they are loaded
    offset,         \* ObjFile.offset of each
    mainx20Exists,
    i,              \* the file that the loop of this phase is at
    outFile         \* the words written

vars == <<argv, phase, files, offset, mainx20Exists, i, outFile>>

Init ==
    /\ argv \in CommandLines
    /\ phase = "load"
    /\ files = <<>>
    /\ offset = <<>>
    /\ mainx20Exists = FALSE
    /\ i = 1
    /\ outFile = <<>>

-----------------------------------------------------------------------------
(* Loading *)

Fails == phase' = "failed" /\ UNCHANGED <<argv, files, offset, mainx20Exists, i, outFile>>

\* The offset of the next file.
runningTotalOffset == IF i = 1 THEN 0 ELSE offset[i - 1] + Len(files[i - 1].objCode)

Moved(symbols, by) ==
    [k \in DOMAIN symbols |-> [symbols[k] EXCEPT !.addr = (@ + by) % Top]]

\* Bug: set anew for every file.
FindsMain_last(f) == Defines(f, "mainx20")

FindsMain(f) == mainx20Exists \/ Defines(f, "mainx20")

loadFile ==
    /\ phase = "load" /\ i <= Len(argv)
    /\ IF argv[i] = Missing THEN Fails
       ELSE /\ LET f == parseObjFile(Assembled(argv[i]))
               IN  /\ files' = Append(files, [f EXCEPT !.inSymbols = Moved(@, runningTotalOffset)])
                   /\ mainx20Exists' = FindsMain(f)
            /\ offset' = Append(offset, runningTotalOffset)
            /\ i' = i + 1
            /\ UNCHANGED <<argv, phase, outFile>>

\* A name defined twice is noticed if both the files and the places in their
\* lists of symbols are different.
DuplicateInSymbols ==
    \E m, n \in DOMAIN files :
        \E j \in DOMAIN files[m].inSymbols, k \in DOMAIN files[n].inSymbols :
            /\ files[m].inSymbols[j].name = files[n].inSymbols[k].name
            /\ m # n /\ j # k

checkSymbols ==
    /\ phase = "load" /\ i > Len(argv)
    /\ IF ~mainx20Exists \/ DuplicateInSymbols THEN Fails
       ELSE /\ phase' = "resolve"
            /\ i' = 1
            /\ UNCHANGED <<argv, files, offset, mainx20Exists, outFile>>

-----------------------------------------------------------------------------
(* Resolving *)

\* What the lowest bit of the address in a word counts: 1 << shift.
AddressUnit(w) == IF Opcode(w) \in {5, 6, 17, 18, 19, 21} THEN 65536 ELSE 4096

\* Bug: the addresses of all instructions taken for 20 bits.
updateCodeWordAddr_wide(w, pcRelativeAddr) ==
    (w % 4096) + 4096 * (pcRelativeAddr % (16 * Offsets))

\* Bug: bits shifted out of the word.
updateCodeWordAddr_uncut(w, pcRelativeAddr) ==
    (w % AddressUnit(w)) + AddressUnit(w) * pcRelativeAddr

\* An address that does not fit is cut.
updateCodeWordAddr(w, pcRelativeAddr) ==
    (w % AddressUnit(w)) + AddressUnit(w) * (pcRelativeAddr % (Top \div AddressUnit(w)))

\* Bug: the last file that defines a name.
Definer_last(name) == Max({j \in DOMAIN files : Defines(files[j], name)})

\* The first file that defines a name.
Definer(name) == Min({j \in DOMAIN files : Defines(files[j], name)})

\* The last symbol that file i imports is filled in and taken off the list.
resolve ==
    /\ phase = "resolve" /\ i <= Len(files)
    /\ files[i].outSymbols # <<>>
    /\ LET symbol == Last(files[i].outSymbols)
           pc == offset[i] + symbol.addr + 1
           insymAddr == getAddress(files[Definer(symbol.name)], symbol.name)
       IN  IF \A j \in DOMAIN files : ~Defines(files[j], symbol.name) THEN Fails
           ELSE /\ files' = [files EXCEPT
                    ![i].objCode[symbol.addr + 1] = updateCodeWordAddr(@, insymAddr - pc),
                    ![i].outSymbols = Front(@)]
                /\ UNCHANGED <<argv, phase, offset, mainx20Exists, i, outFile>>

resolvedFile ==
    /\ phase = "resolve" /\ i <= Len(files)
    /\ files[i].outSymbols = <<>>
    /\ i' = i + 1
    /\ UNCHANGED <<argv, phase, files, offset, mainx20Exists, outFile>>

-----------------------------------------------------------------------------
(* Writing *)

\* The sum of the first n numbers.
SumOfFirst(numbers, n) ==
    LET sum[k \in 0 .. Len(numbers)] == IF k = 0 THEN 0 ELSE sum[k - 1] + numbers[k]
    IN  sum[n]

\* The lengths of the sections; no symbols are imported any more.
Header ==
    LET sumInSyms == SumOfFirst([j \in 1 .. Len(files) |-> Len(files[j].inSymbols)], Len(files))
        sumObjCodeLen == SumOfFirst([j \in 1 .. Len(files) |-> Len(files[j].objCode)], Len(files))
    IN  <<SymbolWords * sumInSyms, 0, sumObjCodeLen>>

\* The output file can be opened, or not.
openFile ==
    /\ phase = "resolve" /\ i > Len(files)
    /\ i' = 1
    /\ \/ phase' = "symbols" /\ outFile' = Header
       \/ phase' = "unopened" /\ UNCHANGED outFile
    /\ UNCHANGED <<argv, files, offset, mainx20Exists>>

writeInSymbols ==
    /\ phase = "symbols"
    /\ IF i <= Len(files)
       THEN /\ outFile' = outFile \o writeSymbols(files[i].inSymbols)
            /\ i' = i + 1
            /\ UNCHANGED phase
       ELSE /\ phase' = "code"
            /\ i' = 1
            /\ UNCHANGED outFile
    /\ UNCHANGED <<argv, files, offset, mainx20Exists>>

writeCode ==
    /\ phase = "code"
    /\ IF i <= Len(files)
       THEN /\ outFile' = outFile \o files[i].objCode
            /\ i' = i + 1
            /\ UNCHANGED phase
       ELSE phase' = "written" /\ UNCHANGED <<i, outFile>>
    /\ UNCHANGED <<argv, files, offset, mainx20Exists>>

Exited == phase \in {"written", "failed", "unopened"} /\ UNCHANGED vars

Next ==
    \/ loadFile \/ checkSymbols \/ resolve \/ resolvedFile
    \/ openFile \/ writeInSymbols \/ writeCode
    \/ Exited

Spec == Init /\ [][Next]_vars

-----------------------------------------------------------------------------
(* Properties *)

\* The linked program, as the machine reads it.
Linked == parseObjFile(outFile)

TypeOK ==
    /\ argv \in Seq(ObjFile \cup {Missing})
    /\ phase \in {"load", "resolve", "symbols", "code", "written", "failed",
                 "unopened"}
    /\ files \in Seq(ObjFile) /\ Len(files) <= Len(argv)
    /\ offset \in Seq(Nat) /\ Len(offset) = Len(files)
    /\ mainx20Exists \in BOOLEAN
    /\ i \in 1 .. Len(argv) + 1
    /\ phase = "written" => Linked \in ObjFile

\* Where the first word of file n of a command line belongs in the output.
FirstWord(line, n) == SumOfFirst([m \in 1 .. Len(line) |-> Len(line[m].objCode)], n - 1)

Start(n) == FirstWord(argv, n)

\* No symbol of the linked program lies beyond the largest address.
Addressable == \A line \in CommandLines : Missing \notin ToSet(line) =>
    \A n \in DOMAIN line : \A d \in ToSet(line[n].inSymbols) :
        FirstWord(line, n) + d.addr < Top

\* The symbols that file n imports at its word a.
ImportsAt(n, a) == {s \in ToSet(argv[n].outSymbols) : s.addr = a}

\* The bits of a word that hold an address relative to the PC, and the address,
\* as the machine understands it (opHandlers.c:34-37, 395-398).
HasOffset(w) ==
    Opcode(w) < 26 /\ opcodeNames[Opcode(w) + 1] \in
        {"ldind", "stind", "blt", "bgt", "beq", "cmpxchg"}
Distance(w) == IF HasOffset(w) THEN Offset(w) ELSE Addr(w)
Rest(w) == IF HasOffset(w) THEN w % 65536 ELSE w % 4096
Fits(w, d) ==
    LET values == IF HasOffset(w) THEN Offsets ELSE 16 * Offsets
    IN  d \in -(values \div 2) .. values \div 2 - 1

\* The linker's output has the words of all files in order, and differs from
\* them in nothing but the addresses of imported symbols (linkx20.c:77-95,
\* 254-259).
CodeKept ==
    phase = "written" =>
        /\ Len(Linked.objCode) = Start(Len(argv) + 1)
        /\ \A n \in DOMAIN argv : \A a \in 0 .. Len(argv[n].objCode) - 1 :
               LET was == argv[n].objCode[a + 1]
                   is == Linked.objCode[Start(n) + a + 1]
               IN  IF ImportsAt(n, a) = {} THEN is = was ELSE Rest(is) = Rest(was)

\* An instruction that refers to an imported symbol reaches the address that
\* the machine's caller is told for the name, and at which there is the word
\* that some file defines to be it, unless that is too far away
\* (linkx20.c:189-219, vmx20.c:63-75).
OneMeaning ==
    phase = "written" =>
        \A n \in DOMAIN argv : \A s \in ToSet(argv[n].outSymbols) :
            LET pc == Start(n) + s.addr + 1
                target == getAddress(Linked, s.name)
            IN  /\ Fits(argv[n].objCode[s.addr + 1], target - pc) =>
                       pc + Distance(Linked.objCode[pc]) = target
                /\ \E m \in DOMAIN argv : \E d \in ToSet(argv[m].inSymbols) :
                       d.name = s.name /\ target = Start(m) + d.addr

Unresolved(n) == \E s \in ToSet(argv[n].outSymbols) :
    \A m \in DOMAIN argv : ~Defines(argv[m], s.name)

\* What the linker writes the machine loads: no file is missing, every import is
\* defined, and there is an entry point.  And it refuses only what is wrong: one
\* of these is lacking, or a name is defined by two files (linkx20.c:70-72,
\* 169-187, 213-217, vmx20.c:33-53).
WritesIfSound ==
    LET complete ==
            /\ Missing \notin ToSet(argv)
            /\ \A n \in DOMAIN argv : ~Unresolved(n)
            /\ \E n \in DOMAIN argv : Defines(argv[n], "mainx20")
        twice ==
            \E m, n \in DOMAIN argv : m # n /\ \E s \in ToSet(argv[m].inSymbols) :
                Defines(argv[n], s.name)
    IN  /\ phase = "written" => complete /\ Defines(Linked, "mainx20")
        /\ phase = "failed" => ~complete \/ twice
=============================================================================
