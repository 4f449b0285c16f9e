------------------------------ MODULE MCLinker ------------------------------
(***************************************************************************)
(* Command lines for the linker: up to three files with combinations of    *)
(* the symbols and codes below.  In some a file lies between the others    *)
(* that separates them by more than a branch can bridge.                   *)
(***************************************************************************)
EXTENDS Linker

Sym(name, addr) == [name |-> name, addr |-> addr]

Defined == {
    <<>>,
    <<Sym("mainx20", 0)>>,
    <<Sym("a", 1)>>,
    <<Sym("mainx20", 1), Sym("a", 0)>>,
    <<Sym("a", 1), Sym("b", 0)>> }

Imported == {
    <<>>,
    <<Sym("a", 1)>>,
    <<Sym("mainx20", 0)>>,
    <<Sym("b", 0), Sym("a", 1)>> }

\* call and beq r3, r5 without an address; load r7 with one, and data.
FirstCode == <<15, 19 + 3 * 256 + 5 * 4096>>
Codes == {FirstCode, <<1 + 7 * 256 + 9 * 4096, 19 + 3 * 256 + 5 * 4096, 12345>> }

Objects == [inSymbols : Defined, outSymbols : Imported, objCode : Codes]

\* Data only.
Padding == [inSymbols |-> <<>>, outSymbols |-> <<>>, objCode |-> [a \in 1 .. 9 |-> a]]

Lines ==
    {<<f>> : f \in Objects} \cup {<<f, g>> : f, g \in Objects}
    \cup {<<f, Padding, g>> : f, g \in Objects} \cup {<<f, Missing>> : f \in Objects}
    \cup {<<f, g, h>> : f, g, h \in
             [inSymbols : Defined, outSymbols : {<<>>, <<Sym("a", 1)>>}, objCode : {FirstCode}]}

\* Under this the linker has been proved to give names one meaning.
ASSUME ProgramsAreAddressable == Addressable
=============================================================================
