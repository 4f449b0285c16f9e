-------------------------- MODULE ObjectFileProofs --------------------------
(***************************************************************************)
(* Words and symbols: what division with remainder takes out of a word,    *)
(* and which symbol a name leads to.  And files: what is written as an     *)
(* object file is read back from it, whatever the numbers of symbols and   *)
(* words.                                                                  *)
(***************************************************************************)
EXTENDS ObjectFile, SequenceTheorems, WellFoundedInduction, TLAPS

-----------------------------------------------------------------------------
(* Words *)

LEMMA TopFacts ==
    /\ Offsets \in Nat \ {0} /\ Offsets % 2 = 0
    /\ Top \in Nat /\ Top >= 131072 /\ Top = 65536 * Offsets
    /\ Word = 0 .. Top - 1 /\ Top \div 2 = 32768 * Offsets
<1>1. Offsets \in Nat \ {0} /\ Offsets % 2 = 0
  BY OffsetAssumption
<1>2. Offsets >= 2
  BY <1>1
<1> QED BY <1>1, <1>2 DEF Top, Word

LEMMA ModWord ==
    ASSUME NEW x \in Int PROVE x % Top \in Word
BY TopFacts

\* Division with remainder determines quotient and remainder.
LEMMA ModOf ==
    ASSUME NEW m \in Nat \ {0}, NEW q \in Int, NEW x \in 0 .. m - 1
    PROVE  (m * q + x) % m = x /\ (m * q + x) \div m = q
OBVIOUS

LEMMA ModSmall ==
    ASSUME NEW m \in Nat \ {0}, NEW x \in 0 .. m - 1
    PROVE  x % m = x
<1>1. m * 0 + x = x
  OBVIOUS
<1> QED BY <1>1, ModOf

LEMMA ModField ==
    ASSUME NEW m \in Nat \ {0}, m % 2 = 0, NEW k \in -(m \div 2) .. m \div 2 - 1
    PROVE  k % m \in 0 .. m - 1 /\ twosComplementer(k % m, m) = k
<1>1. CASE k >= 0
  <2>1. k = m * 0 + k /\ k \in 0 .. m - 1 /\ k < m \div 2
    BY <1>1
  <2>2. k % m = k
    BY <2>1, ModOf
  <2> QED BY <2>1, <2>2 DEF twosComplementer
<1>2. CASE k < 0
  <2>1. k = m * (-1) + (k + m) /\ k + m \in 0 .. m - 1 /\ ~(k + m < m \div 2)
    BY <1>2
  <2>2. k % m = k + m
    BY <2>1, ModOf
  <2> QED BY <2>1, <2>2 DEF twosComplementer
<1> QED BY <1>1, <1>2

-----------------------------------------------------------------------------
(* The first of some numbers, the first symbol of a name *)

\* Every set of numbers that is not empty has a least one.
LEMMA LeastNat ==
    ASSUME NEW S \in SUBSET Nat, S # {}
    PROVE  \E n \in S : \A k \in S : n <= k
<1>1. IsWellFoundedOn(OpToRel(<, Nat), Nat)
  BY NatLessThanWellFounded
<1>2. PICK n \in S : \A k \in S : ~(<<k, n>> \in OpToRel(<, Nat))
  BY <1>1, WFMin
<1>3. ASSUME NEW k \in S PROVE n <= k
  <2>1. ~(<<k, n>> \in OpToRel(<, Nat))
    BY <1>2
  <2>2. k \in Nat /\ n \in Nat
    OBVIOUS
  <2>3. ~(k < n)
    BY <2>1, <2>2 DEF OpToRel
  <2> QED
    BY <2>2, <2>3
<1> QED
  BY <1>3

\* getAddress finds the first symbol of the name, if there is one.
LEMMA FirstSymbol ==
    ASSUME NEW f, f.inSymbols \in Seq(Symbol), NEW label, Defines(f, label)
    PROVE  \E k \in 1 .. Len(f.inSymbols) :
               /\ f.inSymbols[k].name = label /\ getAddress(f, label) = f.inSymbols[k].addr
               /\ \A j \in 1 .. k - 1 : f.inSymbols[j].name # label
<1>1. PICK s \in Seq(Symbol) : s = f.inSymbols
  OBVIOUS
<1>2. PICK n \in Nat : n = Len(s) /\ DOMAIN s = 1 .. n
  BY <1>1
<1> DEFINE S == {k \in 1 .. n : s[k].name = label}
<1>3. S \in SUBSET Nat /\ S # {}
  BY <1>1, <1>2 DEF Defines
<1>4. PICK k \in S : \A j \in S : k <= j
  BY <1>3, LeastNat
<1> DEFINE First(m) == m \in DOMAIN s /\ s[m].name = label /\ \A j \in 1 .. m - 1 : s[j].name # label
<1>5. First(k)
  BY <1>2, <1>4
<1>6. First(CHOOSE m \in DOMAIN s : s[m].name = label /\ \A j \in 1 .. m - 1 : s[j].name # label)
  BY <1>5
<1> QED BY <1>1, <1>2, <1>6 DEF getAddress

-----------------------------------------------------------------------------
(* Files *)

\* What the words of a file stand for.
Content == STRING \cup Int \cup {""}

LEMMA NamePlace ==
  ASSUME NEW k \in Nat \ {0}, NEW w, w = SymbolWords * (k - 1) + 1
  PROVE  w % SymbolWords = 1 /\ (w - 1) \div SymbolWords + 1 = k
BY DEF SymbolWords

LEMMA AddrPlace ==
  ASSUME NEW k \in Nat \ {0}, NEW w, w = SymbolWords * (k - 1) + 5
  PROVE  w % SymbolWords = 0 /\ (w - 1) \div SymbolWords + 1 = k
BY DEF SymbolWords

\* Word w of the words of some symbols.
WordOf(symbols, w) ==
    LET symbol == symbols[(w - 1) \div SymbolWords + 1]
    IN  IF w % SymbolWords = 1 THEN symbol.name
        ELSE IF w % SymbolWords = 0 THEN symbol.addr ELSE ""

LEMMA SymbolFields ==
  ASSUME NEW symbols \in Seq(Symbol), NEW k \in 1 .. Len(symbols)
  PROVE  /\ symbols[k].name \in Content /\ symbols[k].addr \in Content
         /\ symbols[k] = [name |-> symbols[k].name, addr |-> symbols[k].addr]
<1>1. symbols[k] \in Symbol
  BY ElementOfSeq
<1>2. symbols[k].name \in STRING /\ symbols[k].addr \in Word
  BY <1>1 DEF Symbol
<1>3. Word \subseteq Int
  BY DEF Word
<1> QED BY <1>1, <1>2, <1>3 DEF Content, Symbol

LEMMA WrittenSymbols ==
  ASSUME NEW symbols \in Seq(Symbol), NEW n, n = Len(symbols)
  PROVE  /\ writeSymbols(symbols) \in Seq(Content)
         /\ Len(writeSymbols(symbols)) = SymbolWords * n
         /\ \A k \in 1 .. n :
                /\ writeSymbols(symbols)[SymbolWords * (k - 1) + 1] = symbols[k].name
                /\ writeSymbols(symbols)[SymbolWords * (k - 1) + 5] = symbols[k].addr
<1>1. n \in Nat /\ SymbolWords * n \in Nat /\ SymbolWords = 5
  BY LenProperties DEF SymbolWords
<1>2. writeSymbols(symbols) = [w \in 1 .. SymbolWords * n |-> WordOf(symbols, w)]
  BY DEF writeSymbols, WordOf
<1>3. \A w \in 1 .. SymbolWords * n : WordOf(symbols, w) \in Content
  <2> SUFFICES ASSUME NEW w \in 1 .. SymbolWords * n PROVE WordOf(symbols, w) \in Content
    OBVIOUS
  <2>1. PICK k \in 1 .. n : k = (w - 1) \div SymbolWords + 1
    BY <1>1
  <2>2. symbols[k].name \in Content /\ symbols[k].addr \in Content
    BY SymbolFields
  <2>3. "" \in Content
    BY DEF Content
  <2> QED BY <2>1, <2>2, <2>3 DEF WordOf
<1>4. writeSymbols(symbols) \in Seq(Content) /\ Len(writeSymbols(symbols)) = SymbolWords * n
  BY <1>1, <1>2, <1>3
<1>5. ASSUME NEW k \in 1 .. n
      PROVE  /\ writeSymbols(symbols)[SymbolWords * (k - 1) + 1] = symbols[k].name
             /\ writeSymbols(symbols)[SymbolWords * (k - 1) + 5] = symbols[k].addr
  <2>1. PICK w \in 1 .. SymbolWords * n : w = SymbolWords * (k - 1) + 1
    BY <1>1
  <2>2. PICK v \in 1 .. SymbolWords * n : v = SymbolWords * (k - 1) + 5
    BY <1>1
  <2>3. k \in Nat \ {0}
    BY <1>1
  <2>4. WordOf(symbols, w) = symbols[k].name
    BY <2>1, <2>3, NamePlace DEF WordOf
  <2>5. WordOf(symbols, v) = symbols[k].addr
    <3>1. v % SymbolWords = 0 /\ (v - 1) \div SymbolWords + 1 = k
      BY <2>2, <2>3, AddrPlace
    <3> QED BY <3>1 DEF WordOf
  <2> QED BY <1>2, <2>1, <2>2, <2>4, <2>5
<1> QED BY <1>4, <1>5

\* r is s followed by t, word by word.
IsJoined(r, s, t) ==
    /\ Len(s) \in Nat /\ Len(t) \in Nat /\ Len(r) = Len(s) + Len(t)
    /\ \A w \in 1 .. Len(s) : r[w] = s[w]
    /\ \A w \in 1 .. Len(t) : r[Len(s) + w] = t[w]

LEMMA Joined ==
  ASSUME NEW S, NEW s \in Seq(S), NEW t \in Seq(S)
  PROVE  s \o t \in Seq(S) /\ IsJoined(s \o t, s, t)
<1>1. Len(s) \in Nat /\ Len(t) \in Nat
  BY LenProperties
<1>2. /\ s \o t \in Seq(S) /\ Len(s \o t) = Len(s) + Len(t)
      /\ \A w \in 1 .. Len(s) + Len(t) :
             (s \o t)[w] = IF w <= Len(s) THEN s[w] ELSE t[w - Len(s)]
  BY ConcatProperties
<1>3. \A w \in 1 .. Len(s) : (s \o t)[w] = s[w]
  BY <1>1, <1>2
<1>4. ASSUME NEW w \in 1 .. Len(t) PROVE (s \o t)[Len(s) + w] = t[w]
  <2>1. /\ Len(s) + w \in 1 .. Len(s) + Len(t)
        /\ ~(Len(s) + w <= Len(s)) /\ Len(s) + w - Len(s) = w
    BY <1>1
  <2> QED BY <1>2, <2>1
<1> QED BY <1>1, <1>2, <1>3, <1>4 DEF IsJoined

\* blob is a header of three words followed by the three sections.
InFourParts(blob, h, ins, outs, code) ==
    /\ blob[1] = h[1] /\ blob[2] = h[2] /\ blob[3] = h[3]
    /\ \A w \in 1 .. Len(ins) : blob[3 + w] = ins[w]
    /\ \A w \in 1 .. Len(outs) : blob[3 + Len(ins) + w] = outs[w]
    /\ \A w \in 1 .. Len(code) : blob[3 + Len(ins) + Len(outs) + w] = code[w]

LEMMA FourJoined ==
  ASSUME NEW S, NEW h \in Seq(S), Len(h) = 3,
         NEW ins \in Seq(S), NEW outs \in Seq(S), NEW code \in Seq(S),
         NEW blob, blob = ((h \o ins) \o outs) \o code
  PROVE  InFourParts(blob, h, ins, outs, code)
<1>1. PICK p : p = h \o ins
  OBVIOUS
<1>2. PICK q : q = p \o outs
  OBVIOUS
<1>3. /\ p \in Seq(S) /\ Len(p) = 3 + Len(ins) /\ Len(ins) \in Nat
      /\ \A w \in 1 .. 3 : p[w] = h[w]
      /\ \A w \in 1 .. Len(ins) : p[3 + w] = ins[w]
  <2>1. p \in Seq(S) /\ IsJoined(p, h, ins)
    BY <1>1, Joined
  <2> QED BY <2>1 DEF IsJoined
<1>4. /\ q \in Seq(S) /\ Len(q) = Len(p) + Len(outs) /\ Len(outs) \in Nat
      /\ \A w \in 1 .. Len(p) : q[w] = p[w]
      /\ \A w \in 1 .. Len(outs) : q[Len(p) + w] = outs[w]
  <2>1. q \in Seq(S) /\ IsJoined(q, p, outs)
    BY <1>2, <1>3, Joined
  <2> QED BY <2>1 DEF IsJoined
<1>5. /\ \A w \in 1 .. Len(q) : blob[w] = q[w]
      /\ \A w \in 1 .. Len(code) : blob[Len(q) + w] = code[w]
  <2>1. blob = q \o code
    BY <1>1, <1>2
  <2>2. IsJoined(blob, q, code)
    BY <1>4, <2>1, Joined
  <2> QED BY <2>2 DEF IsJoined
<1>6. ASSUME NEW w \in 1 .. 3 PROVE blob[w] = h[w]
  <2>1. w \in 1 .. Len(p) /\ w \in 1 .. Len(q)
    BY <1>3, <1>4
  <2> QED BY <1>3, <1>4, <1>5, <2>1
<1>7. ASSUME NEW w \in 1 .. Len(ins) PROVE blob[3 + w] = ins[w]
  <2>1. 3 + w \in 1 .. Len(p) /\ 3 + w \in 1 .. Len(q)
    BY <1>3, <1>4
  <2> QED BY <1>3, <1>4, <1>5, <2>1
<1>8. ASSUME NEW w \in 1 .. Len(outs) PROVE blob[3 + Len(ins) + w] = outs[w]
  <2>1. Len(p) + w \in 1 .. Len(q) /\ Len(p) + w = 3 + Len(ins) + w
    <3>1. PICK k \in Nat, l \in Nat : k = Len(p) /\ l = Len(outs) /\ Len(q) = k + l
      BY <1>3, <1>4
    <3>2. k + w \in 1 .. k + l
      BY <3>1
    <3> QED BY <1>3, <3>1, <3>2
  <2>2. blob[Len(p) + w] = outs[w]
    BY <1>4, <1>5, <2>1
  <2> QED BY <2>1, <2>2
<1>9. Len(q) = 3 + Len(ins) + Len(outs)
  BY <1>3, <1>4
<1>10. blob[1] = h[1] /\ blob[2] = h[2] /\ blob[3] = h[3]
  <2>1. 1 \in 1 .. 3 /\ 2 \in 1 .. 3 /\ 3 \in 1 .. 3
    OBVIOUS
  <2> QED BY <1>6, <2>1
<1> QED BY <1>5, <1>7, <1>8, <1>9, <1>10 DEF InFourParts

\* The words of a file, by section.
LEMMA Layout ==
  ASSUME NEW f \in ObjFile, NEW blob, blob = Assembled(f),
         NEW a, a = Len(f.inSymbols), NEW b, b = Len(f.outSymbols), NEW c, c = Len(f.objCode)
  PROVE  /\ a \in Nat /\ b \in Nat /\ c \in Nat
         /\ blob[1] = SymbolWords * a /\ blob[2] = SymbolWords * b /\ blob[3] = c
         /\ \A w \in 1 .. SymbolWords * a : blob[3 + w] = writeSymbols(f.inSymbols)[w]
         /\ \A w \in 1 .. SymbolWords * b :
                blob[3 + SymbolWords * a + w] = writeSymbols(f.outSymbols)[w]
         /\ \A w \in 1 .. c : blob[3 + SymbolWords * a + SymbolWords * b + w] = f.objCode[w]
<1>1. /\ f.inSymbols \in Seq(Symbol) /\ f.outSymbols \in Seq(Symbol) /\ f.objCode \in Seq(Word)
  BY DEF ObjFile
<1>2. a \in Nat /\ b \in Nat /\ c \in Nat
  BY <1>1, LenProperties
<1>3. PICK x \in Nat, y \in Nat : x = SymbolWords * a /\ y = SymbolWords * b
  BY <1>2 DEF SymbolWords
<1>4. PICK ins, outs, code : ins = writeSymbols(f.inSymbols) /\ outs = writeSymbols(f.outSymbols)
                             /\ code = f.objCode
  OBVIOUS
<1>5. PICK h : h = <<x, y, c>>
  OBVIOUS
<1>6. ins \in Seq(Content) /\ Len(ins) = x /\ outs \in Seq(Content) /\ Len(outs) = y
  BY <1>1, <1>3, <1>4, WrittenSymbols
<1>7. code \in Seq(Content) /\ Len(code) = c
  <2>1. Word \subseteq Int
    BY DEF Word
  <2>2. Word \subseteq Content
    BY <2>1 DEF Content
  <2> QED BY <1>1, <1>4, <2>2
<1>8. h \in Seq(Content) /\ Len(h) = 3 /\ h[1] = x /\ h[2] = y /\ h[3] = c
  <2>1. x \in Content /\ y \in Content /\ c \in Content
    BY <1>2 DEF Content
  <2> QED BY <1>5, <2>1
<1>9. blob = ((h \o ins) \o outs) \o code
  BY <1>3, <1>4, <1>5 DEF Assembled
<1>10. InFourParts(blob, h, ins, outs, code)
  BY <1>6, <1>7, <1>8, <1>9, FourJoined
<1> QED BY <1>2, <1>3, <1>4, <1>6, <1>7, <1>8, <1>10 DEF InFourParts

\* A section of symbols is read as it was written.
LEMMA SectionRead ==
  ASSUME NEW symbols \in Seq(Symbol), NEW n, n = Len(symbols),
         NEW blob, NEW start \in Nat,
         \A w \in 1 .. SymbolWords * n : blob[start + w] = writeSymbols(symbols)[w]
  PROVE  readSymbolSection(blob, n, start) = symbols
<1>1. n \in Nat /\ SymbolWords = 5 /\ DOMAIN symbols = 1 .. n /\ symbols = [k \in 1 .. n |-> symbols[k]]
  BY LenProperties DEF SymbolWords
<1>2. ASSUME NEW k \in 1 .. n
      PROVE  /\ blob[start + SymbolWords * (k - 1) + 1] = symbols[k].name
             /\ blob[start + SymbolWords * (k - 1) + 4 + 1] = symbols[k].addr
  <2>1. PICK w \in 1 .. SymbolWords * n :
            w = SymbolWords * (k - 1) + 1 /\ start + w = start + SymbolWords * (k - 1) + 1
    BY <1>1
  <2>2. PICK v \in 1 .. SymbolWords * n :
            v = SymbolWords * (k - 1) + 5 /\ start + v = start + SymbolWords * (k - 1) + 4 + 1
    BY <1>1
  <2>3. /\ writeSymbols(symbols)[SymbolWords * (k - 1) + 1] = symbols[k].name
        /\ writeSymbols(symbols)[SymbolWords * (k - 1) + 5] = symbols[k].addr
    BY WrittenSymbols
  <2> QED BY <2>1, <2>2, <2>3
<1>3. readSymbolSection(blob, n, start) =
          [k \in 1 .. n |-> [name |-> blob[start + SymbolWords * (k - 1) + 1],
                             addr |-> blob[start + SymbolWords * (k - 1) + 4 + 1]]]
  BY DEF readSymbolSection, readWord
<1>4. \A k \in 1 .. n : symbols[k] = [name |-> symbols[k].name, addr |-> symbols[k].addr]
  BY SymbolFields
<1>5. \A k \in 1 .. n : [name |-> blob[start + SymbolWords * (k - 1) + 1],
                        addr |-> blob[start + SymbolWords * (k - 1) + 4 + 1]] = symbols[k]
  BY <1>2, <1>4
<1> QED BY <1>1, <1>3, <1>5

\* The programs that read object files find in one the symbols and the code the
\* assembler put there, none of a section taken for a part of the next
\* (linkx20.c:77-108, vmx20FileReaderUtils.c): for any lengths of the sections.
THEOREM ReadAsWritten ==
  ASSUME NEW f \in ObjFile
  PROVE  parseObjFile(Assembled(f)) = f
<1>1. /\ f.inSymbols \in Seq(Symbol) /\ f.outSymbols \in Seq(Symbol) /\ f.objCode \in Seq(Word)
      /\ f = [inSymbols |-> f.inSymbols, outSymbols |-> f.outSymbols, objCode |-> f.objCode]
  BY DEF ObjFile
<1>2. PICK blob : blob = Assembled(f)
  OBVIOUS
<1>3. PICK a, b, c : a = Len(f.inSymbols) /\ b = Len(f.outSymbols) /\ c = Len(f.objCode)
  OBVIOUS
<1>4. /\ a \in Nat /\ b \in Nat /\ c \in Nat
      /\ blob[1] = SymbolWords * a /\ blob[2] = SymbolWords * b /\ blob[3] = c
      /\ \A w \in 1 .. SymbolWords * a : blob[3 + w] = writeSymbols(f.inSymbols)[w]
      /\ \A w \in 1 .. SymbolWords * b :
             blob[3 + SymbolWords * a + w] = writeSymbols(f.outSymbols)[w]
      /\ \A w \in 1 .. c : blob[3 + SymbolWords * a + SymbolWords * b + w] = f.objCode[w]
  BY <1>2, <1>3, Layout
<1>5. PICK outStart \in Nat, codeStart \in Nat :
          /\ outStart = 3 + SymbolWords * a
          /\ codeStart = 3 + SymbolWords * a + SymbolWords * b
          /\ codeStart = outStart + SymbolWords * b
  BY <1>4 DEF SymbolWords
<1>6. /\ Symbols(readWord(blob, 0)) = a /\ Symbols(readWord(blob, 1)) = b
      /\ readWord(blob, 2) = c
  <2>1. SymbolWords * a = 5 * a /\ (5 * a) \div 5 = a /\ SymbolWords * b = 5 * b /\ (5 * b) \div 5 = b
    BY <1>4 DEF SymbolWords
  <2>2. 0 + 1 = 1 /\ 1 + 1 = 2 /\ 2 + 1 = 3
    OBVIOUS
  <2> QED BY <1>4, <2>1, <2>2 DEF Symbols, readWord, SymbolWords
<1>7. readSymbolSection(blob, a, 3) = f.inSymbols
  BY <1>1, <1>3, <1>4, SectionRead
<1>8. readSymbolSection(blob, b, outStart) = f.outSymbols
  <2>1. \A w \in 1 .. SymbolWords * b : blob[outStart + w] = writeSymbols(f.outSymbols)[w]
    BY <1>4, <1>5
  <2> QED BY <1>1, <1>3, <2>1, SectionRead
<1>9. getObjCodeAsWordArray(blob, codeStart, c) = f.objCode
  <2>1. \A w \in 1 .. c : blob[codeStart + w] = f.objCode[w] /\ f.objCode[w] \in Word
    BY <1>1, <1>3, <1>4, <1>5, ElementOfSeq
  <2>2. PICK read : read = SubSeq(blob, codeStart + 1, codeStart + c)
    OBVIOUS
  <2>3. ASSUME NEW w \in codeStart + 1 .. codeStart + c PROVE blob[w] \in Word
    <3>1. PICK v \in 1 .. c : w = codeStart + v
      <4>1. w - codeStart \in 1 .. c /\ w = codeStart + (w - codeStart)
        BY <1>4
      <4> QED BY <4>1
    <3> QED BY <2>1, <3>1
  <2>4. read \in Seq(Word) /\ Len(read) = c
    BY <1>4, <2>2, <2>3, SubSeqProperties
  <2>5. \A w \in 1 .. c : read[w] = blob[codeStart + w]
    BY <1>4, <2>2, <2>3
  <2>6. read = f.objCode
    <3>1. Len(read) = Len(f.objCode) /\ \A w \in 1 .. Len(read) : read[w] = f.objCode[w]
      BY <1>3, <2>1, <2>4, <2>5
    <3> QED BY <1>1, <2>4, <3>1, SeqEqual
  <2> QED BY <2>2, <2>6 DEF getObjCodeAsWordArray
<1>10. parseObjFile(blob) =
          [inSymbols |-> f.inSymbols, outSymbols |-> f.outSymbols, objCode |-> f.objCode]
  BY <1>5, <1>6, <1>7, <1>8, <1>9 DEF parseObjFile
<1> QED BY <1>1, <1>2, <1>10
=============================================================================
