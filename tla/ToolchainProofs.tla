-------------------------- MODULE ToolchainProofs --------------------------
(***************************************************************************)
(* For every command line: the linker's output has the code of the files   *)
(* and means the same by their names, and the disassembler lists what the  *)
(* linker has written.                                                     *)
(*                                                                         *)
(* LInv says what is loaded, resolved and written so far.  A file is what  *)
(* the command line has it to be, moved to its Start, with those of its    *)
(* imported symbols filled in that are no longer on its list; the output   *)
(* is a header, symbols and code, of which some files have contributed     *)
(* theirs.  That numbers of symbols and words add up to where the files    *)
(* belong is shown by their partial sums (SumSteps).                       *)
(***************************************************************************)
EXTENDS Toolchain, ObjectFileProofs

-----------------------------------------------------------------------------
(* Sums *)

\* The equation of the function that SumOfFirst is a value of.
IsSum(f, numbers, n) == f = [k \in 0 .. n |-> IF k = 0 THEN 0 ELSE f[k - 1] + numbers[k]]

LEMMA SumExists ==
    ASSUME NEW numbers, NEW n \in Nat
    PROVE  \E f : IsSum(f, numbers, n)
<1> DEFINE Without == {m \in Nat : ~\E f : IsSum(f, numbers, m)}
<1> SUFFICES ASSUME Without # {} PROVE FALSE
  OBVIOUS
<1>1. PICK m \in Without : \A k \in Without : m <= k
  <2>1. Without \in SUBSET Nat /\ Without # {}
    OBVIOUS
  <2> QED BY <2>1, LeastNat
<1>2. m \in Nat /\ ~\E f : IsSum(f, numbers, m)
  OBVIOUS
<1>3. CASE m = 0
  <2> DEFINE g == [k \in 0 .. 0 |-> 0]
  <2>1. g = [k \in 0 .. 0 |-> IF k = 0 THEN 0 ELSE g[k - 1] + numbers[k]]
    OBVIOUS
  <2> QED BY <1>2, <1>3, <2>1 DEF IsSum
<1>4. CASE m # 0
  <2>1. m - 1 \in Nat /\ ~(m <= m - 1)
    BY <1>2, <1>4
  <2>2. m - 1 \notin Without
    BY <1>1, <2>1
  <2>3. PICK f : IsSum(f, numbers, m - 1)
    BY <2>1, <2>2
  <2> DEFINE g == [k \in 0 .. m |-> IF k = m THEN f[m - 1] + numbers[m] ELSE f[k]]
  <2>4. ASSUME NEW k \in 0 .. m
        PROVE  g[k] = IF k = 0 THEN 0 ELSE g[k - 1] + numbers[k]
    <3>1. CASE k = m
      <4>1. g[m] = f[m - 1] + numbers[m] /\ g[m - 1] = f[m - 1]
        BY <1>2, <1>4
      <4> QED BY <1>4, <3>1, <4>1
    <3>2. CASE k # m
      <4>1. k \in 0 .. m - 1 /\ g[k] = f[k]
        BY <1>2, <3>2
      <4>2. f[k] = IF k = 0 THEN 0 ELSE f[k - 1] + numbers[k]
        BY <2>3, <4>1 DEF IsSum
      <4>3. k # 0 => g[k - 1] = f[k - 1]
        BY <1>2, <4>1
      <4> QED BY <4>1, <4>2, <4>3
    <3> QED BY <3>1, <3>2
  <2>5. g = [k \in 0 .. m |-> IF k = 0 THEN 0 ELSE g[k - 1] + numbers[k]]
    <3>1. g = [k \in 0 .. m |-> g[k]]
      OBVIOUS
    <3> HIDE DEF g
    <3> QED BY <2>4, <3>1
  <2> QED BY <1>2, <2>5 DEF IsSum
<1> QED BY <1>3, <1>4

LEMMA SumSteps ==
    ASSUME NEW numbers, Len(numbers) \in Nat
    PROVE  /\ SumOfFirst(numbers, 0) = 0
           /\ \A n \in 1 .. Len(numbers) :
                  SumOfFirst(numbers, n) = SumOfFirst(numbers, n - 1) + numbers[n]
<1>1. PICK f : f = CHOOSE g : IsSum(g, numbers, Len(numbers))
  OBVIOUS
<1>2. IsSum(f, numbers, Len(numbers))
  BY <1>1, SumExists
<1>3. \A n : SumOfFirst(numbers, n) = f[n]
  BY <1>1 DEF SumOfFirst, IsSum
<1>4. \A k \in 0 .. Len(numbers) : f[k] = IF k = 0 THEN 0 ELSE f[k - 1] + numbers[k]
  BY <1>2 DEF IsSum
<1> QED BY <1>3, <1>4

\* Where files begin.
LEMMA Starts ==
    ASSUME Len(argv) \in Nat
    PROVE  /\ Start(1) = 0
           /\ \A n \in 1 .. Len(argv) : Start(n + 1) = Start(n) + Len(argv[n].objCode)
<1>1. PICK lengths : lengths = [m \in 1 .. Len(argv) |-> Len(argv[m].objCode)]
  OBVIOUS
<1>2. Len(lengths) = Len(argv)
  BY <1>1
<1>3. \A n : Start(n) = SumOfFirst(lengths, n - 1)
  BY <1>1 DEF Start, FirstWord
<1>4. Start(1) = 0
  BY <1>2, <1>3, SumSteps
<1>5. ASSUME NEW n \in 1 .. Len(argv) PROVE Start(n + 1) = Start(n) + Len(argv[n].objCode)
  <2>1. \A m \in 1 .. Len(lengths) :
            SumOfFirst(lengths, m) = SumOfFirst(lengths, m - 1) + lengths[m]
    BY <1>2, SumSteps
  <2>2. n + 1 - 1 = n /\ n \in 1 .. Len(lengths) /\ lengths[n] = Len(argv[n].objCode)
    BY <1>1, <1>2
  <2> QED BY <1>3, <2>1, <2>2
<1> QED BY <1>4, <1>5

-----------------------------------------------------------------------------
(* Addresses in words *)

\* The linker and the machine agree about the instructions with two registers.
LEMMA SameWidth ==
    ASSUME NEW w \in Word
    PROVE  HasOffset(w) <=> Opcode(w) \in {5, 6, 17, 18, 19, 21}
<1>1. Opcode(w) \in 0 .. 255
  BY TopFacts DEF Opcode
<1>2. ASSUME NEW c \in 0 .. 25
      PROVE  opcodeNames[c + 1] \in {"ldind", "stind", "blt", "bgt", "beq", "cmpxchg"}
                 <=> c \in {5, 6, 17, 18, 19, 21}
  BY DEF opcodeNames
<1> QED BY <1>1, <1>2 DEF HasOffset

\* An address above the lowest 2^16 or 2^12 values of a word.
LEMMA OffsetPut ==
    ASSUME NEW low \in Nat, low < 65536, NEW high \in Nat, high < Offsets,
           NEW u, u = low + 65536 * high
    PROVE  u \in Word /\ u % 65536 = low /\ u \div 65536 = high /\ u % 256 = low % 256
BY TopFacts

LEMMA AddrPut ==
    ASSUME NEW low \in Nat, low < 4096, NEW high \in Nat, high < 16 * Offsets,
           NEW u, u = low + 4096 * high
    PROVE  u \in Word /\ u % 4096 = low /\ u \div 4096 = high /\ u % 256 = low % 256
BY TopFacts

LEMMA ModIn ==
    ASSUME NEW d \in Int, NEW m \in Nat \ {0}
    PROVE  d % m \in Nat /\ d % m < m
OBVIOUS

LEMMA LowParts ==
    ASSUME NEW w \in Word
    PROVE  /\ w % 65536 \in Nat /\ w % 65536 < 65536 /\ w % 4096 \in Nat /\ w % 4096 < 4096
           /\ Opcode(w) = (w % 65536) % 256 /\ Opcode(w) = (w % 4096) % 256
BY TopFacts DEF Opcode

LEMMA Units ==
    /\ Top \div 65536 = Offsets /\ Top \div 4096 = 16 * Offsets
    /\ 16 * Offsets \in Nat \ {0} /\ (16 * Offsets) % 2 = 0
BY TopFacts

\* What the linker puts into a word the machine takes out of it.
LEMMA Updated ==
    ASSUME NEW w \in Word, NEW d \in Int, NEW u, u = updateCodeWordAddr(w, d)
    PROVE  /\ u \in Word /\ Rest(u) = Rest(w) /\ Opcode(u) = Opcode(w)
           /\ Fits(w, d) => Distance(u) = d
<1>1. CASE HasOffset(w)
  <2>1. AddressUnit(w) = 65536
    BY <1>1, SameWidth DEF AddressUnit
  <2>2. u = (w % 65536) + 65536 * (d % Offsets)
    BY <2>1, Units DEF updateCodeWordAddr
  <2>3. PICK low \in Nat : low = w % 65536 /\ low < 65536 /\ Opcode(w) = low % 256
    BY LowParts
  <2>4. PICK high \in Nat : high = d % Offsets /\ high < Offsets
    BY TopFacts, ModIn
  <2>5. u = low + 65536 * high
    BY <2>2, <2>3, <2>4
  <2>6. u \in Word /\ u % 65536 = low /\ u \div 65536 = high /\ u % 256 = low % 256
    BY <2>3, <2>4, <2>5, OffsetPut
  <2>7. Opcode(u) = Opcode(w)
    BY <2>3, <2>6 DEF Opcode
  <2>8. HasOffset(u)
    BY <1>1, <2>7 DEF HasOffset
  <2>9. ASSUME Fits(w, d) PROVE Offset(u) = d
    <3>1. d \in -(Offsets \div 2) .. Offsets \div 2 - 1
      BY <1>1, <2>9 DEF Fits
    <3>2. twosComplementer(high, Offsets) = d
      BY <2>4, <3>1, TopFacts, ModField
    <3> QED BY <2>6, <3>2 DEF Offset
  <2> QED BY <1>1, <2>3, <2>6, <2>7, <2>8, <2>9 DEF Rest, Distance
<1>2. CASE ~HasOffset(w)
  <2>1. AddressUnit(w) = 4096
    BY <1>2, SameWidth DEF AddressUnit
  <2>2. u = (w % 4096) + 4096 * (d % (16 * Offsets))
    BY <2>1, Units DEF updateCodeWordAddr
  <2>3. PICK low \in Nat : low = w % 4096 /\ low < 4096 /\ Opcode(w) = low % 256
    BY LowParts
  <2>4. PICK high \in Nat : high = d % (16 * Offsets) /\ high < 16 * Offsets
    BY Units, ModIn
  <2>5. u = low + 4096 * high
    BY <2>2, <2>3, <2>4
  <2>6. u \in Word /\ u % 4096 = low /\ u \div 4096 = high /\ u % 256 = low % 256
    BY <2>3, <2>4, <2>5, AddrPut
  <2>7. Opcode(u) = Opcode(w)
    BY <2>3, <2>6 DEF Opcode
  <2>8. ~HasOffset(u)
    BY <1>2, <2>7 DEF HasOffset
  <2>9. ASSUME Fits(w, d) PROVE Addr(u) = d
    <3>1. d \in -((16 * Offsets) \div 2) .. (16 * Offsets) \div 2 - 1
      BY <1>2, <2>9 DEF Fits
    <3>2. twosComplementer(high, 16 * Offsets) = d
      BY <2>4, <3>1, Units, ModField
    <3> QED BY <2>6, <3>2 DEF Addr
  <2> QED BY <1>2, <2>3, <2>6, <2>7, <2>8, <2>9 DEF Rest, Distance
<1> QED BY <1>1, <1>2

-----------------------------------------------------------------------------
(* Symbols *)

LEMMA MovedSymbols ==
    ASSUME NEW symbols \in Seq(Symbol), NEW by \in Nat
    PROVE  /\ Moved(symbols, by) \in Seq(Symbol) /\ Len(Moved(symbols, by)) = Len(symbols)
           /\ \A k \in 1 .. Len(symbols) :
                  /\ Moved(symbols, by)[k].name = symbols[k].name
                  /\ Moved(symbols, by)[k].addr = (symbols[k].addr + by) % Top
<1>1. PICK n \in Nat : n = Len(symbols) /\ DOMAIN symbols = 1 .. n
  BY LenProperties
<1>2. ASSUME NEW k \in 1 .. n
      PROVE  /\ symbols[k] \in Symbol /\ (symbols[k].addr + by) % Top \in Word
             /\ [symbols[k] EXCEPT !.addr = (@ + by) % Top] \in Symbol
             /\ [symbols[k] EXCEPT !.addr = (@ + by) % Top].name = symbols[k].name
             /\ [symbols[k] EXCEPT !.addr = (@ + by) % Top].addr = (symbols[k].addr + by) % Top
  <2>1. symbols[k] \in Symbol
    BY <1>1, <1>2, ElementOfSeq
  <2>2. symbols[k].addr \in Word /\ Word \subseteq Int
    BY <2>1, TopFacts DEF Symbol
  <2>3. PICK x \in Word : x = (symbols[k].addr + by) % Top
    <3>1. PICK a \in Int : a = symbols[k].addr
      BY <2>2
    <3>2. a + by \in Int
      OBVIOUS
    <3>3. (a + by) % Top \in Word
      BY <3>2, ModWord
    <3> QED BY <3>1, <3>3
  <2>4. /\ [symbols[k] EXCEPT !.addr = x] \in Symbol
        /\ [symbols[k] EXCEPT !.addr = x].name = symbols[k].name
        /\ [symbols[k] EXCEPT !.addr = x].addr = x
    BY <2>1 DEF Symbol
  <2> QED BY <2>1, <2>3, <2>4
<1>3. PICK moved : moved = Moved(symbols, by)
  OBVIOUS
<1>4. moved = [k \in 1 .. n |-> [symbols[k] EXCEPT !.addr = (@ + by) % Top]]
  BY <1>1, <1>3 DEF Moved
<1>5. moved \in [1 .. n -> Symbol]
  BY <1>2, <1>4
<1>6. moved \in Seq(Symbol) /\ Len(moved) = n
  BY <1>5
<1> QED BY <1>1, <1>2, <1>3, <1>4, <1>6

\* Moving its symbols leaves a file the same names.
LEMMA MovedNames ==
    ASSUME NEW f, f.inSymbols \in Seq(Symbol), NEW by \in Nat,
           NEW g, g.inSymbols = Moved(f.inSymbols, by), NEW label
    PROVE  Defines(g, label) <=> Defines(f, label)
<1>1. PICK n \in Nat : n = Len(f.inSymbols) /\ DOMAIN f.inSymbols = 1 .. n
  BY LenProperties
<1>2. /\ g.inSymbols \in Seq(Symbol) /\ Len(g.inSymbols) = n
      /\ \A k \in 1 .. n : g.inSymbols[k].name = f.inSymbols[k].name
  BY <1>1, MovedSymbols
<1>3. DOMAIN g.inSymbols = 1 .. n
  BY <1>2, LenProperties
<1> QED BY <1>1, <1>2, <1>3 DEF Defines

\* Place k is the first that has the name.
FirstNamed(s, label, k) ==
    k \in 1 .. Len(s) /\ s[k].name = label /\ \A j \in 1 .. k - 1 : s[j].name # label

LEMMA FirstIs ==
    ASSUME NEW f, NEW s \in Seq(Symbol), f.inSymbols = s, NEW label, Defines(f, label)
    PROVE  \E k \in 1 .. Len(s) : FirstNamed(s, label, k) /\ getAddress(f, label) = s[k].addr
<1>1. PICK k \in 1 .. Len(f.inSymbols) :
          /\ f.inSymbols[k].name = label /\ getAddress(f, label) = f.inSymbols[k].addr
          /\ \A j \in 1 .. k - 1 : f.inSymbols[j].name # label
  BY FirstSymbol
<1>2. k \in 1 .. Len(s) /\ FirstNamed(s, label, k)
  BY <1>1 DEF FirstNamed
<1> QED BY <1>1, <1>2

\* A place before which the name does not occur is the one getAddress finds.
LEMMA OnlyFirst ==
    ASSUME NEW f, f.inSymbols \in Seq(Symbol), NEW label,
           NEW k \in Nat, FirstNamed(f.inSymbols, label, k)
    PROVE  Defines(f, label) /\ getAddress(f, label) = f.inSymbols[k].addr
<1>1. PICK s \in Seq(Symbol) : s = f.inSymbols /\ FirstNamed(s, label, k)
  OBVIOUS
<1>2. Len(s) \in Nat /\ DOMAIN s = 1 .. Len(s)
  BY LenProperties
<1>3. Defines(f, label)
  BY <1>1, <1>2 DEF Defines, FirstNamed
<1>4. PICK m \in 1 .. Len(s) : FirstNamed(s, label, m) /\ getAddress(f, label) = s[m].addr
  BY <1>1, <1>3, FirstIs
<1>5. m = k
  BY <1>1, <1>2, <1>4 DEF FirstNamed
<1> QED BY <1>1, <1>3, <1>4, <1>5

\* The list t comes behind s.
Follows(r, s, t) == r = s \o t

LEMMA JoinedSymbols ==
    ASSUME NEW s \in Seq(Symbol), NEW t \in Seq(Symbol), NEW r, Follows(r, s, t)
    PROVE  /\ r \in Seq(Symbol) /\ Len(r) = Len(s) + Len(t) /\ Len(s) \in Nat /\ Len(t) \in Nat
           /\ \A k \in 1 .. Len(s) : r[k] = s[k]
           /\ \A k \in 1 .. Len(t) : r[Len(s) + k] = t[k]
<1>1. r \in Seq(Symbol) /\ IsJoined(r, s, t)
  BY Joined DEF Follows
<1> QED BY <1>1 DEF IsJoined

LEMMA FirstOfFirst ==
    ASSUME NEW s \in Seq(Symbol), NEW t \in Seq(Symbol), NEW r, Follows(r, s, t),
           NEW label, NEW k \in 1 .. Len(s), FirstNamed(s, label, k)
    PROVE  FirstNamed(r, label, k) /\ r[k] = s[k]
<1>1. /\ Len(r) = Len(s) + Len(t) /\ Len(s) \in Nat /\ Len(t) \in Nat
      /\ \A j \in 1 .. Len(s) : r[j] = s[j]
  BY JoinedSymbols
<1>2. \A j \in 1 .. k - 1 : j \in 1 .. Len(s) /\ s[j].name # label
  BY <1>1 DEF FirstNamed
<1>3. s[k].name = label /\ k \in 1 .. Len(r)
  BY <1>1 DEF FirstNamed
<1> QED BY <1>1, <1>2, <1>3 DEF FirstNamed

LEMMA FirstOfSecond ==
    ASSUME NEW s \in Seq(Symbol), NEW t \in Seq(Symbol), NEW r, Follows(r, s, t),
           NEW label, \A j \in 1 .. Len(s) : s[j].name # label,
           NEW k \in 1 .. Len(t), FirstNamed(t, label, k)
    PROVE  FirstNamed(r, label, Len(s) + k) /\ r[Len(s) + k] = t[k]
<1>1. /\ Len(r) = Len(s) + Len(t) /\ Len(s) \in Nat /\ Len(t) \in Nat
      /\ \A j \in 1 .. Len(s) : r[j] = s[j]
      /\ \A j \in 1 .. Len(t) : r[Len(s) + j] = t[j]
  BY JoinedSymbols
<1>2. PICK m \in Nat, n \in Nat : m = Len(s) /\ n = Len(t)
  BY <1>1
<1>3. \A j \in 1 .. k - 1 : t[j].name # label
  BY DEF FirstNamed
<1>4. ASSUME NEW j \in 1 .. m + k - 1 PROVE r[j].name # label
  <2>1. CASE j \in 1 .. m
    BY <1>1, <1>2, <2>1
  <2>2. CASE j \notin 1 .. m
    <3>1. PICK l \in 1 .. k - 1 : l \in 1 .. n /\ j = m + l
      <4>1. j - m \in 1 .. k - 1 /\ j - m \in 1 .. n /\ j = m + (j - m)
        BY <1>2, <2>2
      <4> QED BY <4>1
    <3>2. r[m + l] = t[l]
      BY <1>1, <1>2, <3>1
    <3> QED BY <1>3, <3>1, <3>2
  <2> QED BY <2>1, <2>2
<1>5. m + k \in 1 .. Len(r)
  BY <1>1, <1>2
<1>6. r[m + k] = t[k]
  BY <1>1, <1>2
<1>7. t[k].name = label
  BY DEF FirstNamed
<1> QED BY <1>2, <1>4, <1>5, <1>6, <1>7 DEF FirstNamed

LEMMA NamedInOne ==
    ASSUME NEW s \in Seq(Symbol), NEW t \in Seq(Symbol), NEW r, Follows(r, s, t),
           NEW label, NEW k \in 1 .. Len(r), r[k].name = label
    PROVE  \/ \E j \in 1 .. Len(s) : s[j].name = label
           \/ \E j \in 1 .. Len(t) : t[j].name = label
<1>1. /\ Len(r) = Len(s) + Len(t) /\ Len(s) \in Nat /\ Len(t) \in Nat
      /\ \A j \in 1 .. Len(s) : r[j] = s[j]
      /\ \A j \in 1 .. Len(t) : r[Len(s) + j] = t[j]
  BY JoinedSymbols
<1>2. CASE k \in 1 .. Len(s)
  BY <1>1, <1>2
<1>3. CASE k \notin 1 .. Len(s)
  <2>1. k - Len(s) \in 1 .. Len(t) /\ k = Len(s) + (k - Len(s))
    BY <1>1, <1>3
  <2> QED BY <1>1, <2>1
<1> QED BY <1>2, <1>3

\* A file defines the names of its list of symbols.
LEMMA DefinesNamed ==
    ASSUME NEW f, NEW s \in Seq(Symbol), f.inSymbols = s, NEW label
    PROVE  Defines(f, label) <=> \E k \in 1 .. Len(s) : s[k].name = label
<1>1. DOMAIN s = 1 .. Len(s)
  BY LenProperties
<1> QED BY <1>1 DEF Defines

\* What is defined in the first of two lists stays so, what is not is looked up
\* in the second.
LEMMA JoinedNames ==
    ASSUME NEW f, NEW g, NEW h, NEW s \in Seq(Symbol), NEW t \in Seq(Symbol), NEW r, Follows(r, s, t),
           f.inSymbols = s, g.inSymbols = t, h.inSymbols = r, NEW label
    PROVE  /\ Defines(h, label) <=> Defines(f, label) \/ Defines(g, label)
           /\ Defines(f, label) => getAddress(h, label) = getAddress(f, label)
           /\ ~Defines(f, label) /\ Defines(g, label) =>
                  getAddress(h, label) = getAddress(g, label)
<1>1. r \in Seq(Symbol)
  BY JoinedSymbols
<1>2. ASSUME Defines(f, label)
      PROVE  Defines(h, label) /\ getAddress(h, label) = getAddress(f, label)
  <2>1. PICK k \in 1 .. Len(s) : FirstNamed(s, label, k) /\ getAddress(f, label) = s[k].addr
    BY <1>2, FirstIs
  <2>2. FirstNamed(r, label, k) /\ r[k] = s[k]
    BY <2>1, FirstOfFirst
  <2>3. k \in Nat /\ h.inSymbols \in Seq(Symbol) /\ FirstNamed(h.inSymbols, label, k)
    BY <1>1, <2>2
  <2>4. Defines(h, label) /\ getAddress(h, label) = r[k].addr
    BY <2>3, OnlyFirst
  <2> QED BY <2>1, <2>2, <2>4
<1>3. ASSUME ~Defines(f, label), Defines(g, label)
      PROVE  Defines(h, label) /\ getAddress(h, label) = getAddress(g, label)
  <2>1. PICK k \in 1 .. Len(t) : FirstNamed(t, label, k) /\ getAddress(g, label) = t[k].addr
    BY <1>3, FirstIs
  <2>2. \A j \in 1 .. Len(s) : s[j].name # label
    BY <1>3, DefinesNamed
  <2>3. FirstNamed(r, label, Len(s) + k) /\ r[Len(s) + k] = t[k]
    BY <2>1, <2>2, FirstOfSecond
  <2>4. PICK place \in Nat : place = Len(s) + k
    BY LenProperties
  <2>5. /\ h.inSymbols \in Seq(Symbol) /\ FirstNamed(h.inSymbols, label, place)
        /\ r[place] = t[k]
    BY <1>1, <2>3, <2>4
  <2>6. Defines(h, label) /\ getAddress(h, label) = r[place].addr
    BY <2>5, OnlyFirst
  <2> QED BY <2>1, <2>5, <2>6
<1>4. ASSUME Defines(h, label) PROVE Defines(f, label) \/ Defines(g, label)
  <2>1. PICK k \in 1 .. Len(r) : r[k].name = label
    <3>1. DOMAIN r = 1 .. Len(r)
      BY <1>1, LenProperties
    <3> QED BY <1>4, <3>1 DEF Defines
  <2>2. \/ \E j \in 1 .. Len(s) : s[j].name = label
        \/ \E j \in 1 .. Len(t) : t[j].name = label
    BY <2>1, NamedInOne
  <2> QED BY <2>2, DefinesNamed
<1> QED BY <1>2, <1>3, <1>4

\* The words of two lists of symbols are those of the first and of the second.
LEMMA WrittenJoined ==
    ASSUME NEW s \in Seq(Symbol), NEW t \in Seq(Symbol)
    PROVE  writeSymbols(s \o t) = writeSymbols(s) \o writeSymbols(t)
<1>1. PICK m \in Nat, n \in Nat : m = Len(s) /\ n = Len(t)
  BY LenProperties
<1>2. PICK r : r = s \o t
  OBVIOUS
<1>3. /\ r \in Seq(Symbol) /\ Len(r) = m + n
      /\ \A k \in 1 .. m : r[k] = s[k]
      /\ \A k \in 1 .. n : r[m + k] = t[k]
  BY <1>1, <1>2, Joined DEF IsJoined
<1>4. PICK S, T, R : S = writeSymbols(s) /\ T = writeSymbols(t) /\ R = writeSymbols(r)
  OBVIOUS
<1>5. /\ S = [w \in 1 .. 5 * m |-> WordOf(s, w)]
      /\ T = [w \in 1 .. 5 * n |-> WordOf(t, w)]
      /\ R = [w \in 1 .. 5 * (m + n) |-> WordOf(r, w)]
  BY <1>1, <1>3, <1>4 DEF writeSymbols, WordOf, SymbolWords
<1>6. /\ S \in Seq(Content) /\ T \in Seq(Content) /\ R \in Seq(Content)
      /\ Len(S) = 5 * m /\ Len(T) = 5 * n /\ Len(R) = 5 * (m + n)
  BY <1>1, <1>3, <1>4, WrittenSymbols DEF SymbolWords
<1>7. S \o T \in Seq(Content) /\ IsJoined(S \o T, S, T)
  BY <1>6, Joined
<1>8. /\ Len(S \o T) = 5 * m + 5 * n
      /\ \A w \in 1 .. 5 * m : (S \o T)[w] = S[w]
      /\ \A w \in 1 .. 5 * n : (S \o T)[5 * m + w] = T[w]
  BY <1>6, <1>7 DEF IsJoined
<1>9. ASSUME NEW w \in 1 .. 5 * m PROVE R[w] = S[w]
  <2>1. (w - 1) \div 5 + 1 \in 1 .. m /\ w \in 1 .. 5 * (m + n)
    BY <1>1
  <2>2. WordOf(r, w) = WordOf(s, w)
    BY <1>3, <2>1 DEF WordOf, SymbolWords
  <2> QED BY <1>5, <2>1, <2>2
<1>10. ASSUME NEW w \in 1 .. 5 * n PROVE R[5 * m + w] = T[w]
  <2>1. /\ (w - 1) \div 5 + 1 \in 1 .. n /\ 5 * m + w \in 1 .. 5 * (m + n)
        /\ (5 * m + w - 1) \div 5 + 1 = m + ((w - 1) \div 5 + 1)
        /\ (5 * m + w) % 5 = w % 5
    BY <1>1
  <2>2. PICK q \in 1 .. n : q = (w - 1) \div 5 + 1
    BY <2>1
  <2>3. r[m + q] = t[q]
    BY <1>3
  <2>4. PICK v \in Nat : v = 5 * m + w /\ (v - 1) \div 5 + 1 = m + q /\ v % 5 = w % 5
    BY <2>1, <2>2
  <2>5. WordOf(r, v) = IF v % 5 = 1 THEN t[q].name ELSE IF v % 5 = 0 THEN t[q].addr ELSE ""
    BY <2>3, <2>4 DEF WordOf, SymbolWords
  <2>6. WordOf(t, w) = IF w % 5 = 1 THEN t[q].name ELSE IF w % 5 = 0 THEN t[q].addr ELSE ""
    BY <2>2 DEF WordOf, SymbolWords
  <2> QED BY <1>5, <2>1, <2>4, <2>5, <2>6
<1>11. ASSUME NEW w \in 1 .. Len(R) PROVE R[w] = (S \o T)[w]
  <2>1. CASE w \in 1 .. 5 * m
    BY <1>8, <1>9, <2>1
  <2>2. CASE w \notin 1 .. 5 * m
    <3>1. w - 5 * m \in 1 .. 5 * n /\ w = 5 * m + (w - 5 * m)
      BY <1>6, <2>2
    <3> QED BY <1>8, <1>10, <3>1
  <2> QED BY <2>1, <2>2
<1>12. Len(R) = Len(S \o T)
  BY <1>6, <1>8
<1>13. R = S \o T
  BY <1>6, <1>7, <1>11, <1>12, SeqEqual
<1> QED BY <1>2, <1>4, <1>13

LEMMA WrittenNone == writeSymbols(<<>>) = <<>>
<1>1. PICK none : none = <<>>
  OBVIOUS
<1>a. none \in Seq(Symbol) /\ Len(none) = 0
  BY <1>1
<1>2. writeSymbols(none) \in Seq(Content) /\ Len(writeSymbols(none)) = SymbolWords * 0
  BY <1>a, WrittenSymbols
<1>3. SymbolWords * 0 = 0
  BY DEF SymbolWords
<1> QED BY <1>1, <1>2, <1>3, EmptySeq

\* What is written in three parts is read as an object file that imports nothing.
LEMMA ReadBack ==
    ASSUME NEW ins \in Seq(Symbol), NEW code \in Seq(Word),
           NEW blob, blob = (<<SymbolWords * Len(ins), 0, Len(code)>> \o writeSymbols(ins)) \o code
    PROVE  /\ parseObjFile(blob) = [inSymbols |-> ins, outSymbols |-> <<>>, objCode |-> code]
           /\ \E f \in ObjFile : blob = Assembled(f)
<1>1. PICK f : f = [inSymbols |-> ins, outSymbols |-> <<>>, objCode |-> code]
  OBVIOUS
<1>2. f \in ObjFile
  BY <1>1 DEF ObjFile
<1>3. PICK h, words : h = <<SymbolWords * Len(ins), 0, Len(code)>> /\ words = writeSymbols(ins)
  OBVIOUS
<1>4. h \in Seq(Content) /\ words \in Seq(Content)
  <2>1. Len(ins) \in Nat /\ Len(code) \in Nat
    BY LenProperties
  <2>2. SymbolWords * Len(ins) \in Content /\ 0 \in Content /\ Len(code) \in Content
    BY <2>1 DEF SymbolWords, Content
  <2>3. h \in Seq(Content)
    BY <1>3, <2>2
  <2>4. words \in Seq(Content)
    BY <1>3, <2>1, WrittenSymbols
  <2> QED BY <2>3, <2>4
<1>5. h \o words \in Seq(Content)
  BY <1>4
<1>6. (h \o words) \o <<>> = h \o words
  BY <1>5, ConcatEmptySeq
<1>7. SymbolWords * Len(f.outSymbols) = 0
  BY <1>1 DEF SymbolWords
<1>8. Assembled(f) = ((h \o words) \o <<>>) \o code
  <2>1. f.inSymbols = ins /\ f.outSymbols = <<>> /\ f.objCode = code
    BY <1>1
  <2>2. PICK none : none = <<>> /\ writeSymbols(none) = none
    BY WrittenNone
  <2>3. f.outSymbols = none
    BY <2>1, <2>2
  <2>4. <<SymbolWords * Len(f.inSymbols), SymbolWords * Len(f.outSymbols), Len(f.objCode)>> = h
    BY <1>3, <1>7, <2>1
  <2>5. Assembled(f) = ((h \o words) \o none) \o code
    BY <1>3, <2>1, <2>2, <2>3, <2>4, Zenon DEF Assembled
  <2> QED BY <2>2, <2>5
<1>9. Assembled(f) = blob
  BY <1>3, <1>6, <1>8
<1> QED BY <1>1, <1>2, <1>9, ReadAsWritten

-----------------------------------------------------------------------------
(* The invariant *)

Left(n) == Len(files[n].outSymbols)

\* The first file that defines the name is file n.
DefinedFirst(n, name) ==
    Defines(files[n], name) /\ \A m \in 1 .. n - 1 : ~Defines(files[m], name)

\* The word that refers to symbol s of file n has the address that the first
\* file with the name gives it.
FilledIn(n, s) ==
    \E m \in 1 .. Len(files) :
        /\ DefinedFirst(m, s.name)
        /\ files[n].objCode[s.addr + 1] =
               updateCodeWordAddr(argv[n].objCode[s.addr + 1],
                                  getAddress(files[m], s.name) - (Start(n) + s.addr + 1))

\* File n as it is loaded, the last of its imported symbols resolved.
Loaded(n) ==
    /\ argv[n] \in ObjFile /\ files[n] \in ObjFile
    /\ Start(n) \in Nat /\ offset[n] = Start(n)
    /\ files[n].inSymbols = Moved(argv[n].inSymbols, Start(n))
    /\ Len(files[n].objCode) = Len(argv[n].objCode)
    /\ Left(n) <= Len(argv[n].outSymbols)
    /\ \A k \in 1 .. Left(n) : files[n].outSymbols[k] = argv[n].outSymbols[k]

Relocated(n) ==
    /\ \A a \in 0 .. Len(argv[n].objCode) - 1 :
           \/ files[n].objCode[a + 1] = argv[n].objCode[a + 1]
           \/ \E k \in Left(n) + 1 .. Len(argv[n].outSymbols) : argv[n].outSymbols[k].addr = a
    /\ \A k \in Left(n) + 1 .. Len(argv[n].outSymbols) : FilledIn(n, argv[n].outSymbols[k])

AllLoaded == Len(files) = Len(argv) /\ \E n \in 1 .. Len(argv) : Defines(argv[n], "mainx20")

OnlySymbols(ins) == [inSymbols |-> ins]

\* ins are the symbols of the first m files, as far as names go.
SymbolsOf(ins, m) ==
    /\ Len(ins) = SumOfFirst([j \in 1 .. Len(files) |-> Len(files[j].inSymbols)], m)
    /\ \A name :
           /\ Defines(OnlySymbols(ins), name) => \E n \in 1 .. m : Defines(files[n], name)
           /\ \A n \in 1 .. m : DefinedFirst(n, name) =>
                  /\ Defines(OnlySymbols(ins), name)
                  /\ getAddress(OnlySymbols(ins), name) = getAddress(files[n], name)

\* code is that of the first m files.
CodeOf(code, m) ==
    /\ Len(code) = Start(m + 1)
    /\ \A n \in 1 .. m : \A a \in 1 .. Len(files[n].objCode) :
           Start(n) + a \in 1 .. Len(code) /\ code[Start(n) + a] = files[n].objCode[a]

SymbolsWritten(m) ==
    \E ins \in Seq(Symbol) : SymbolsOf(ins, m) /\ outFile = Header \o writeSymbols(ins)

CodeWritten(m) ==
    \E ins \in Seq(Symbol), code \in Seq(Word) :
        /\ SymbolsOf(ins, Len(files)) /\ CodeOf(code, m)
        /\ outFile = (Header \o writeSymbols(ins)) \o code

Complete ==
    /\ Missing \notin ToSet(argv)
    /\ \A n \in DOMAIN argv : ~Unresolved(n)
    /\ \E n \in DOMAIN argv : Defines(argv[n], "mainx20")

Twice ==
    \E m, n \in DOMAIN argv : m # n /\ \E s \in ToSet(argv[m].inSymbols) :
        Defines(argv[n], s.name)

Shapes ==
    /\ argv \in CommandLines
    /\ phase \in {"load", "resolve", "symbols", "code", "written", "failed", "unopened"}
    /\ files \in Seq(ObjFile) /\ Len(files) <= Len(argv)
    /\ offset \in Seq(Nat) /\ Len(offset) = Len(files)
    /\ mainx20Exists \in BOOLEAN
    /\ i \in 1 .. Len(argv) + 1

Files == \A n \in 1 .. Len(files) : Loaded(n) /\ Relocated(n)

Progress ==
    /\ phase = "load" =>
           /\ i = Len(files) + 1 /\ Start(i) \in Nat
           /\ \A n \in 1 .. Len(files) : Left(n) = Len(argv[n].outSymbols)
           /\ mainx20Exists <=> \E n \in 1 .. Len(files) : Defines(argv[n], "mainx20")
    /\ phase \in {"resolve", "symbols", "code", "written"} => AllLoaded
    /\ phase = "resolve" => \A n \in 1 .. i - 1 : Left(n) = 0
    /\ phase \in {"symbols", "code", "written"} => \A n \in 1 .. Len(files) : Left(n) = 0

Output ==
    /\ phase = "symbols" => SymbolsWritten(i - 1)
    /\ phase = "code" => CodeWritten(i - 1)
    /\ phase = "written" => CodeWritten(Len(files))

\* The linker fails for a reason.
Justified == phase = "failed" => ~Complete \/ Twice

LInv == Shapes /\ Files /\ Progress /\ Output /\ Justified

-----------------------------------------------------------------------------
(* Facts about the command line and the files *)

LEMMA CommandLine ==
    ASSUME argv \in CommandLines
    PROVE  /\ argv \in Seq(ObjFile \cup {Missing}) /\ Len(argv) \in Nat
           /\ DOMAIN argv = 1 .. Len(argv)
           /\ \A n \in 1 .. Len(argv) : argv[n] # Missing => argv[n] \in ObjFile
           /\ Missing \notin ObjFile
<1>1. argv \in Seq(ObjFile \cup {Missing})
  BY LinkerAssumption
<1>2. Len(argv) \in Nat /\ DOMAIN argv = 1 .. Len(argv)
  BY <1>1, LenProperties
<1>3. \A n \in 1 .. Len(argv) : argv[n] \in ObjFile \cup {Missing}
  BY <1>1, ElementOfSeq
<1> QED BY <1>1, <1>2, <1>3, LinkerAssumption

LEMMA FileParts ==
    ASSUME NEW f \in ObjFile
    PROVE  /\ f.inSymbols \in Seq(Symbol) /\ f.outSymbols \in Seq(Symbol) /\ f.objCode \in Seq(Word)
           /\ Len(f.inSymbols) \in Nat /\ Len(f.outSymbols) \in Nat /\ Len(f.objCode) \in Nat
           /\ DOMAIN f.inSymbols = 1 .. Len(f.inSymbols)
           /\ DOMAIN f.outSymbols = 1 .. Len(f.outSymbols)
           /\ DOMAIN f.objCode = 1 .. Len(f.objCode)
<1>1. f.inSymbols \in Seq(Symbol) /\ f.outSymbols \in Seq(Symbol) /\ f.objCode \in Seq(Word)
  BY DEF ObjFile
<1> QED BY <1>1, LenProperties

LEMMA ElementsOfFile ==
    ASSUME NEW f \in ObjFile
    PROVE  /\ \A k \in 1 .. Len(f.inSymbols) : f.inSymbols[k] \in Symbol
           /\ \A k \in 1 .. Len(f.outSymbols) : f.outSymbols[k] \in Symbol
           /\ \A k \in 1 .. Len(f.objCode) : f.objCode[k] \in Word
BY FileParts, ElementOfSeq

\* The places to fill in are words of the file, and differ.
LEMMA Imports ==
    ASSUME argv \in CommandLines, NEW n \in 1 .. Len(argv), argv[n] \in ObjFile,
           NEW k \in 1 .. Len(argv[n].outSymbols)
    PROVE  /\ argv[n].outSymbols[k] \in Symbol
           /\ argv[n].outSymbols[k].addr \in 0 .. Len(argv[n].objCode) - 1
           /\ \A j \in 1 .. k - 1 : argv[n].outSymbols[j].addr # argv[n].outSymbols[k].addr
<1>1. argv[n] # Missing /\ n \in DOMAIN argv
  BY CommandLine
<1>2. k \in DOMAIN argv[n].outSymbols /\ argv[n].outSymbols[k] \in Symbol
  BY FileParts, ElementsOfFile
<1>3. /\ argv[n].outSymbols[k].addr < Len(argv[n].objCode)
      /\ \A j \in 1 .. k - 1 : argv[n].outSymbols[j].addr # argv[n].outSymbols[k].addr
  BY <1>1, <1>2, LinkerAssumption
<1>4. argv[n].outSymbols[k].addr \in Nat
  <2>1. argv[n].outSymbols[k].addr \in Word
    BY <1>2 DEF Symbol
  <2> QED BY <2>1, TopFacts
<1>5. Len(argv[n].objCode) \in Nat
  BY FileParts
<1> QED BY <1>2, <1>3, <1>4, <1>5

\* A loaded file defines what it did on the command line.
LEMMA LoadedNames ==
    ASSUME NEW n, Loaded(n), NEW name
    PROVE  Defines(files[n], name) <=> Defines(argv[n], name)
<1>1. argv[n] \in ObjFile /\ Start(n) \in Nat /\ files[n].inSymbols = Moved(argv[n].inSymbols, Start(n))
  BY DEF Loaded
<1>2. argv[n].inSymbols \in Seq(Symbol)
  BY <1>1, FileParts
<1> QED BY <1>1, <1>2, MovedNames

\* Of the files that define a name one is the first, and Definer finds it.
LEMMA FirstDefiner ==
    ASSUME Len(files) \in Nat, DOMAIN files = 1 .. Len(files), NEW name,
           \E n \in 1 .. Len(files) : Defines(files[n], name)
    PROVE  Definer(name) \in 1 .. Len(files) /\ DefinedFirst(Definer(name), name)
<1> DEFINE S == {j \in DOMAIN files : Defines(files[j], name)}
<1>1. S \in SUBSET Nat /\ S # {}
  OBVIOUS
<1>2. \E n \in S : \A k \in S : n <= k
  BY <1>1, LeastNat
<1>3. Definer(name) \in S /\ \A k \in S : Definer(name) <= k
  BY <1>2 DEF Definer, Min
<1>4. PICK d \in 1 .. Len(files) : d = Definer(name) /\ d \in S /\ \A k \in S : d <= k
  BY <1>3
<1>5. \A m \in 1 .. d - 1 : ~Defines(files[m], name)
  BY <1>4
<1> QED BY <1>4, <1>5 DEF DefinedFirst

LEMMA Unmoved ==
    ASSUME Files, argv' = argv, files' = files, offset' = offset
    PROVE  Files' /\ (\A n : Start(n)' = Start(n)) /\ (\A n : Left(n)' = Left(n)) /\ Header' = Header
<1>1. \A n : Start(n)' = Start(n)
  BY DEF Start
<1>2. \A n : Left(n)' = Left(n)
  BY DEF Left
<1>3. Header' = Header
  BY DEF Header
<1>4. \A n, name : DefinedFirst(n, name)' <=> DefinedFirst(n, name)
  BY DEF DefinedFirst
<1>5. \A n, s : FilledIn(n, s)' <=> FilledIn(n, s)
  BY <1>1, <1>4 DEF FilledIn
<1>6. \A n : Loaded(n)' <=> Loaded(n)
  BY <1>1, <1>2 DEF Loaded
<1>7. \A n : Relocated(n)' <=> Relocated(n)
  BY <1>2, <1>5 DEF Relocated
<1> QED BY <1>1, <1>2, <1>3, <1>6, <1>7 DEF Files

LEMMA SameReasons ==
    ASSUME argv' = argv PROVE (Complete' <=> Complete) /\ (Twice' <=> Twice)
BY DEF Complete, Twice, Unresolved

\* The shape of the state after a step that loads nothing and does not fail.
LEMMA Refuses ==
    ASSUME LInv, Fails, ~Complete \/ Twice
    PROVE  LInv'
<1>1. /\ phase' = "failed" /\ argv' = argv /\ files' = files /\ offset' = offset
      /\ mainx20Exists' = mainx20Exists /\ i' = i /\ outFile' = outFile
  BY DEF Fails
<1>2. Shapes'
  BY <1>1 DEF LInv, Shapes
<1>3. Files'
  BY <1>1, Unmoved DEF LInv
<1>4. Progress' /\ Output'
  BY <1>1 DEF Progress, Output
<1>5. Justified'
  BY <1>1, SameReasons DEF Justified
<1> QED BY <1>2, <1>3, <1>4, <1>5 DEF LInv

-----------------------------------------------------------------------------
(* The steps *)

LEMMA InitialState == Init => LInv
<1> SUFFICES ASSUME Init PROVE LInv
  OBVIOUS
<1>1. /\ argv \in CommandLines /\ phase = "load" /\ files = <<>> /\ offset = <<>>
      /\ mainx20Exists = FALSE /\ i = 1
  BY DEF Init
<1>2. Len(argv) \in Nat
  BY <1>1, CommandLine
<1>3. /\ files \in Seq(ObjFile) /\ Len(files) = 0 /\ offset \in Seq(Nat) /\ Len(offset) = 0
      /\ 1 .. Len(files) = {}
  BY <1>1
<1>4. Shapes
  <2>1. phase \in {"load", "resolve", "symbols", "code", "written", "failed", "unopened"}
    BY <1>1
  <2>2. i \in 1 .. Len(argv) + 1 /\ Len(files) <= Len(argv) /\ Len(offset) = Len(files)
    BY <1>1, <1>2, <1>3
  <2> QED BY <1>1, <1>3, <2>1, <2>2 DEF Shapes
<1>5. Files
  BY <1>3 DEF Files
<1>6. Start(1) \in Nat
  BY <1>2, Starts
<1>7. Progress
  BY <1>1, <1>3, <1>6 DEF Progress
<1>8. Output /\ Justified
  BY <1>1 DEF Output, Justified
<1> QED BY <1>4, <1>5, <1>7, <1>8 DEF LInv

\* A file as loadFile stores it.
Stored(f, by) == [f EXCEPT !.inSymbols = Moved(@, by)]

LEMMA StoredFile ==
    ASSUME NEW f \in ObjFile, NEW by \in Nat
    PROVE  /\ Stored(f, by) \in ObjFile /\ Stored(f, by).inSymbols = Moved(f.inSymbols, by)
           /\ Stored(f, by).outSymbols = f.outSymbols /\ Stored(f, by).objCode = f.objCode
<1>1. PICK moved \in Seq(Symbol) : moved = Moved(f.inSymbols, by)
  BY FileParts, MovedSymbols
<1>2. /\ [f EXCEPT !.inSymbols = moved] \in ObjFile
      /\ [f EXCEPT !.inSymbols = moved].inSymbols = moved
      /\ [f EXCEPT !.inSymbols = moved].outSymbols = f.outSymbols
      /\ [f EXCEPT !.inSymbols = moved].objCode = f.objCode
  BY DEF ObjFile
<1>3. Stored(f, by) = [f EXCEPT !.inSymbols = moved]
  BY <1>1 DEF Stored
<1> QED BY <1>1, <1>2, <1>3

LEMMA LoadStep ==
    ASSUME LInv, loadFile, argv[i] # Missing
    PROVE  LInv'
<1>1. /\ phase = "load" /\ i <= Len(argv) /\ i \in Nat \ {0}
      /\ argv \in CommandLines /\ Len(argv) \in Nat
      /\ files \in Seq(ObjFile) /\ offset \in Seq(Nat) /\ Len(offset) = Len(files)
      /\ i = Len(files) + 1 /\ Start(i) \in Nat /\ mainx20Exists \in BOOLEAN
      /\ \A n \in 1 .. Len(files) : Left(n) = Len(argv[n].outSymbols)
      /\ mainx20Exists <=> \E n \in 1 .. Len(files) : Defines(argv[n], "mainx20")
  BY CommandLine DEF LInv, Shapes, Progress, loadFile
<1>2. PICK f \in ObjFile : f = argv[i]
  BY <1>1, CommandLine
<1>3. parseObjFile(Assembled(argv[i])) = f
  BY <1>2, ReadAsWritten
<1>4. PICK m \in Nat : m = Len(files) /\ i = m + 1 /\ m + 1 <= Len(argv)
  BY <1>1
<1>5. runningTotalOffset = Start(i)
  <2>1. CASE m = 0
    BY <1>1, <1>4, <2>1, Starts DEF runningTotalOffset
  <2>2. CASE m # 0
    <3>1. Loaded(m)
      BY <1>4, <2>2 DEF LInv, Files
    <3>2. offset[m] = Start(m) /\ Len(files[m].objCode) = Len(argv[m].objCode)
      BY <3>1 DEF Loaded
    <3>3. Start(m + 1) = Start(m) + Len(argv[m].objCode)
      BY <1>1, <1>4, <2>2, Starts
    <3>4. runningTotalOffset = offset[m] + Len(files[m].objCode)
      BY <1>4, <2>2 DEF runningTotalOffset
    <3> QED BY <1>4, <3>2, <3>3, <3>4
  <2> QED BY <2>1, <2>2
<1>6. PICK by \in Nat : by = Start(i)
  BY <1>1
<1>7. PICK g \in ObjFile : g = Stored(f, by) /\ g.inSymbols = Moved(f.inSymbols, by)
                           /\ g.outSymbols = f.outSymbols /\ g.objCode = f.objCode
  BY StoredFile
<1>8. /\ files' = Append(files, g) /\ offset' = Append(offset, by) /\ i' = i + 1
      /\ mainx20Exists' = FindsMain(f) /\ argv' = argv /\ phase' = phase /\ outFile' = outFile
  BY <1>3, <1>5, <1>6, <1>7 DEF loadFile, Stored
<1>9. /\ files' \in Seq(ObjFile) /\ Len(files') = m + 1
      /\ offset' \in Seq(Nat) /\ Len(offset') = m + 1
      /\ files'[m + 1] = g /\ offset'[m + 1] = by
      /\ \A n \in 1 .. m : files'[n] = files[n] /\ offset'[n] = offset[n]
  BY <1>1, <1>4, <1>8
<1>10. \A n : Start(n)' = Start(n)
  BY <1>8 DEF Start
<1>11. Shapes'
  <2>1. phase' \in {"load", "resolve", "symbols", "code", "written", "failed", "unopened"}
    BY <1>1, <1>8
  <2>2. mainx20Exists' \in BOOLEAN
    BY <1>8 DEF FindsMain
  <2>3. i' \in 1 .. Len(argv) + 1 /\ m + 1 <= Len(argv)
    BY <1>1, <1>4, <1>8
  <2> QED BY <1>1, <1>8, <1>9, <2>1, <2>2, <2>3 DEF Shapes
<1>12. ASSUME NEW n \in 1 .. m + 1 PROVE Loaded(n)' /\ Relocated(n)' /\ Left(n)' = Len(argv[n].outSymbols)
  <2>1. CASE n \in 1 .. m
    <3>1. Loaded(n) /\ Relocated(n) /\ Left(n) = Len(argv[n].outSymbols)
      BY <1>1, <1>4, <2>1 DEF LInv, Files
    <3>2. files'[n] = files[n] /\ offset'[n] = offset[n]
      BY <1>9, <2>1
    <3>3. Left(n)' = Left(n)
      BY <3>2 DEF Left
    <3>4. Loaded(n)'
      BY <1>8, <1>10, <3>1, <3>2, <3>3 DEF Loaded
    <3>5. Left(n) + 1 .. Len(argv[n].outSymbols) = {}
      <4>1. argv[n] \in ObjFile
        BY <3>1 DEF Loaded
      <4> QED BY <3>1, <4>1, FileParts
    <3>6. Relocated(n)'
      BY <1>8, <3>1, <3>2, <3>3, <3>5 DEF Relocated
    <3> QED BY <3>1, <3>3, <3>4, <3>6
  <2>2. CASE n = m + 1
    <3>1. n = i /\ argv[n] = f /\ files'[n] = g /\ offset'[n] = by /\ Start(n) = by
      BY <1>2, <1>4, <1>6, <1>9, <2>2
    <3>2. Left(n)' = Len(f.outSymbols) /\ Len(f.outSymbols) \in Nat
      BY <1>7, <3>1, FileParts DEF Left
    <3>3. Loaded(n)'
      BY <1>7, <1>8, <1>10, <3>1, <3>2 DEF Loaded
    <3>4. Left(n)' + 1 .. Len(f.outSymbols) = {}
      BY <3>2
    <3>5. Relocated(n)'
      BY <1>7, <1>8, <3>1, <3>4 DEF Relocated
    <3> QED BY <3>1, <3>2, <3>3, <3>5
  <2> QED BY <2>1, <2>2
<1>13. Files'
  BY <1>9, <1>12 DEF Files
<1>14. Progress'
  <2>1. phase' = "load" /\ i' = Len(files') + 1
    BY <1>1, <1>4, <1>8, <1>9
  <2>2. (Start(i) \in Nat)'
    <3>1. Start(i + 1) = Start(i) + Len(argv[i].objCode)
      BY <1>1, Starts
    <3>2. Len(argv[i].objCode) \in Nat
      BY <1>2, FileParts
    <3>3. Start(i + 1) \in Nat
      BY <1>1, <3>1, <3>2
    <3>4. Start(i)' = Start(i + 1)
      BY <1>8 DEF Start
    <3> QED BY <3>3, <3>4
  <2>3. \A n \in 1 .. Len(files') : Left(n)' = Len(argv'[n].outSymbols)
    BY <1>8, <1>9, <1>12
  <2>4. mainx20Exists' <=> \E n \in 1 .. Len(files') : Defines(argv'[n], "mainx20")
    <3>1. FindsMain(f) <=> (\E n \in 1 .. m : Defines(argv[n], "mainx20")) \/ Defines(argv[m + 1], "mainx20")
      BY <1>1, <1>2, <1>4 DEF FindsMain
    <3>2. 1 .. m + 1 = 1 .. m \cup {m + 1}
      BY <1>4
    <3> QED BY <1>8, <1>9, <3>1, <3>2
  <2> QED BY <2>1, <2>2, <2>3, <2>4 DEF Progress
<1>15. Output' /\ Justified'
  BY <1>1, <1>8 DEF Output, Justified
<1> QED BY <1>11, <1>13, <1>14, <1>15 DEF LInv

AllFilesLoaded == Len(files) = Len(argv)

\* checkSymbols, when a symbol is defined twice as it can notice.
LEMMA DuplicateIsTwice ==
    ASSUME LInv, AllFilesLoaded, DuplicateInSymbols
    PROVE  Twice
<1>1. Len(files) = Len(argv) /\ argv \in CommandLines /\ DOMAIN files = 1 .. Len(files)
  BY LenProperties DEF LInv, Shapes, AllFilesLoaded
<1>2. PICK m \in 1 .. Len(files), n \in 1 .. Len(files) :
          \E j \in DOMAIN files[m].inSymbols, k \in DOMAIN files[n].inSymbols :
              files[m].inSymbols[j].name = files[n].inSymbols[k].name /\ m # n
  BY <1>1 DEF DuplicateInSymbols
<1>3. PICK j \in DOMAIN files[m].inSymbols, k \in DOMAIN files[n].inSymbols :
          files[m].inSymbols[j].name = files[n].inSymbols[k].name /\ m # n
  BY <1>2
<1>4. Loaded(m) /\ Loaded(n)
  BY DEF LInv, Files
<1>5. PICK s \in Seq(Symbol) : s = argv[m].inSymbols
  BY <1>4, FileParts DEF Loaded
<1>6. files[m].inSymbols = Moved(s, Start(m)) /\ Start(m) \in Nat
  BY <1>4, <1>5 DEF Loaded
<1>7. j \in 1 .. Len(s) /\ files[m].inSymbols[j].name = s[j].name
  <2>1. DOMAIN files[m].inSymbols = 1 .. Len(s)
    BY <1>6, MovedSymbols, LenProperties
  <2> QED BY <1>6, <2>1, MovedSymbols
<1>8. Defines(files[n], s[j].name)
  BY <1>3, <1>7 DEF Defines
<1>9. Defines(argv[n], s[j].name)
  BY <1>4, <1>8, LoadedNames
<1>10. s[j] \in ToSet(s)
  BY <1>7, LenProperties DEF ToSet
<1>11. m \in DOMAIN argv /\ n \in DOMAIN argv
  BY <1>1, CommandLine
<1> QED BY <1>3, <1>5, <1>9, <1>10, <1>11 DEF Twice

LEMMA CheckStep ==
    ASSUME LInv, checkSymbols
    PROVE  LInv'
<1>1. /\ phase = "load" /\ i > Len(argv) /\ i = Len(files) + 1 /\ Len(files) <= Len(argv)
      /\ argv \in CommandLines /\ Len(argv) \in Nat /\ Len(files) \in Nat
      /\ mainx20Exists <=> \E n \in 1 .. Len(files) : Defines(argv[n], "mainx20")
  BY CommandLine, LenProperties DEF LInv, Shapes, Progress, checkSymbols
<1>2. AllFilesLoaded
  BY <1>1 DEF AllFilesLoaded
<1>3. CASE ~mainx20Exists
  <2>1. Fails
    BY <1>3 DEF checkSymbols
  <2>2. ~Complete
    BY <1>1, <1>2, <1>3, CommandLine DEF Complete, AllFilesLoaded
  <2> QED BY <2>1, <2>2, Refuses
<1>4. CASE DuplicateInSymbols
  <2>1. Fails
    BY <1>4 DEF checkSymbols
  <2> QED BY <1>2, <1>4, <2>1, DuplicateIsTwice, Refuses
<1>5. CASE mainx20Exists /\ ~DuplicateInSymbols
  <2>1. /\ phase' = "resolve" /\ i' = 1 /\ argv' = argv /\ files' = files /\ offset' = offset
        /\ mainx20Exists' = mainx20Exists /\ outFile' = outFile
    BY <1>5 DEF checkSymbols
  <2>2. Shapes'
    <3>1. 1 \in 1 .. Len(argv) + 1
      BY <1>1
    <3>2. phase' \in {"load", "resolve", "symbols", "code", "written", "failed", "unopened"}
      BY <2>1
    <3> QED BY <2>1, <3>1, <3>2 DEF LInv, Shapes
  <2>3. Files'
    BY <2>1, Unmoved DEF LInv
  <2>4. AllLoaded'
    BY <1>1, <1>2, <1>5, <2>1 DEF AllLoaded, AllFilesLoaded
  <2>5. Progress'
    BY <2>1, <2>4 DEF Progress
  <2>6. Output' /\ Justified'
    BY <2>1 DEF Output, Justified
  <2> QED BY <2>2, <2>3, <2>5, <2>6 DEF LInv
<1> QED BY <1>3, <1>4, <1>5

LEMMA ResolvedFileStep ==
    ASSUME LInv, resolvedFile
    PROVE  LInv'
<1>1. /\ phase = "resolve" /\ i <= Len(files) /\ files[i].outSymbols = <<>> /\ i' = i + 1
      /\ argv' = argv /\ phase' = phase /\ files' = files /\ offset' = offset
      /\ mainx20Exists' = mainx20Exists /\ outFile' = outFile
  BY DEF resolvedFile
<1>2. /\ AllLoaded /\ i \in Nat \ {0} /\ Len(argv) \in Nat
      /\ Len(files) = Len(argv) /\ \A n \in 1 .. i - 1 : Left(n) = 0
  BY <1>1, CommandLine DEF LInv, Shapes, Progress, AllLoaded
<1>3. Shapes'
  <2>1. i + 1 \in 1 .. Len(argv) + 1
    BY <1>1, <1>2
  <2>2. phase' \in {"load", "resolve", "symbols", "code", "written", "failed", "unopened"}
    BY <1>1
  <2> QED BY <1>1, <2>1, <2>2 DEF LInv, Shapes
<1>4. Files' /\ \A n : Left(n)' = Left(n)
  BY <1>1, Unmoved DEF LInv
<1>5. AllLoaded'
  BY <1>1, <1>2 DEF AllLoaded
<1>6. \A n \in 1 .. i' - 1 : Left(n)' = 0
  <2>1. Left(i) = 0
    BY <1>1 DEF Left
  <2>2. \A n \in 1 .. i + 1 - 1 : n \in 1 .. i - 1 \/ n = i
    BY <1>2
  <2> QED BY <1>1, <1>2, <1>4, <2>1, <2>2
<1>7. Progress'
  BY <1>1, <1>5, <1>6 DEF Progress
<1>8. Output' /\ Justified'
  BY <1>1 DEF Output, Justified
<1> QED BY <1>3, <1>4, <1>7, <1>8 DEF LInv

\* A file whose last imported symbol, at word a, has been found at distance d.
Resolved(f, a, d) ==
    [f EXCEPT !.objCode[a + 1] = updateCodeWordAddr(@, d), !.outSymbols = Front(@)]

\* File f becomes g, and has left - 1 symbols to resolve.
ResolvedInto(f, g, left, a, d) ==
    /\ g \in ObjFile /\ g.inSymbols = f.inSymbols
    /\ Len(g.outSymbols) = left - 1
    /\ \A k \in 1 .. left - 1 : g.outSymbols[k] = f.outSymbols[k]
    /\ Len(g.objCode) = Len(f.objCode)
    /\ g.objCode[a + 1] = updateCodeWordAddr(f.objCode[a + 1], d)
    /\ \A b \in 1 .. Len(f.objCode) : b # a + 1 => g.objCode[b] = f.objCode[b]

LEMMA ResolvedFile ==
    ASSUME NEW f \in ObjFile, NEW left \in Nat \ {0}, left = Len(f.outSymbols),
           NEW a \in Nat, a < Len(f.objCode), NEW d \in Int
    PROVE  ResolvedInto(f, Resolved(f, a, d), left, a, d)
<1>g. PICK g : g = Resolved(f, a, d)
  OBVIOUS
<1>1. PICK code \in Seq(Word), outs \in Seq(Symbol) :
          code = f.objCode /\ outs = f.outSymbols /\ Len(code) \in Nat
  BY FileParts
<1>2. a + 1 \in 1 .. Len(code) /\ code[a + 1] \in Word
  BY <1>1, ElementOfSeq
<1>3. PICK w \in Word : w = updateCodeWordAddr(code[a + 1], d)
  BY <1>2, Updated
<1>4. PICK patched : patched = [code EXCEPT ![a + 1] = w]
  OBVIOUS
<1>5. /\ patched \in Seq(Word) /\ Len(patched) = Len(code) /\ patched[a + 1] = w
      /\ \A b \in 1 .. Len(code) : b # a + 1 => patched[b] = code[b]
  BY <1>1, <1>2, <1>4
<1>6. PICK front : front = SubSeq(outs, 1, left - 1)
  OBVIOUS
<1>7. /\ front \in Seq(Symbol) /\ Len(front) = left - 1
      /\ \A k \in 1 .. left - 1 : front[k] = outs[k]
  BY <1>1, <1>6
<1>8. front = Front(f.outSymbols)
  BY <1>1, <1>6 DEF Front
<1>9. patched = [f.objCode EXCEPT ![a + 1] = updateCodeWordAddr(@, d)]
  BY <1>1, <1>3, <1>4
<1>10. g = [f EXCEPT !.objCode = patched, !.outSymbols = front]
  BY <1>g, <1>8, <1>9 DEF Resolved
<1>11. /\ g.inSymbols = f.inSymbols /\ g.outSymbols = front /\ g.objCode = patched
       /\ g \in ObjFile
  BY <1>5, <1>7, <1>10 DEF ObjFile
<1>12. ResolvedInto(f, g, left, a, d)
  BY <1>1, <1>3, <1>5, <1>7, <1>11 DEF ResolvedInto
<1> QED BY <1>g, <1>12

\* What resolve changes.
LEMMA ResolveEffect ==
    ASSUME LInv, resolve, NEW s, s = Last(files[i].outSymbols),
           \E n \in 1 .. Len(files) : Defines(files[n], s.name)
    PROVE  /\ i \in 1 .. Len(files) /\ Left(i) \in Nat \ {0} /\ Left(i) <= Len(argv[i].outSymbols)
           /\ s = argv[i].outSymbols[Left(i)] /\ s \in Symbol
           /\ s.addr \in Nat /\ s.addr < Len(files[i].objCode)
           /\ files' = [files EXCEPT ![i] = Resolved(files[i], s.addr,
                  getAddress(files[Definer(s.name)], s.name) - (Start(i) + s.addr + 1))]
           /\ argv' = argv /\ phase' = phase /\ offset' = offset /\ i' = i
           /\ mainx20Exists' = mainx20Exists /\ outFile' = outFile /\ phase = "resolve"
<1>1. /\ phase = "resolve" /\ i <= Len(files) /\ files[i].outSymbols # <<>>
      /\ i \in Nat \ {0} /\ files \in Seq(ObjFile) /\ argv \in CommandLines
      /\ Len(files) = Len(argv)
  BY CommandLine DEF LInv, Shapes, Progress, AllLoaded, resolve
<1>2. i \in 1 .. Len(files) /\ Loaded(i)
  BY <1>1, LenProperties DEF LInv, Files
<1>3. PICK f \in ObjFile : f = files[i]
  BY <1>2 DEF Loaded
<1>4. PICK left \in Nat \ {0} : left = Len(f.outSymbols) /\ left = Left(i)
  <2>1. f.outSymbols \in Seq(Symbol) /\ f.outSymbols # <<>>
    BY <1>1, <1>3, FileParts
  <2> QED BY <1>3, <2>1, EmptySeq DEF Left
<1>5. /\ left <= Len(argv[i].outSymbols) /\ f.outSymbols[left] = argv[i].outSymbols[left]
      /\ argv[i] \in ObjFile /\ offset[i] = Start(i) /\ Start(i) \in Nat
      /\ Len(f.objCode) = Len(argv[i].objCode)
  BY <1>2, <1>3, <1>4 DEF Loaded
<1>6. s = argv[i].outSymbols[left]
  BY <1>3, <1>4, <1>5 DEF Last
<1>7. left \in 1 .. Len(argv[i].outSymbols)
  BY <1>5, FileParts
<1>8. s \in Symbol /\ s.addr \in 0 .. Len(argv[i].objCode) - 1
  BY <1>1, <1>2, <1>5, <1>6, <1>7, Imports
<1>9. s.addr \in Nat /\ s.addr < Len(f.objCode)
  <2>1. Len(argv[i].objCode) \in Nat
    BY <1>5, FileParts
  <2> QED BY <1>5, <1>8, <2>1
<1>10. DOMAIN files = 1 .. Len(files)
  BY <1>1, LenProperties
<1>11. ~(\A j \in DOMAIN files : ~Defines(files[j], s.name))
  BY <1>10
<1> DEFINE d == getAddress(files[Definer(s.name)], s.name) - (offset[i] + s.addr + 1)
<1>12. /\ files' = [files EXCEPT ![i].objCode[s.addr + 1] = updateCodeWordAddr(@, d),
                                 ![i].outSymbols = Front(@)]
       /\ argv' = argv /\ phase' = phase /\ offset' = offset /\ i' = i
       /\ mainx20Exists' = mainx20Exists /\ outFile' = outFile
  BY <1>11 DEF resolve
<1> HIDE DEF d
<1>13. files' = [files EXCEPT ![i] = Resolved(files[i], s.addr, d)]
  BY <1>10, <1>12 DEF Resolved
<1>14. d = getAddress(files[Definer(s.name)], s.name) - (Start(i) + s.addr + 1)
  BY <1>5 DEF d
<1> QED BY <1>1, <1>2, <1>3, <1>4, <1>5, <1>6, <1>8, <1>9, <1>12, <1>13, <1>14

LEMMA UnresolvedStep ==
    ASSUME LInv, resolve, NEW s, s = Last(files[i].outSymbols),
           ~\E n \in 1 .. Len(files) : Defines(files[n], s.name)
    PROVE  LInv'
<1>1. /\ i <= Len(files) /\ files[i].outSymbols # <<>>
      /\ i \in Nat \ {0} /\ files \in Seq(ObjFile) /\ argv \in CommandLines
      /\ Len(files) = Len(argv) /\ DOMAIN argv = 1 .. Len(argv) /\ Len(argv) \in Nat
  BY CommandLine DEF LInv, Shapes, Progress, AllLoaded, resolve
<1>2. i \in 1 .. Len(files) /\ DOMAIN files = 1 .. Len(files)
  BY <1>1, LenProperties
<1>3. Fails
  BY <1>2 DEF resolve
<1>4. Loaded(i)
  BY <1>2 DEF LInv, Files
<1>5. PICK f \in ObjFile : f = files[i]
  BY <1>4 DEF Loaded
<1>6. PICK left \in Nat \ {0} : left = Len(f.outSymbols) /\ left = Left(i)
  <2>1. f.outSymbols \in Seq(Symbol) /\ f.outSymbols # <<>>
    BY <1>1, <1>5, FileParts
  <2> QED BY <1>5, <2>1, EmptySeq DEF Left
<1>7. /\ left <= Len(argv[i].outSymbols) /\ f.outSymbols[left] = argv[i].outSymbols[left]
      /\ argv[i] \in ObjFile
  BY <1>4, <1>5, <1>6 DEF Loaded
<1>8. s = argv[i].outSymbols[left] /\ left \in DOMAIN argv[i].outSymbols
  BY <1>5, <1>6, <1>7, FileParts DEF Last
<1>9. s \in ToSet(argv[i].outSymbols)
  BY <1>8 DEF ToSet
<1>10. \A n \in DOMAIN argv : ~Defines(argv[n], s.name)
  <2> SUFFICES ASSUME NEW n \in DOMAIN argv PROVE ~Defines(argv[n], s.name)
    OBVIOUS
  <2>1. n \in 1 .. Len(files) /\ Loaded(n)
    BY <1>1 DEF LInv, Files
  <2> QED BY <2>1, LoadedNames
<1>11. i \in DOMAIN argv /\ Unresolved(i)
  BY <1>1, <1>2, <1>9, <1>10 DEF Unresolved
<1>12. ~Complete
  BY <1>11 DEF Complete
<1> QED BY <1>3, <1>12, Refuses

LEMMA ResolveStep ==
    ASSUME LInv, resolve, NEW s, s = Last(files[i].outSymbols),
           \E n \in 1 .. Len(files) : Defines(files[n], s.name)
    PROVE  LInv'
<1>1. PICK d \in 1 .. Len(files) : d = Definer(s.name) /\ DefinedFirst(d, s.name)
  <2>1. Len(files) \in Nat /\ DOMAIN files = 1 .. Len(files)
    BY LenProperties DEF LInv, Shapes
  <2> QED BY <2>1, FirstDefiner
<1>2. PICK x : x = getAddress(files[d], s.name) - (Start(i) + s.addr + 1)
  OBVIOUS
<1>3. PICK p, left, a : p = i /\ left = Left(i) /\ a = s.addr
  OBVIOUS
<1>4. /\ p \in 1 .. Len(files) /\ left \in Nat \ {0} /\ left <= Len(argv[p].outSymbols)
      /\ s = argv[p].outSymbols[left] /\ s \in Symbol
      /\ a \in Nat /\ a < Len(files[p].objCode)
      /\ files' = [files EXCEPT ![p] = Resolved(files[p], a, x)]
      /\ argv' = argv /\ phase' = phase /\ offset' = offset /\ i' = i
      /\ mainx20Exists' = mainx20Exists /\ outFile' = outFile /\ phase = "resolve"
  BY <1>1, <1>2, <1>3, ResolveEffect
<1>5. /\ files \in Seq(ObjFile) /\ argv \in CommandLines /\ Len(files) = Len(argv)
      /\ Len(argv) \in Nat /\ AllLoaded /\ \A n \in 1 .. p - 1 : Left(n) = 0
      /\ DOMAIN files = 1 .. Len(files)
  BY <1>3, <1>4, CommandLine, LenProperties DEF LInv, Shapes, Progress, AllLoaded
<1>6. \A n \in 1 .. Len(files) : Loaded(n) /\ Relocated(n)
  BY DEF LInv, Files
<1>7. \A n \in 1 .. Len(files) : files[n] \in ObjFile /\ files[n].inSymbols \in Seq(Symbol)
  BY <1>6, FileParts DEF Loaded
<1>8. x \in Int
  <2>0. PICK h, name : h = files[d] /\ name = s.name /\ Defines(h, name) /\ h.inSymbols \in Seq(Symbol)
    BY <1>1, <1>7 DEF DefinedFirst
  <2>a. \E k \in 1 .. Len(h.inSymbols) : getAddress(h, name) = h.inSymbols[k].addr
    BY <2>0, FirstSymbol
  <2>1. PICK k \in 1 .. Len(files[d].inSymbols) :
            getAddress(files[d], s.name) = files[d].inSymbols[k].addr
    BY <2>0, <2>a
  <2>2. files[d].inSymbols[k] \in Symbol
    BY <1>7, <2>1, ElementsOfFile
  <2>3. PICK target \in Int : target = getAddress(files[d], s.name)
    BY <2>1, <2>2, TopFacts DEF Symbol
  <2>4. Start(p) \in Nat
    BY <1>4, <1>6 DEF Loaded
  <2> QED BY <1>2, <1>3, <1>4, <2>3, <2>4
<1>9. PICK f \in ObjFile : f = files[p] /\ left = Len(f.outSymbols)
  BY <1>3, <1>4, <1>7 DEF Left
<1>10. PICK g \in ObjFile :
          /\ g = Resolved(f, a, x) /\ g.inSymbols = f.inSymbols
          /\ Len(g.outSymbols) = left - 1
          /\ \A k \in 1 .. left - 1 : g.outSymbols[k] = f.outSymbols[k]
          /\ Len(g.objCode) = Len(f.objCode)
          /\ g.objCode[a + 1] = updateCodeWordAddr(f.objCode[a + 1], x)
          /\ \A b \in 1 .. Len(f.objCode) : b # a + 1 => g.objCode[b] = f.objCode[b]
  <2>2. a \in Nat /\ a < Len(f.objCode) /\ left \in Nat \ {0} /\ left = Len(f.outSymbols)
    BY <1>4, <1>9
  <2>3. ResolvedInto(f, Resolved(f, a, x), left, a, x)
    BY <1>8, <2>2, ResolvedFile
  <2> QED BY <2>3 DEF ResolvedInto
<1>11. /\ files' \in Seq(ObjFile) /\ Len(files') = Len(files) /\ files'[p] = g
       /\ \A n \in 1 .. Len(files) : n # p => files'[n] = files[n]
  BY <1>4, <1>5, <1>9, <1>10
<1>12. \A n \in 1 .. Len(files) : files'[n].inSymbols = files[n].inSymbols
  BY <1>9, <1>10, <1>11
<1>13. \A n : Start(n)' = Start(n)
  BY <1>4 DEF Start
<1>14. ASSUME NEW n \in 1 .. Len(files), NEW name
       PROVE  /\ DefinedFirst(n, name)' <=> DefinedFirst(n, name)
              /\ getAddress(files'[n], name) = getAddress(files[n], name)
  <2>1. \A k \in 1 .. Len(files) : Defines(files'[k], name) <=> Defines(files[k], name)
    BY <1>12 DEF Defines
  <2>2. \A k \in 1 .. n - 1 : k \in 1 .. Len(files)
    BY <1>5
  <2>3. DefinedFirst(n, name)' <=> DefinedFirst(n, name)
    BY <2>1, <2>2 DEF DefinedFirst
  <2>4. getAddress(files'[n], name) = getAddress(files[n], name)
    BY <1>12 DEF getAddress
  <2> QED BY <2>3, <2>4
<1>15. ASSUME NEW n \in 1 .. Len(files), n # p
       PROVE  Loaded(n)' /\ Relocated(n)' /\ Left(n)' = Left(n)
  <2>1. files'[n] = files[n] /\ offset'[n] = offset[n]
    BY <1>4, <1>11, <1>15
  <2>2. Left(n)' = Left(n)
    BY <2>1 DEF Left
  <2>3. Loaded(n)'
    BY <1>4, <1>6, <1>13, <2>1, <2>2 DEF Loaded
  <2>4. ASSUME NEW t, FilledIn(n, t) PROVE FilledIn(n, t)'
    BY <1>4, <1>11, <1>13, <1>14, <2>1, <2>4 DEF FilledIn
  <2>5. Relocated(n)'
    <3>1. Relocated(n) /\ argv' = argv
      BY <1>4, <1>6
    <3> QED BY <2>1, <2>2, <2>4, <3>1 DEF Relocated
  <2> QED BY <2>2, <2>3, <2>5
<1>16. Left(p)' = left - 1
  BY <1>10, <1>11 DEF Left
<1>17. Loaded(p)'
  <2>1. Loaded(p) /\ Left(p) = left
    BY <1>3, <1>4, <1>6
  <2>2. \A k \in 1 .. left - 1 : g.outSymbols[k] = argv[p].outSymbols[k]
    <3>1. \A k \in 1 .. left : f.outSymbols[k] = argv[p].outSymbols[k]
      BY <1>9, <2>1 DEF Loaded
    <3>2. \A k \in 1 .. left - 1 : k \in 1 .. left
      BY <1>4
    <3> QED BY <1>10, <3>1, <3>2
  <2>3. left - 1 <= Len(argv[p].outSymbols)
    <3>1. Len(argv[p].outSymbols) \in Nat
      BY <2>1, FileParts DEF Loaded
    <3> QED BY <1>4, <3>1
  <2> QED BY <1>4, <1>9, <1>10, <1>11, <1>13, <1>16, <2>1, <2>2, <2>3 DEF Loaded
<1>18. Relocated(p)'
  <2>a. argv' = argv /\ files'[p] = g
    BY <1>4, <1>11
  <2>b. Left(p)' + 1 = left
    BY <1>4, <1>16
  <2> SUFFICES
        /\ \A b \in 0 .. Len(argv[p].objCode) - 1 :
               \/ g.objCode[b + 1] = argv[p].objCode[b + 1]
               \/ \E k \in left .. Len(argv[p].outSymbols) : argv[p].outSymbols[k].addr = b
        /\ \A k \in left .. Len(argv[p].outSymbols) : FilledIn(p, argv[p].outSymbols[k])'
    BY <2>a, <2>b DEF Relocated
  <2>0. argv[p].outSymbols[left].addr = a
    <3>1. s = argv[p].outSymbols[left] /\ a = s.addr
      BY <1>3, <1>4
    <3> QED BY <3>1
  <2>1. /\ Loaded(p) /\ Relocated(p) /\ Left(p) = left /\ argv[p] \in ObjFile
        /\ Len(f.objCode) = Len(argv[p].objCode)
    BY <1>3, <1>4, <1>6, <1>9 DEF Loaded
  <2>2. /\ Len(argv[p].outSymbols) \in Nat /\ Len(argv[p].objCode) \in Nat
        /\ left \in 1 .. Len(argv[p].outSymbols) /\ p \in 1 .. Len(argv)
    BY <1>4, <1>5, <2>1, FileParts
  <2>3. ASSUME NEW k \in left + 1 .. Len(argv[p].outSymbols)
        PROVE  /\ argv[p].outSymbols[k].addr # a
               /\ argv[p].outSymbols[k].addr + 1 \in 1 .. Len(f.objCode)
    <3>1. k \in 1 .. Len(argv[p].outSymbols) /\ left \in 1 .. k - 1
      BY <1>4, <2>2
    <3>2. /\ argv[p].outSymbols[k].addr \in 0 .. Len(argv[p].objCode) - 1
          /\ \A j \in 1 .. k - 1 : argv[p].outSymbols[j].addr # argv[p].outSymbols[k].addr
      BY <1>5, <2>1, <2>2, <3>1, Imports
    <3>3. argv[p].outSymbols[left].addr = a
      BY <2>0
    <3>4. argv[p].outSymbols[k].addr # a
      BY <3>1, <3>2, <3>3
    <3>5. PICK b \in 0 .. Len(f.objCode) - 1 : b = argv[p].outSymbols[k].addr
      BY <2>1, <3>2
    <3>6. b + 1 \in 1 .. Len(f.objCode)
      BY <2>1, <2>2
    <3> QED BY <3>4, <3>5, <3>6
  <2>4. ASSUME NEW b \in 0 .. Len(argv[p].objCode) - 1
        PROVE  \/ g.objCode[b + 1] = argv[p].objCode[b + 1]
               \/ \E k \in left .. Len(argv[p].outSymbols) : argv[p].outSymbols[k].addr = b
    <3>1. CASE b = a
      <4>1. left \in left .. Len(argv[p].outSymbols)
        BY <2>2
      <4> QED BY <2>0, <3>1, <4>1
    <3>2. CASE b # a
      <4>1. g.objCode[b + 1] = f.objCode[b + 1]
        <5>1. b + 1 \in 1 .. Len(f.objCode) /\ b + 1 # a + 1
          BY <1>4, <2>1, <2>2, <3>2
        <5> QED BY <1>10, <5>1
      <4>2. \/ f.objCode[b + 1] = argv[p].objCode[b + 1]
            \/ \E k \in left + 1 .. Len(argv[p].outSymbols) : argv[p].outSymbols[k].addr = b
        BY <1>9, <2>1 DEF Relocated
      <4>3. left + 1 .. Len(argv[p].outSymbols) \subseteq left .. Len(argv[p].outSymbols)
        BY <2>2
      <4> QED BY <4>1, <4>2, <4>3
    <3> QED BY <3>1, <3>2
  <2>5. f.objCode[a + 1] = argv[p].objCode[a + 1]
    <3>1. a \in 0 .. Len(argv[p].objCode) - 1
      BY <1>4, <1>9, <2>1, <2>2
    <3>2. \/ f.objCode[a + 1] = argv[p].objCode[a + 1]
          \/ \E k \in left + 1 .. Len(argv[p].outSymbols) : argv[p].outSymbols[k].addr = a
      BY <1>9, <2>1, <3>1 DEF Relocated
    <3> QED BY <2>3, <3>2
  <2>6. FilledIn(p, s)'
    <3>1. g.objCode[a + 1] = updateCodeWordAddr(argv[p].objCode[a + 1], x)
      BY <1>10, <2>5
    <3>2. d \in 1 .. Len(files') /\ DefinedFirst(d, s.name)'
          /\ getAddress(files'[d], s.name) = getAddress(files[d], s.name)
      BY <1>1, <1>11, <1>14
    <3>3. x = getAddress(files'[d], s.name) - (Start(p)' + s.addr + 1)
      BY <1>2, <1>3, <1>13, <3>2
    <3> QED BY <1>3, <1>4, <1>11, <3>1, <3>2, <3>3 DEF FilledIn
  <2>7. ASSUME NEW k \in left + 1 .. Len(argv[p].outSymbols)
        PROVE  FilledIn(p, argv[p].outSymbols[k])'
    <3>1. PICK t : t = argv[p].outSymbols[k]
      OBVIOUS
    <3>2. FilledIn(p, t)
      BY <2>1, <3>1 DEF Relocated
    <3>3. g.objCode[t.addr + 1] = f.objCode[t.addr + 1]
      <4>1. t.addr # a /\ t.addr + 1 \in 1 .. Len(f.objCode) /\ t.addr + 1 # a + 1
        <5>1. t.addr # a /\ t.addr + 1 \in 1 .. Len(f.objCode)
          BY <2>3, <3>1
        <5>2. t.addr \in Nat
          BY <1>5, <2>1, <2>2, <3>1, Imports
        <5> QED BY <1>4, <5>1, <5>2
      <4> QED BY <1>10, <4>1
    <3>4. PICK m \in 1 .. Len(files) :
              /\ DefinedFirst(m, t.name)
              /\ files[p].objCode[t.addr + 1] =
                     updateCodeWordAddr(argv[p].objCode[t.addr + 1],
                                        getAddress(files[m], t.name) - (Start(p) + t.addr + 1))
      BY <3>2 DEF FilledIn
    <3>5. /\ m \in 1 .. Len(files') /\ DefinedFirst(m, t.name)'
          /\ getAddress(files'[m], t.name) = getAddress(files[m], t.name)
      BY <1>11, <1>14, <3>4
    <3>6. files'[p].objCode[t.addr + 1] =
              updateCodeWordAddr(argv'[p].objCode[t.addr + 1],
                                 getAddress(files'[m], t.name) - (Start(p)' + t.addr + 1))
      BY <1>4, <1>9, <1>11, <1>13, <3>3, <3>4, <3>5
    <3>7. FilledIn(p, t)'
      <4>1. \E l \in 1 .. Len(files') :
                /\ DefinedFirst(l, t.name)'
                /\ files'[p].objCode[t.addr + 1] =
                       updateCodeWordAddr(argv'[p].objCode[t.addr + 1],
                                          getAddress(files'[l], t.name) - (Start(p)' + t.addr + 1))
        BY <3>5, <3>6
      <4> QED BY <4>1 DEF FilledIn
    <3> QED BY <1>4, <3>1, <3>7
  <2>8. \A k \in left .. Len(argv[p].outSymbols) : k = left \/ k \in left + 1 .. Len(argv[p].outSymbols)
    BY <2>2
  <2> QED BY <1>4, <2>4, <2>6, <2>7, <2>8
<1>19. Files'
  BY <1>11, <1>15, <1>17, <1>18 DEF Files
<1>20. Shapes'
  <2>1. phase' \in {"load", "resolve", "symbols", "code", "written", "failed", "unopened"}
    BY <1>4
  <2> QED BY <1>4, <1>11, <2>1 DEF LInv, Shapes
<1>21. Progress'
  <2>1. AllLoaded'
    BY <1>4, <1>5, <1>11 DEF AllLoaded
  <2>2. \A n \in 1 .. i' - 1 : Left(n)' = 0
    <3>1. \A n \in 1 .. p - 1 : n \in 1 .. Len(files) /\ n # p
      BY <1>4, <1>5
    <3> QED BY <1>3, <1>4, <1>5, <1>15, <3>1
  <2> QED BY <1>4, <2>1, <2>2 DEF Progress
<1>22. Output' /\ Justified'
  BY <1>4 DEF Output, Justified
<1> QED BY <1>19, <1>20, <1>21, <1>22 DEF LInv
-----------------------------------------------------------------------------
(* Writing *)

LEMMA ContentJoined ==
    ASSUME NEW r \in Seq(Content), NEW s \in Seq(Content), NEW t \in Seq(Content)
    PROVE  (r \o s) \o t = r \o (s \o t)
BY ConcatAssociative

LEMMA SumNat ==
    ASSUME NEW numbers, Len(numbers) \in Nat, \A n \in 1 .. Len(numbers) : numbers[n] \in Nat
    PROVE  \A n \in 0 .. Len(numbers) : SumOfFirst(numbers, n) \in Nat
<1> DEFINE Not == {n \in 0 .. Len(numbers) : SumOfFirst(numbers, n) \notin Nat}
<1> SUFFICES ASSUME Not # {} PROVE FALSE
  OBVIOUS
<1>1. PICK m \in Not : \A k \in Not : m <= k
  <2>1. Not \in SUBSET Nat /\ Not # {}
    OBVIOUS
  <2> QED BY <2>1, LeastNat
<1>2. m \in 0 .. Len(numbers) /\ SumOfFirst(numbers, m) \notin Nat
  OBVIOUS
<1>3. m # 0
  BY <1>2, SumSteps
<1>4. m \in 1 .. Len(numbers) /\ m - 1 \in 0 .. Len(numbers) /\ ~(m <= m - 1)
  BY <1>2, <1>3
<1>5. SumOfFirst(numbers, m - 1) \in Nat
  BY <1>1, <1>4
<1>6. SumOfFirst(numbers, m) = SumOfFirst(numbers, m - 1) + numbers[m] /\ numbers[m] \in Nat
  BY <1>4, SumSteps
<1> QED BY <1>2, <1>5, <1>6

\* How many symbols each file defines.
Counts == [j \in 1 .. Len(files) |-> Len(files[j].inSymbols)]

LEMMA CountsAre ==
    ASSUME Shapes, Files
    PROVE  /\ Len(Counts) = Len(files) /\ Len(files) \in Nat
           /\ \A n \in 1 .. Len(files) : Counts[n] = Len(files[n].inSymbols) /\ Counts[n] \in Nat
<1>1. Len(files) \in Nat
  BY LenProperties DEF Shapes
<1>2. \A n \in 1 .. Len(files) : Len(files[n].inSymbols) \in Nat
  BY FileParts DEF Files, Loaded
<1>3. Counts = [j \in 1 .. Len(files) |-> Len(files[j].inSymbols)]
  BY DEF Counts
<1> QED BY <1>1, <1>2, <1>3

LEMMA HeaderIs ==
    ASSUME Shapes, Files, AllFilesLoaded
    PROVE  /\ Header = <<SymbolWords * SumOfFirst(Counts, Len(files)), 0, Start(Len(argv) + 1)>>
           /\ Header \in Seq(Content) /\ Start(Len(argv) + 1) \in Nat
<1>1. Len(files) = Len(argv) /\ Len(files) \in Nat
  BY CountsAre DEF AllFilesLoaded
<1>2. [j \in 1 .. Len(files) |-> Len(files[j].objCode)] = [m \in 1 .. Len(argv) |-> Len(argv[m].objCode)]
  <2>1. \A n \in 1 .. Len(files) : Len(files[n].objCode) = Len(argv[n].objCode)
    BY DEF Files, Loaded
  <2> QED BY <1>1, <2>1
<1>3. PICK lengths : lengths = [m \in 1 .. Len(argv) |-> Len(argv[m].objCode)]
  OBVIOUS
<1>4. Start(Len(argv) + 1) = SumOfFirst(lengths, Len(argv))
  <2>1. Len(argv) + 1 - 1 = Len(argv)
    BY <1>1
  <2> QED BY <1>3, <2>1 DEF Start, FirstWord
<1>5. Header = <<SymbolWords * SumOfFirst(Counts, Len(files)), 0, Start(Len(argv) + 1)>>
  BY <1>1, <1>2, <1>3, <1>4, Zenon DEF Header, Counts
<1>6. SumOfFirst(lengths, Len(argv)) \in Nat
  <2>1. Len(lengths) = Len(argv)
    BY <1>1, <1>3
  <2>2. \A n \in 1 .. Len(argv) : lengths[n] \in Nat
    <3>1. \A n \in 1 .. Len(argv) : argv[n] \in ObjFile
      BY <1>1 DEF Files, Loaded
    <3> QED BY <1>3, <3>1, FileParts
  <2>3. Len(argv) \in 0 .. Len(lengths)
    BY <1>1, <2>1
  <2> QED BY <1>1, <2>1, <2>2, <2>3, SumNat
<1>7. SumOfFirst(Counts, Len(files)) \in Nat
  <2>1. /\ Len(Counts) = Len(files)
        /\ \A n \in 1 .. Len(Counts) : Counts[n] \in Nat
    BY CountsAre
  <2>2. Len(files) \in 0 .. Len(Counts)
    BY <1>1, <2>1
  <2> QED BY <1>1, <2>1, <2>2, SumNat
<1>8. Header \in Seq(Content)
  <2>1. PICK a \in Nat, c \in Nat : a = SumOfFirst(Counts, Len(files)) /\ c = Start(Len(argv) + 1)
    BY <1>4, <1>6, <1>7
  <2>2. SymbolWords * a \in Content /\ 0 \in Content /\ c \in Content
    BY DEF SymbolWords, Content
  <2>3. <<SymbolWords * a, 0, c>> \in Seq(Content)
    BY <2>2
  <2> QED BY <1>5, <2>1, <2>3
<1> QED BY <1>4, <1>5, <1>6, <1>8

\* What has been written stays what it is.
LEMMA StillOf ==
    ASSUME argv' = argv, files' = files
    PROVE  /\ \A ins, m : SymbolsOf(ins, m)' <=> SymbolsOf(ins, m)
           /\ \A code, m : CodeOf(code, m)' <=> CodeOf(code, m)
<1>1. \A n : Start(n)' = Start(n)
  BY DEF Start
<1>2. \A n, name : DefinedFirst(n, name)' <=> DefinedFirst(n, name)
  BY DEF DefinedFirst
<1>3. \A ins, m : SymbolsOf(ins, m)' <=> SymbolsOf(ins, m)
  BY <1>2 DEF SymbolsOf
<1>4. \A code, m : CodeOf(code, m)' <=> CodeOf(code, m)
  BY <1>1 DEF CodeOf
<1> QED BY <1>3, <1>4

LEMMA NoSymbols ==
    ASSUME Shapes, Files
    PROVE  SymbolsOf(<<>>, 0)
<1>1. PICK none : none = <<>>
  OBVIOUS
<1>a. none \in Seq(Symbol) /\ Len(none) = 0
  BY <1>1
<1>2. SumOfFirst(Counts, 0) = 0
  BY CountsAre, SumSteps
<1>3. \A name : ~Defines(OnlySymbols(none), name)
  <2>1. OnlySymbols(none).inSymbols = none /\ 1 .. Len(none) = {}
    BY <1>a DEF OnlySymbols
  <2> QED BY <1>a, <2>1, DefinesNamed
<1>4. SymbolsOf(none, 0)
  BY <1>a, <1>2, <1>3 DEF SymbolsOf, Counts
<1> QED BY <1>1, <1>4

LEMMA OpenStep ==
    ASSUME LInv, openFile
    PROVE  LInv'
<1>1. /\ phase = "resolve" /\ i > Len(files) /\ i' = 1
      /\ argv' = argv /\ files' = files /\ offset' = offset /\ mainx20Exists' = mainx20Exists
      /\ \/ phase' = "symbols" /\ outFile' = Header
         \/ phase' = "unopened"
  BY DEF openFile
<1>2. /\ Shapes /\ Files /\ AllLoaded /\ Len(argv) \in Nat /\ Len(files) \in Nat
      /\ i \in Nat /\ \A n \in 1 .. i - 1 : Left(n) = 0
  BY <1>1, CommandLine, LenProperties DEF LInv, Shapes, Progress
<1>3. Shapes'
  <2>1. 1 \in 1 .. Len(argv) + 1
    BY <1>2
  <2>2. phase' \in {"load", "resolve", "symbols", "code", "written", "failed", "unopened"}
    BY <1>1
  <2> QED BY <1>1, <2>1, <2>2 DEF LInv, Shapes
<1>4. Files' /\ (\A n : Left(n)' = Left(n)) /\ Header' = Header
  BY <1>1, Unmoved DEF LInv
<1>5. AllLoaded'
  BY <1>1, <1>2 DEF AllLoaded
<1>6. \A n \in 1 .. Len(files') : Left(n)' = 0
  <2>1. \A n \in 1 .. Len(files) : n \in 1 .. i - 1
    BY <1>1, <1>2
  <2> QED BY <1>1, <1>2, <1>4, <2>1
<1>7. Progress'
  BY <1>1, <1>5, <1>6 DEF Progress
<1>8. ASSUME phase' = "symbols" PROVE Output'
  <2>0. PICK none : none = <<>>
    OBVIOUS
  <2>1. none \in Seq(Symbol) /\ none = <<>>
    BY <2>0
  <2>2. SymbolsOf(none, 0)'
    BY <1>1, <1>2, <2>1, NoSymbols, StillOf
  <2>3. Header \in Seq(Content)
    BY <1>2, HeaderIs DEF AllLoaded, AllFilesLoaded
  <2>4. Header \o writeSymbols(none) = Header
    BY <2>1, <2>3, WrittenNone, ConcatEmptySeq
  <2>5. outFile' = Header
    BY <1>1, <1>8
  <2>6. outFile' = Header' \o writeSymbols(none)
    BY <1>4, <2>4, <2>5
  <2>7. SymbolsWritten(0)'
    BY <2>1, <2>2, <2>6 DEF SymbolsWritten
  <2>8. i' - 1 = 0
    BY <1>1
  <2> QED BY <1>8, <2>7, <2>8 DEF Output
<1>9. ASSUME phase' = "unopened" PROVE Output'
  BY <1>9 DEF Output
<1>10. Justified'
  BY <1>1 DEF Justified
<1> QED BY <1>1, <1>3, <1>4, <1>7, <1>8, <1>9, <1>10 DEF LInv

\* The symbols of one more file.
LEMMA NextSymbols ==
    ASSUME Shapes, Files, NEW m \in Nat, m + 1 <= Len(files),
           NEW s \in Seq(Symbol), SymbolsOf(s, m),
           NEW t \in Seq(Symbol), t = files[m + 1].inSymbols, NEW r, Follows(r, s, t)
    PROVE  r \in Seq(Symbol) /\ SymbolsOf(r, m + 1)
<1>1. /\ r \in Seq(Symbol) /\ Len(r) = Len(s) + Len(t)
  BY JoinedSymbols
<1>2. /\ Len(s) = SumOfFirst(Counts, m)
      /\ \A name :
           /\ Defines(OnlySymbols(s), name) => \E n \in 1 .. m : Defines(files[n], name)
           /\ \A n \in 1 .. m : DefinedFirst(n, name) =>
                  /\ Defines(OnlySymbols(s), name)
                  /\ getAddress(OnlySymbols(s), name) = getAddress(files[n], name)
  BY DEF SymbolsOf, Counts
<1>3. Len(r) = SumOfFirst(Counts, m + 1)
  <2>1. Len(Counts) = Len(files) /\ Len(files) \in Nat
    BY CountsAre
  <2>2. m + 1 \in 1 .. Len(Counts) /\ m + 1 - 1 = m
    BY <2>1
  <2>3. SumOfFirst(Counts, m + 1) = SumOfFirst(Counts, m) + Counts[m + 1]
    BY <2>1, <2>2, SumSteps
  <2>4. Counts[m + 1] = Len(t)
    BY <2>1, <2>2, CountsAre
  <2> QED BY <1>1, <1>2, <2>3, <2>4
<1>4. ASSUME NEW name
      PROVE  /\ Defines(OnlySymbols(r), name) => \E n \in 1 .. m + 1 : Defines(files[n], name)
             /\ \A n \in 1 .. m + 1 : DefinedFirst(n, name) =>
                    /\ Defines(OnlySymbols(r), name)
                    /\ getAddress(OnlySymbols(r), name) = getAddress(files[n], name)
  <2>1. OnlySymbols(s).inSymbols = s /\ OnlySymbols(r).inSymbols = r
    BY DEF OnlySymbols
  <2>2. PICK f, g, h : f = OnlySymbols(s) /\ g = files[m + 1] /\ h = OnlySymbols(r)
    OBVIOUS
  <2>3. f.inSymbols = s /\ g.inSymbols = t /\ h.inSymbols = r
    BY <2>1, <2>2
  <2>4. /\ Defines(h, name) <=> Defines(f, name) \/ Defines(g, name)
        /\ Defines(f, name) => getAddress(h, name) = getAddress(f, name)
        /\ ~Defines(f, name) /\ Defines(g, name) =>
               getAddress(h, name) = getAddress(g, name)
    BY <2>3, JoinedNames
  <2>5. Defines(h, name) => \E n \in 1 .. m + 1 : Defines(files[n], name)
    <3>1. 1 .. m \subseteq 1 .. m + 1 /\ m + 1 \in 1 .. m + 1
      OBVIOUS
    <3> QED BY <1>2, <2>2, <2>4, <3>1
  <2>6. ASSUME NEW n \in 1 .. m + 1, DefinedFirst(n, name)
        PROVE  Defines(h, name) /\ getAddress(h, name) = getAddress(files[n], name)
    <3>1. CASE n \in 1 .. m
      BY <1>2, <2>2, <2>4, <2>6, <3>1
    <3>2. CASE n = m + 1
      <4>1. Defines(g, name) /\ \A k \in 1 .. m : ~Defines(files[k], name)
        BY <2>2, <2>6, <3>2 DEF DefinedFirst
      <4>2. ~Defines(f, name)
        BY <1>2, <2>2, <4>1
      <4> QED BY <2>2, <2>4, <3>2, <4>1, <4>2
    <3> QED BY <3>1, <3>2
  <2> QED BY <2>2, <2>5, <2>6
<1>5. SymbolsOf(r, m + 1)
  BY <1>3, <1>4 DEF SymbolsOf, Counts
<1> QED BY <1>1, <1>5

LEMMA SymbolsStep ==
    ASSUME LInv, writeInSymbols
    PROVE  LInv'
<1>1. /\ phase = "symbols" /\ argv' = argv /\ files' = files /\ offset' = offset
      /\ mainx20Exists' = mainx20Exists
  BY DEF writeInSymbols
<1>2. /\ Shapes /\ Files /\ AllLoaded /\ SymbolsWritten(i - 1)
      /\ Len(files) = Len(argv) /\ Len(files) \in Nat /\ i \in 1 .. Len(files) + 1
      /\ \A n \in 1 .. Len(files) : Left(n) = 0
  BY <1>1, LenProperties DEF LInv, Shapes, Progress, Output, AllLoaded
<1>3. Files' /\ (\A n : Left(n)' = Left(n)) /\ Header' = Header
  BY <1>1, Unmoved DEF LInv
<1>4. AllLoaded'
  BY <1>1, <1>2 DEF AllLoaded
<1>5. PICK s \in Seq(Symbol) : SymbolsOf(s, i - 1) /\ outFile = Header \o writeSymbols(s)
  BY <1>2 DEF SymbolsWritten
<1>6. Header \in Seq(Content)
  BY <1>2, HeaderIs DEF AllFilesLoaded
<1>7. PICK m \in Nat : m = i - 1 /\ m + 1 = i
  BY <1>2
<1>8. CASE i <= Len(files)
  <2>1. outFile' = outFile \o writeSymbols(files[i].inSymbols) /\ i' = i + 1 /\ phase' = phase
    BY <1>8 DEF writeInSymbols
  <2>2. PICK t \in Seq(Symbol) : t = files[m + 1].inSymbols
    <3>1. files[i] \in ObjFile
      BY <1>2, <1>8 DEF Files, Loaded
    <3> QED BY <1>7, <3>1, FileParts
  <2>3. PICK r : Follows(r, s, t) /\ r = s \o t
    BY DEF Follows
  <2>4. r \in Seq(Symbol) /\ SymbolsOf(r, m + 1)
    BY <1>2, <1>5, <1>7, <1>8, <2>2, <2>3, NextSymbols
  <2>5. outFile' = Header \o writeSymbols(r)
    <3>1. PICK a, b : a = writeSymbols(s) /\ b = writeSymbols(t)
      OBVIOUS
    <3>2. a \in Seq(Content) /\ b \in Seq(Content)
      BY <3>1, WrittenSymbols
    <3>3. writeSymbols(r) = a \o b
      BY <2>3, <3>1, WrittenJoined
    <3>4. (Header \o a) \o b = Header \o (a \o b)
      BY <1>6, <3>2, ContentJoined
    <3>5. outFile' = (Header \o a) \o b
      BY <1>5, <1>7, <2>1, <2>2, <3>1
    <3> QED BY <3>3, <3>4, <3>5
  <2>6. SymbolsOf(r, m + 1)'
    BY <1>1, <2>4, StillOf
  <2>7. i' - 1 = m + 1 /\ phase' = "symbols"
    BY <1>1, <1>7, <2>1
  <2>8. SymbolsWritten(m + 1)'
    BY <1>3, <2>4, <2>5, <2>6 DEF SymbolsWritten
  <2>9. Output'
    BY <2>7, <2>8 DEF Output
  <2>10. Shapes'
    <3>1. i + 1 \in 1 .. Len(argv) + 1
      BY <1>2, <1>8
    <3>2. phase' \in {"load", "resolve", "symbols", "code", "written", "failed", "unopened"}
      BY <2>7
    <3> QED BY <1>1, <2>1, <3>1, <3>2 DEF LInv, Shapes
  <2>11. Progress'
    BY <1>1, <1>2, <1>3, <1>4, <2>7 DEF Progress
  <2>12. Justified'
    BY <2>7 DEF Justified
  <2> QED BY <1>3, <2>9, <2>10, <2>11, <2>12 DEF LInv
<1>9. CASE i > Len(files)
  <2>1. outFile' = outFile /\ i' = 1 /\ phase' = "code"
    BY <1>2, <1>9 DEF writeInSymbols
  <2>2. m = Len(files)
    BY <1>2, <1>7, <1>9
  <2>3. PICK none : none = <<>>
    OBVIOUS
  <2>4. none \in Seq(Word) /\ Len(none) = 0 /\ none \in Seq(Content)
    BY <2>3
  <2>5. SymbolsOf(s, Len(files))' /\ s \in Seq(Symbol)
    BY <1>1, <1>5, <1>7, <2>2, StillOf
  <2>6. CodeOf(none, 0)'
    <3>1. Start(0 + 1) = 0
      <4>1. Len(argv) \in Nat
        BY <1>2
      <4> QED BY <4>1, Starts
    <3>2. CodeOf(none, 0)
      BY <2>4, <3>1 DEF CodeOf
    <3> QED BY <1>1, <3>2, StillOf
  <2>7. outFile' = (Header' \o writeSymbols(s)) \o none
    <3>1. writeSymbols(s) \in Seq(Content)
      BY WrittenSymbols
    <3>2. Header \o writeSymbols(s) \in Seq(Content)
      BY <1>6, <3>1, ConcatProperties
    <3>3. (Header \o writeSymbols(s)) \o none = Header \o writeSymbols(s)
      BY <2>3, <3>2, ConcatEmptySeq
    <3> QED BY <1>3, <1>5, <2>1, <3>3
  <2>8. CodeWritten(0)'
    BY <2>4, <2>5, <2>6, <2>7 DEF CodeWritten
  <2>9. i' - 1 = 0
    BY <2>1
  <2>10. Output'
    BY <2>1, <2>8, <2>9 DEF Output
  <2>11. Shapes'
    <3>1. 1 \in 1 .. Len(argv) + 1
      BY <1>2
    <3>2. phase' \in {"load", "resolve", "symbols", "code", "written", "failed", "unopened"}
      BY <2>1
    <3> QED BY <1>1, <2>1, <3>1, <3>2 DEF LInv, Shapes
  <2>12. Progress'
    BY <1>1, <1>2, <1>3, <1>4, <2>1 DEF Progress
  <2>13. Justified'
    BY <2>1 DEF Justified
  <2> QED BY <1>3, <2>10, <2>11, <2>12, <2>13 DEF LInv
<1> QED BY <1>2, <1>8, <1>9

LEMMA CodeIsContent ==
    ASSUME NEW code \in Seq(Word)
    PROVE  code \in Seq(Content)
<1>1. Word \subseteq Content
  BY TopFacts DEF Content
<1>2. PICK n \in Nat : n = Len(code) /\ code \in [1 .. n -> Word]
  BY LenProperties
<1>3. code \in [1 .. n -> Content]
  BY <1>1, <1>2
<1> QED BY <1>3

\* The code of one more file.
LEMMA NextCode ==
    ASSUME Shapes, Files, AllFilesLoaded, NEW m \in Nat, m + 1 <= Len(files),
           NEW code \in Seq(Word), CodeOf(code, m),
           NEW t \in Seq(Word), t = files[m + 1].objCode, NEW r, r = code \o t
    PROVE  r \in Seq(Word) /\ CodeOf(r, m + 1)
<1>1. /\ r \in Seq(Word) /\ Len(r) = Len(code) + Len(t) /\ Len(code) \in Nat /\ Len(t) \in Nat
      /\ \A a \in 1 .. Len(code) : r[a] = code[a]
      /\ \A a \in 1 .. Len(t) : r[Len(code) + a] = t[a]
  BY Joined DEF IsJoined
<1>2. /\ Len(code) = Start(m + 1)
      /\ \A n \in 1 .. m : \A a \in 1 .. Len(files[n].objCode) :
             Start(n) + a \in 1 .. Len(code) /\ code[Start(n) + a] = files[n].objCode[a]
  BY DEF CodeOf
<1>3. Len(argv) = Len(files) /\ Len(argv) \in Nat
  BY CountsAre DEF AllFilesLoaded
<1>4. Len(r) = Start(m + 1 + 1)
  <2>1. Start(m + 1 + 1) = Start(m + 1) + Len(argv[m + 1].objCode)
    BY <1>3, Starts
  <2>2. Len(files[m + 1].objCode) = Len(argv[m + 1].objCode)
    BY <1>3 DEF Files, Loaded
  <2> QED BY <1>1, <1>2, <2>1, <2>2
<1>5. ASSUME NEW n \in 1 .. m + 1, NEW a \in 1 .. Len(files[n].objCode)
      PROVE  Start(n) + a \in 1 .. Len(r) /\ r[Start(n) + a] = files[n].objCode[a]
  <2>1. CASE n \in 1 .. m
    <3>1. Start(n) + a \in 1 .. Len(code) /\ code[Start(n) + a] = files[n].objCode[a]
      BY <1>2, <2>1
    <3>2. \A b \in 1 .. Len(code) : b \in 1 .. Len(r)
      BY <1>1
    <3> QED BY <1>1, <3>1, <3>2
  <2>2. CASE n = m + 1
    <3>1. a \in 1 .. Len(t) /\ Len(code) = Start(n)
      BY <1>2, <2>2
    <3>2. r[Len(code) + a] = t[a]
      BY <1>1, <3>1
    <3>3. PICK x \in Nat, y \in Nat, z \in Nat : x = Len(code) /\ y = Len(t) /\ z = Len(r)
      BY <1>1
    <3>4. x + a \in 1 .. z
      <4>1. z = x + y /\ a \in 1 .. y
        BY <1>1, <3>1, <3>3
      <4> QED BY <4>1
    <3>5. Len(code) + a \in 1 .. Len(r)
      BY <3>3, <3>4
    <3> QED BY <2>2, <3>1, <3>2, <3>5
  <2> QED BY <2>1, <2>2
<1>6. CodeOf(r, m + 1)
  BY <1>4, <1>5 DEF CodeOf
<1> QED BY <1>1, <1>6

LEMMA CodeStep ==
    ASSUME LInv, writeCode
    PROVE  LInv'
<1>1. /\ phase = "code" /\ argv' = argv /\ files' = files /\ offset' = offset
      /\ mainx20Exists' = mainx20Exists
  BY DEF writeCode
<1>2. /\ Shapes /\ Files /\ AllLoaded /\ CodeWritten(i - 1)
      /\ Len(files) = Len(argv) /\ Len(files) \in Nat /\ i \in 1 .. Len(files) + 1
      /\ \A n \in 1 .. Len(files) : Left(n) = 0
  BY <1>1, LenProperties DEF LInv, Shapes, Progress, Output, AllLoaded
<1>3. Files' /\ (\A n : Left(n)' = Left(n)) /\ Header' = Header
  BY <1>1, Unmoved DEF LInv
<1>4. AllLoaded'
  BY <1>1, <1>2 DEF AllLoaded
<1>5. PICK s \in Seq(Symbol), code \in Seq(Word) :
          /\ SymbolsOf(s, Len(files)) /\ CodeOf(code, i - 1)
          /\ outFile = (Header \o writeSymbols(s)) \o code
  BY <1>2 DEF CodeWritten
<1>6. Header \o writeSymbols(s) \in Seq(Content)
  <2>1. Header \in Seq(Content)
    BY <1>2, HeaderIs DEF AllFilesLoaded
  <2>2. writeSymbols(s) \in Seq(Content)
    BY WrittenSymbols
  <2> QED BY <2>1, <2>2, ConcatProperties
<1>7. PICK m \in Nat : m = i - 1 /\ m + 1 = i
  BY <1>2
<1>8. SymbolsOf(s, Len(files))'
  BY <1>1, <1>5, StillOf
<1>9. CASE i <= Len(files)
  <2>1. outFile' = outFile \o files[i].objCode /\ i' = i + 1 /\ phase' = phase
    BY <1>9 DEF writeCode
  <2>2. PICK t \in Seq(Word) : t = files[m + 1].objCode
    <3>1. files[i] \in ObjFile
      BY <1>2, <1>9 DEF Files, Loaded
    <3> QED BY <1>7, <3>1, FileParts
  <2>3. PICK r : r = code \o t
    OBVIOUS
  <2>4. r \in Seq(Word) /\ CodeOf(r, m + 1)
    BY <1>2, <1>5, <1>7, <1>9, <2>2, <2>3, NextCode DEF AllFilesLoaded
  <2>5. outFile' = (Header \o writeSymbols(s)) \o r
    <3>1. PICK a : a = Header \o writeSymbols(s)
      OBVIOUS
    <3>2. a \in Seq(Content) /\ code \in Seq(Content) /\ t \in Seq(Content)
      <4>1. code \in Seq(Content)
        BY CodeIsContent
      <4>2. t \in Seq(Content)
        BY CodeIsContent
      <4> QED BY <1>6, <3>1, <4>1, <4>2
    <3>3. (a \o code) \o t = a \o (code \o t)
      BY <3>2, ContentJoined
    <3>4. outFile' = (a \o code) \o t
      BY <1>5, <1>7, <2>1, <2>2, <3>1
    <3> QED BY <2>3, <3>1, <3>3, <3>4
  <2>6. CodeOf(r, m + 1)'
    BY <1>1, <2>4, StillOf
  <2>7. i' - 1 = m + 1 /\ phase' = "code"
    BY <1>1, <1>7, <2>1
  <2>8. CodeWritten(m + 1)'
    BY <1>1, <1>3, <1>8, <2>4, <2>5, <2>6 DEF CodeWritten
  <2>9. Output'
    BY <2>7, <2>8 DEF Output
  <2>10. Shapes'
    <3>1. i + 1 \in 1 .. Len(argv) + 1
      BY <1>2, <1>9
    <3>2. phase' \in {"load", "resolve", "symbols", "code", "written", "failed", "unopened"}
      BY <2>7
    <3> QED BY <1>1, <2>1, <3>1, <3>2 DEF LInv, Shapes
  <2>11. Progress'
    BY <1>1, <1>2, <1>3, <1>4, <2>7 DEF Progress
  <2>12. Justified'
    BY <2>7 DEF Justified
  <2> QED BY <1>3, <2>9, <2>10, <2>11, <2>12 DEF LInv
<1>10. CASE i > Len(files)
  <2>1. outFile' = outFile /\ i' = i /\ phase' = "written"
    BY <1>2, <1>10 DEF writeCode
  <2>2. m = Len(files)
    BY <1>2, <1>7, <1>10
  <2>3. CodeOf(code, Len(files))'
    BY <1>1, <1>5, <1>7, <2>2, StillOf
  <2>4. CodeWritten(Len(files))'
    BY <1>1, <1>3, <1>5, <1>8, <2>1, <2>3 DEF CodeWritten
  <2>5. Output'
    BY <1>1, <2>1, <2>4 DEF Output
  <2>6. Shapes'
    <3>2. phase' \in {"load", "resolve", "symbols", "code", "written", "failed", "unopened"}
      BY <2>1
    <3> QED BY <1>1, <2>1, <3>2 DEF LInv, Shapes
  <2>7. Progress'
    BY <1>1, <1>2, <1>3, <1>4, <2>1 DEF Progress
  <2>8. Justified'
    BY <2>1 DEF Justified
  <2> QED BY <1>3, <2>5, <2>6, <2>7, <2>8 DEF LInv
<1> QED BY <1>2, <1>9, <1>10

\* Nothing moves: after the end, or between the steps.
LEMMA NothingMoves ==
    ASSUME LInv, UNCHANGED vars
    PROVE  LInv'
<1>1. /\ argv' = argv /\ phase' = phase /\ files' = files /\ offset' = offset
      /\ mainx20Exists' = mainx20Exists /\ i' = i /\ outFile' = outFile
  BY DEF vars
<1>2. Shapes'
  BY <1>1 DEF LInv, Shapes
<1>3. Files' /\ (\A n : Start(n)' = Start(n)) /\ (\A n : Left(n)' = Left(n)) /\ Header' = Header
  BY <1>1, Unmoved DEF LInv
<1>4. Progress'
  BY <1>1, <1>3 DEF LInv, Progress, AllLoaded
<1>5. \A m : (SymbolsWritten(m)' <=> SymbolsWritten(m)) /\ (CodeWritten(m)' <=> CodeWritten(m))
  BY <1>1, <1>3, StillOf DEF SymbolsWritten, CodeWritten
<1>6. Output'
  BY <1>1, <1>5 DEF LInv, Output
<1>7. Justified'
  BY <1>1, SameReasons DEF LInv, Justified
<1> QED BY <1>2, <1>3, <1>4, <1>6, <1>7 DEF LInv

LEMMA MissingFile ==
    ASSUME LInv, loadFile, argv[i] = Missing
    PROVE  LInv'
<1>1. Fails /\ argv \in CommandLines /\ i \in 1 .. Len(argv)
  BY CommandLine DEF LInv, Shapes, loadFile
<1>2. i \in DOMAIN argv
  BY <1>1, CommandLine
<1>3. ~Complete
  BY <1>2 DEF Complete, ToSet
<1> QED BY <1>1, <1>3, Refuses

LEMMA EveryStep ==
    ASSUME LInv, [Next]_vars
    PROVE  LInv'
<1>1. CASE loadFile
  BY <1>1, LoadStep, MissingFile
<1>2. CASE resolve
  <2>1. PICK s : s = Last(files[i].outSymbols)
    OBVIOUS
  <2> QED BY <1>2, <2>1, ResolveStep, UnresolvedStep
<1>3. CASE Exited \/ UNCHANGED vars
  BY <1>3, NothingMoves DEF Exited
<1> QED BY <1>1, <1>2, <1>3, CheckStep, ResolvedFileStep, OpenStep, SymbolsStep, CodeStep DEF Next

\* What has been loaded, resolved and written so far is what it should be.
THEOREM Invariant == Spec => []LInv
<1>1. Init => LInv
  BY InitialState
<1>2. LInv /\ [Next]_vars => LInv'
  BY EveryStep
<1> QED BY <1>1, <1>2, PTL DEF Spec

-----------------------------------------------------------------------------
(* The linked program *)

LEMMA WrittenProgram ==
    ASSUME LInv, phase = "written"
    PROVE  \E s \in Seq(Symbol), code \in Seq(Word) :
               /\ SymbolsOf(s, Len(files)) /\ CodeOf(code, Len(files))
               /\ Linked = [inSymbols |-> s, outSymbols |-> <<>>, objCode |-> code]
               /\ \E f \in ObjFile : outFile = Assembled(f)
<1>1. /\ Shapes /\ Files /\ AllFilesLoaded /\ CodeWritten(Len(files))
      /\ Len(files) = Len(argv)
  BY DEF LInv, Progress, Output, AllLoaded, AllFilesLoaded
<1>2. PICK s \in Seq(Symbol), code \in Seq(Word) :
          /\ SymbolsOf(s, Len(files)) /\ CodeOf(code, Len(files))
          /\ outFile = (Header \o writeSymbols(s)) \o code
  BY <1>1 DEF CodeWritten
<1>3. Len(s) = SumOfFirst(Counts, Len(files)) /\ Len(code) = Start(Len(argv) + 1)
  BY <1>1, <1>2 DEF SymbolsOf, CodeOf, Counts
<1>4. Header = <<SymbolWords * Len(s), 0, Len(code)>>
  BY <1>1, <1>3, HeaderIs
<1>5. /\ parseObjFile(outFile) = [inSymbols |-> s, outSymbols |-> <<>>, objCode |-> code]
      /\ \E f \in ObjFile : outFile = Assembled(f)
  BY <1>2, <1>4, ReadBack
<1> QED BY <1>2, <1>5 DEF Linked

\* At the end every file has been loaded, and nothing is left to resolve.
LEMMA AtTheEnd ==
    ASSUME LInv, phase = "written"
    PROVE  /\ Shapes /\ argv \in CommandLines /\ Len(files) = Len(argv) /\ Len(argv) \in Nat
           /\ DOMAIN argv = 1 .. Len(argv) /\ DOMAIN files = 1 .. Len(files)
           /\ \A n \in 1 .. Len(argv) :
                  Loaded(n) /\ Relocated(n) /\ Left(n) = 0 /\ argv[n] \in ObjFile
<1>1. /\ Shapes /\ Files /\ Len(files) = Len(argv) /\ \A n \in 1 .. Len(files) : Left(n) = 0
  BY DEF LInv, Progress, AllLoaded
<1> QED BY <1>1, CommandLine, LenProperties DEF Shapes, Files, Loaded

\* The words of the linked program are those of the files.
LEMMA LinkedWords ==
    ASSUME LInv, phase = "written"
    PROVE  /\ Len(Linked.objCode) = Start(Len(argv) + 1)
           /\ \A n \in 1 .. Len(argv) : \A a \in 0 .. Len(argv[n].objCode) - 1 :
                  /\ Start(n) + a + 1 \in 1 .. Len(Linked.objCode)
                  /\ Linked.objCode[Start(n) + a + 1] = files[n].objCode[a + 1]
<1>1. PICK code \in Seq(Word) : Linked.objCode = code /\ CodeOf(code, Len(files))
  BY WrittenProgram
<1>2. /\ Len(code) = Start(Len(argv) + 1)
      /\ \A n \in 1 .. Len(argv) : \A a \in 1 .. Len(files[n].objCode) :
             Start(n) + a \in 1 .. Len(code) /\ code[Start(n) + a] = files[n].objCode[a]
  BY <1>1, AtTheEnd DEF CodeOf
<1>3. ASSUME NEW n \in 1 .. Len(argv), NEW a \in 0 .. Len(argv[n].objCode) - 1
      PROVE  /\ Start(n) + a + 1 \in 1 .. Len(code)
             /\ code[Start(n) + a + 1] = files[n].objCode[a + 1]
  <2>1. /\ Len(files[n].objCode) = Len(argv[n].objCode) /\ Start(n) \in Nat
        /\ Len(argv[n].objCode) \in Nat
    BY AtTheEnd, FileParts DEF Loaded
  <2>2. a + 1 \in 1 .. Len(files[n].objCode) /\ Start(n) + (a + 1) = Start(n) + a + 1
    BY <2>1
  <2>3. /\ Start(n) + (a + 1) \in 1 .. Len(code)
        /\ code[Start(n) + (a + 1)] = files[n].objCode[a + 1]
    BY <1>2, <2>2
  <2> QED BY <2>2, <2>3
<1> QED BY <1>1, <1>2, <1>3

\* A name has in the linked program the address that the first file gives it.
LEMMA LinkedName ==
    ASSUME LInv, phase = "written", NEW m \in 1 .. Len(files), NEW name, DefinedFirst(m, name)
    PROVE  Defines(Linked, name) /\ getAddress(Linked, name) = getAddress(files[m], name)
<1>1. PICK s \in Seq(Symbol) : Linked.inSymbols = s /\ SymbolsOf(s, Len(files))
  BY WrittenProgram
<1>2. /\ Defines(OnlySymbols(s), name)
      /\ getAddress(OnlySymbols(s), name) = getAddress(files[m], name)
  BY <1>1 DEF SymbolsOf
<1>3. OnlySymbols(s).inSymbols = Linked.inSymbols
  BY <1>1 DEF OnlySymbols
<1> QED BY <1>2, <1>3 DEF Defines, getAddress

\* Where a file defines a name that the linked program has from it.
LEMMA WhereDefined ==
    ASSUME LInv, phase = "written", NEW m \in 1 .. Len(argv), NEW name, Defines(files[m], name)
    PROVE  /\ getAddress(files[m], name) \in Int
           /\ \E k \in 1 .. Len(argv[m].inSymbols) :
                  /\ argv[m].inSymbols[k] \in Symbol /\ argv[m].inSymbols[k].name = name
                  /\ getAddress(files[m], name) = (argv[m].inSymbols[k].addr + Start(m)) % Top
<1>1. Loaded(m) /\ argv[m] \in ObjFile /\ files[m] \in ObjFile
  BY AtTheEnd DEF Loaded
<1>2. PICK s \in Seq(Symbol), by \in Nat : s = argv[m].inSymbols /\ by = Start(m)
  BY <1>1, FileParts DEF Loaded
<1>3. PICK t \in Seq(Symbol) : t = Moved(s, by) /\ Len(t) = Len(s)
  BY MovedSymbols
<1>4. PICK f : f = files[m] /\ f.inSymbols = t /\ Defines(f, name)
  BY <1>1, <1>2, <1>3 DEF Loaded
<1>a. \E k \in 1 .. Len(t) : FirstNamed(t, name, k) /\ getAddress(f, name) = t[k].addr
  BY <1>4, FirstIs
<1>5. PICK k \in 1 .. Len(t) : FirstNamed(t, name, k) /\ getAddress(files[m], name) = t[k].addr
  BY <1>4, <1>a
<1>6. t[k].name = s[k].name /\ t[k].addr = (s[k].addr + by) % Top /\ k \in 1 .. Len(s)
  BY <1>3, MovedSymbols
<1>7. s[k] \in Symbol /\ s[k].name = name
  BY <1>5, <1>6, ElementOfSeq DEF FirstNamed
<1>8. t[k].addr \in Word
  <2>1. t[k] \in Symbol
    BY ElementOfSeq
  <2> QED BY <2>1 DEF Symbol
<1>9. getAddress(files[m], name) \in Int
  BY <1>5, <1>8, TopFacts
<1> QED BY <1>2, <1>5, <1>6, <1>7, <1>9

\* What a word that refers to an imported symbol has become.
LEMMA FilledWord ==
    ASSUME LInv, phase = "written", NEW n \in 1 .. Len(argv),
           NEW s, s \in ToSet(argv[n].outSymbols)
    PROVE  /\ s.addr \in 0 .. Len(argv[n].objCode) - 1 /\ Start(n) \in Nat
           /\ argv[n].objCode[s.addr + 1] \in Word
           /\ \E m \in 1 .. Len(files), x \in Int :
                  /\ DefinedFirst(m, s.name) /\ getAddress(files[m], s.name) \in Int
                  /\ x = getAddress(files[m], s.name) - (Start(n) + s.addr + 1)
                  /\ files[n].objCode[s.addr + 1] =
                         updateCodeWordAddr(argv[n].objCode[s.addr + 1], x)
<1>1. /\ argv \in CommandLines /\ Loaded(n) /\ Relocated(n) /\ Left(n) = 0
      /\ argv[n] \in ObjFile /\ Len(files) = Len(argv)
  BY AtTheEnd
<1>2. PICK k \in 1 .. Len(argv[n].outSymbols) : s = argv[n].outSymbols[k]
  BY <1>1, FileParts DEF ToSet
<1>3. s \in Symbol /\ s.addr \in 0 .. Len(argv[n].objCode) - 1
  BY <1>1, <1>2, Imports
<1>4. Start(n) \in Nat
  BY <1>1 DEF Loaded
<1>5. Len(argv[n].objCode) \in Nat
  BY <1>1, FileParts
<1>6. s.addr + 1 \in 1 .. Len(argv[n].objCode) /\ s.addr \in Nat
  BY <1>3, <1>5
<1>7. argv[n].objCode[s.addr + 1] \in Word
  BY <1>1, <1>6, ElementsOfFile
<1>8. FilledIn(n, s)
  <2>1. k \in Left(n) + 1 .. Len(argv[n].outSymbols)
    BY <1>1
  <2> QED BY <1>1, <1>2, <2>1 DEF Relocated
<1>9. PICK m \in 1 .. Len(files) :
          /\ DefinedFirst(m, s.name)
          /\ files[n].objCode[s.addr + 1] =
                 updateCodeWordAddr(argv[n].objCode[s.addr + 1],
                                    getAddress(files[m], s.name) - (Start(n) + s.addr + 1))
  BY <1>8 DEF FilledIn
<1>10. PICK target \in Int : target = getAddress(files[m], s.name)
  <2>0. PICK name : name = s.name /\ Defines(files[m], name) /\ m \in 1 .. Len(argv)
    BY <1>1, <1>9 DEF DefinedFirst
  <2> QED BY <2>0, WhereDefined
<1>11. PICK x \in Int : x = getAddress(files[m], s.name) - (Start(n) + s.addr + 1)
  BY <1>4, <1>6, <1>10
<1> QED BY <1>3, <1>4, <1>7, <1>9, <1>10, <1>11

LEMMA KeptWords ==
    ASSUME LInv, phase = "written"
    PROVE  CodeKept
<1>1. Len(Linked.objCode) = Start(Len(argv) + 1)
  BY LinkedWords
<1>2. ASSUME NEW n \in DOMAIN argv, NEW a \in 0 .. Len(argv[n].objCode) - 1,
             NEW is, is = Linked.objCode[Start(n) + a + 1],
             NEW was, was = argv[n].objCode[a + 1]
      PROVE  IF ImportsAt(n, a) = {} THEN is = was ELSE Rest(is) = Rest(was)
  <2>1. /\ n \in 1 .. Len(argv) /\ Loaded(n) /\ Relocated(n) /\ Left(n) = 0
        /\ argv[n] \in ObjFile
    BY AtTheEnd
  <2>2. is = files[n].objCode[a + 1]
    BY <1>2, <2>1, LinkedWords
  <2>3. CASE files[n].objCode[a + 1] = argv[n].objCode[a + 1]
    BY <1>2, <2>2, <2>3
  <2>4. CASE \E k \in Left(n) + 1 .. Len(argv[n].outSymbols) : argv[n].outSymbols[k].addr = a
    <3>1. PICK s : s \in ToSet(argv[n].outSymbols) /\ s.addr = a
      <4>1. PICK k \in 1 .. Len(argv[n].outSymbols) : argv[n].outSymbols[k].addr = a
        BY <2>1, <2>4
      <4>2. argv[n].outSymbols[k] \in ToSet(argv[n].outSymbols)
        BY <2>1, FileParts DEF ToSet
      <4> QED BY <4>1, <4>2
    <3>2. ImportsAt(n, a) # {}
      BY <3>1 DEF ImportsAt
    <3>3. PICK x \in Int : was \in Word /\ is = updateCodeWordAddr(was, x)
      <4>1. s \in ToSet(argv[n].outSymbols) /\ n \in 1 .. Len(argv)
        BY <2>1, <3>1
      <4>2. argv[n].objCode[s.addr + 1] \in Word
        BY <4>1, FilledWord
      <4>3. PICK m \in 1 .. Len(files), x \in Int :
                /\ DefinedFirst(m, s.name) /\ getAddress(files[m], s.name) \in Int
                /\ x = getAddress(files[m], s.name) - (Start(n) + s.addr + 1)
                /\ files[n].objCode[s.addr + 1] =
                       updateCodeWordAddr(argv[n].objCode[s.addr + 1], x)
        BY <4>1, FilledWord
      <4> QED BY <1>2, <2>2, <3>1, <4>2, <4>3
    <3>4. Rest(is) = Rest(was)
      BY <3>3, Updated
    <3> QED BY <3>2, <3>4
  <2> QED BY <2>1, <2>3, <2>4 DEF Relocated
<1> QED BY <1>1, <1>2 DEF CodeKept

LEMMA Meaning ==
    ASSUME Addressable, LInv, phase = "written",
           NEW n \in DOMAIN argv, NEW s \in ToSet(argv[n].outSymbols),
           NEW pc, pc = Start(n) + s.addr + 1,
           NEW target, target = getAddress(Linked, s.name)
    PROVE  /\ Fits(argv[n].objCode[s.addr + 1], target - pc) =>
                  pc + Distance(Linked.objCode[pc]) = target
           /\ \E m \in DOMAIN argv : \E d \in ToSet(argv[m].inSymbols) :
                  d.name = s.name /\ target = Start(m) + d.addr
<1>1. /\ n \in 1 .. Len(argv) /\ Len(files) = Len(argv) /\ argv \in CommandLines
      /\ DOMAIN argv = 1 .. Len(argv)
      /\ \A k \in 1 .. Len(argv) : argv[k] \in ObjFile /\ Loaded(k)
  BY AtTheEnd
<1>2. PICK m \in 1 .. Len(files), x \in Int :
          /\ DefinedFirst(m, s.name) /\ getAddress(files[m], s.name) \in Int
          /\ x = getAddress(files[m], s.name) - pc
          /\ files[n].objCode[s.addr + 1] = updateCodeWordAddr(argv[n].objCode[s.addr + 1], x)
  BY <1>1, FilledWord
<1>3. target = getAddress(files[m], s.name) /\ target \in Int
  BY <1>2, LinkedName
<1>4. PICK was \in Word : was = argv[n].objCode[s.addr + 1]
  BY <1>1, FilledWord
<1>5. Linked.objCode[pc] = updateCodeWordAddr(was, x)
  <2>1. s.addr \in 0 .. Len(argv[n].objCode) - 1
    BY <1>1, FilledWord
  <2>2. Linked.objCode[pc] = files[n].objCode[s.addr + 1]
    BY <1>1, <2>1, LinkedWords
  <2> QED BY <1>2, <1>4, <2>2
<1>6. Fits(was, x) => Distance(Linked.objCode[pc]) = x
  BY <1>5, Updated
<1>7. pc \in Int
  BY <1>1, FilledWord
<1>8. Fits(argv[n].objCode[s.addr + 1], target - pc) =>
          pc + Distance(Linked.objCode[pc]) = target
  <2>1. x = target - pc
    BY <1>2, <1>3
  <2>2. Fits(was, x) => pc + x = target
    BY <1>3, <1>7, <2>1
  <2> QED BY <1>4, <1>6, <2>1, <2>2
<1>9. \E l \in DOMAIN argv : \E d \in ToSet(argv[l].inSymbols) :
          d.name = s.name /\ target = Start(l) + d.addr
  <2>1. PICK name : name = s.name /\ Defines(files[m], name) /\ m \in 1 .. Len(argv)
    BY <1>1, <1>2 DEF DefinedFirst
  <2>2. PICK k \in 1 .. Len(argv[m].inSymbols) :
            /\ argv[m].inSymbols[k] \in Symbol /\ argv[m].inSymbols[k].name = name
            /\ getAddress(files[m], name) = (argv[m].inSymbols[k].addr + Start(m)) % Top
    BY <2>1, WhereDefined
  <2>3. PICK d \in Symbol : d = argv[m].inSymbols[k] /\ d.name = name
    BY <2>2
  <2>4. d \in ToSet(argv[m].inSymbols)
    <3>1. DOMAIN argv[m].inSymbols = 1 .. Len(argv[m].inSymbols)
      BY <1>1, <2>1, FileParts
    <3> QED BY <2>3, <3>1 DEF ToSet
  <2>5. FirstWord(argv, m) + d.addr < Top
    <3>1. Missing \notin ToSet(argv)
      BY <1>1, CommandLine DEF ToSet
    <3> QED BY <1>1, <2>1, <2>4, <3>1 DEF Addressable
  <2>6. d.addr \in Word
    BY DEF Symbol
  <2>7. PICK a \in Nat, by \in Nat : a = d.addr /\ by = Start(m)
    <3>1. d.addr \in Nat
      BY <2>6, TopFacts
    <3>2. Start(m) \in Nat
      BY <1>1, <2>1 DEF Loaded
    <3> QED BY <3>1, <3>2
  <2>8. by + a < Top
    BY <2>5, <2>7 DEF Start
  <2>9. a + by \in 0 .. Top - 1
    BY <2>8, TopFacts
  <2>10. (a + by) % Top = a + by
    <3>1. PICK top \in Nat \ {0} : top = Top
      BY TopFacts
    <3>2. PICK sum \in 0 .. top - 1 : sum = a + by
      BY <2>9, <3>1
    <3>3. sum % top = sum
      BY ModSmall
    <3> QED BY <3>1, <3>2, <3>3
  <2>11. target = by + a
    BY <1>3, <2>1, <2>2, <2>3, <2>7, <2>10
  <2> QED BY <1>1, <2>1, <2>3, <2>4, <2>7, <2>11
<1> QED BY <1>8, <1>9

LEMMA SoundAtTheEnd ==
    ASSUME LInv, phase = "written"
    PROVE  Complete /\ Defines(Linked, "mainx20")
<1>1. /\ Len(files) = Len(argv) /\ DOMAIN argv = 1 .. Len(argv) /\ argv \in CommandLines
      /\ Len(files) \in Nat /\ DOMAIN files = 1 .. Len(files)
      /\ \A n \in 1 .. Len(argv) : argv[n] \in ObjFile /\ Loaded(n)
  BY AtTheEnd
<1>2. Missing \notin ToSet(argv)
  BY <1>1, CommandLine DEF ToSet
<1>3. ASSUME NEW n \in DOMAIN argv PROVE ~Unresolved(n)
  <2> SUFFICES ASSUME NEW s \in ToSet(argv[n].outSymbols)
               PROVE  \E m \in DOMAIN argv : Defines(argv[m], s.name)
    BY DEF Unresolved
  <2>1. PICK m \in 1 .. Len(files) : DefinedFirst(m, s.name)
    BY <1>1, FilledWord
  <2>2. PICK name : name = s.name /\ Defines(files[m], name)
    BY <2>1 DEF DefinedFirst
  <2>3. Defines(argv[m], name)
    BY <1>1, <2>2, LoadedNames
  <2> QED BY <1>1, <2>2, <2>3
<1>4. PICK n \in 1 .. Len(argv) : Defines(argv[n], "mainx20")
  BY DEF LInv, Progress, AllLoaded
<1>5. Complete
  BY <1>1, <1>2, <1>3, <1>4 DEF Complete
<1>6. Defines(files[n], "mainx20")
  BY <1>1, <1>4, LoadedNames
<1>7. PICK m \in 1 .. Len(files) : DefinedFirst(m, "mainx20")
  BY <1>1, <1>6, FirstDefiner
<1>8. Defines(Linked, "mainx20")
  BY <1>7, LinkedName
<1> QED BY <1>5, <1>8

-----------------------------------------------------------------------------
(* The properties *)

\* The variables have their types, and what is written is an object file.
THEOREM TypeCorrect == Spec => []TypeOK
<1>1. LInv => TypeOK
  <2> SUFFICES ASSUME LInv PROVE TypeOK
    OBVIOUS
  <2>1. argv \in Seq(ObjFile \cup {Missing})
    BY CommandLine DEF LInv, Shapes
  <2>2. ASSUME phase = "written" PROVE Linked \in ObjFile
    <3>1. PICK s \in Seq(Symbol), code \in Seq(Word) :
              Linked = [inSymbols |-> s, outSymbols |-> <<>>, objCode |-> code]
      BY <2>2, WrittenProgram
    <3>2. PICK none : none = <<>>
      OBVIOUS
    <3>3. none \in Seq(Symbol)
      BY <3>2
    <3> QED BY <3>1, <3>2, <3>3 DEF ObjFile
  <2> QED BY <2>1, <2>2 DEF LInv, Shapes, TypeOK
<1> QED BY <1>1, Invariant, PTL

\* The linker's output has the words of all files in order, and differs from
\* them in nothing but the addresses of imported symbols (linkx20.c:77-95,
\* 254-259).
THEOREM CodeIsKept == Spec => []CodeKept
<1>1. LInv => CodeKept
  BY KeptWords DEF CodeKept
<1> QED BY <1>1, Invariant, PTL

\* An instruction that refers to an imported symbol reaches the address that
\* the name has in the linked program, which is that of a definition of it in
\* one of the files, if no address is too large for a word (linkx20.c:189-219,
\* vmx20.c:63-75).
THEOREM NamesHaveOneMeaning ==
    ASSUME Addressable
    PROVE  Spec => []OneMeaning
<1>1. LInv => OneMeaning
  <2> SUFFICES ASSUME LInv, phase = "written",
                      NEW n \in DOMAIN argv, NEW s \in ToSet(argv[n].outSymbols)
               PROVE  LET pc == Start(n) + s.addr + 1
                          target == getAddress(Linked, s.name)
                      IN  /\ Fits(argv[n].objCode[s.addr + 1], target - pc) =>
                                 pc + Distance(Linked.objCode[pc]) = target
                          /\ \E m \in DOMAIN argv : \E d \in ToSet(argv[m].inSymbols) :
                                 d.name = s.name /\ target = Start(m) + d.addr
    BY DEF OneMeaning
  <2> QED BY Meaning
<1> QED BY <1>1, Invariant, PTL

\* What the linker writes is complete and has an entry point, and it fails only
\* when something is missing or a name is defined by two files
\* (linkx20.c:70-72, 169-187, 213-217, vmx20.c:33-53).
THEOREM WritesWhatIsSound == Spec => []WritesIfSound
<1>1. LInv => WritesIfSound
  <2> SUFFICES ASSUME LInv PROVE WritesIfSound
    OBVIOUS
  <2>1. phase = "written" => Complete /\ Defines(Linked, "mainx20")
    BY SoundAtTheEnd
  <2>2. phase = "failed" => ~Complete \/ Twice
    BY DEF LInv, Justified
  <2> QED BY <2>1, <2>2 DEF WritesIfSound, Complete, Twice
<1> QED BY <1>1, Invariant, PTL
-----------------------------------------------------------------------------
(* The linker and the disassembler *)

\* However the disassembler is run, the linker does nothing but its own steps.
THEOREM RunsTheLinker == ToolSpec => Spec
<1>1. ToolInit => Init
  BY DEF ToolInit
<1>2. [ToolNext]_toolVars => [Next]_vars
  BY DEF ToolNext, Links, Disassembles, Prints, Over, toolVars
<1> QED BY <1>1, <1>2, PTL DEF ToolSpec, Spec

\* The disassembler reads from an object file what it was made of.
THEOREM DisassemblerReads ==
    ASSUME NEW f \in ObjFile
    PROVE  D!Loaded(Assembled(f)) = f
<1>1. PICK blob : blob = Assembled(f) /\ parseObjFile(blob) = f
  BY ReadAsWritten
<1>2. PICK a \in Nat, b \in Nat, c \in Nat :
          blob[1] = 5 * a /\ blob[2] = 5 * b /\ blob[3] = c
  <2>1. PICK a, b, c : a = Len(f.inSymbols) /\ b = Len(f.outSymbols) /\ c = Len(f.objCode)
    OBVIOUS
  <2>2. /\ a \in Nat /\ b \in Nat /\ c \in Nat
        /\ blob[1] = SymbolWords * a /\ blob[2] = SymbolWords * b /\ blob[3] = c
    BY <1>1, <2>1, Layout
  <2> QED BY <2>2 DEF SymbolWords
<1>3. (5 * a) \div 5 = a /\ (5 * b) \div 5 = b
  OBVIOUS
<1>4. /\ Symbols(readWord(blob, 0)) = a /\ Symbols(readWord(blob, 1)) = b
      /\ readWord(blob, 2) = c
  BY <1>2, <1>3 DEF Symbols, readWord, SymbolWords
<1>5. /\ D!readWord(blob, 0) = 5 * a /\ D!readWord(blob, 1) = 5 * b /\ D!readWord(blob, 2) = c
      /\ D!Symbols(5 * a) = a /\ D!Symbols(5 * b) = b
  BY <1>2, <1>3 DEF D!Symbols, D!readWord, D!SymbolWords
<1>6. \A n, start : D!readSymbolSection(blob, n, start) = readSymbolSection(blob, n, start)
  BY Zenon DEF D!readSymbolSection, readSymbolSection, D!readWord, readWord, D!SymbolWords, SymbolWords
<1>7. \A start, n : D!getObjCodeAsWordArray(blob, start, n) = getObjCodeAsWordArray(blob, start, n)
  BY DEF D!getObjCodeAsWordArray, getObjCodeAsWordArray
<1>8. parseObjFile(blob) =
          [inSymbols |-> readSymbolSection(blob, a, 3),
           outSymbols |-> readSymbolSection(blob, b, 3 + 5 * a),
           objCode |-> getObjCodeAsWordArray(blob, 3 + 5 * a + 5 * b, c)]
  BY <1>4 DEF parseObjFile, SymbolWords
<1>9. D!Loaded(blob) =
          [inSymbols |-> readSymbolSection(blob, a, 3),
           outSymbols |-> readSymbolSection(blob, b, 3 + 5 * a),
           objCode |-> getObjCodeAsWordArray(blob, 3 + 5 * a + 5 * b, c)]
  BY <1>5, <1>6, <1>7 DEF D!Loaded
<1> QED BY <1>1, <1>8, <1>9

\* Linker and disassemblers take the same fields from a word.
LEMMA SameReferences ==
    ASSUME NEW w
    PROVE  /\ D!Opcode(w) = Opcode(w) /\ D!Addr(w) = Addr(w) /\ D!Offset(w) = Offset(w)
           /\ M!Opcode(w) = Opcode(w) /\ M!Addr(w) = Addr(w) /\ M!Offset(w) = Offset(w)
BY DEF D!Opcode, M!Opcode, Opcode, D!Addr, M!Addr, Addr, D!Offset, M!Offset, Offset,
       D!twosComplementer, M!twosComplementer, twosComplementer

\* The tables of the two disassemblers, one entry after the other.
LEMMA SameTables ==
    ASSUME NEW opcode \in 0 .. 25
    PROVE  /\ D!names[opcode + 1] = M!opcodeNames[opcode + 1]
           /\ D!handlers[opcode + 1] = M!instrFormatHandlers[opcode + 1]
BY DEF D!names, M!opcodeNames, D!handlers, M!instrFormatHandlers

\* The line of a word of a program that imports nothing.
ListedLine(code, a) ==
    LET w == code[a + 1]
    IN  IF D!Opcode(w) > 25 THEN D!Line("UNKNOWN", <<>>, FALSE)
        ELSE D!Line(D!names[D!Opcode(w) + 1], D!Absolute(w, a + 1), FALSE)

ListedLines(code) == {ListedLine(code, a) : a \in 0 .. Len(code) - 1}

\* Without -r, the words of a linked program that the listing has so far.
Listed ==
    phase = "written" /\ dsx # "idle" =>
        /\ objFile = Linked
        /\ ~recursive =>
               /\ listing \in Seq(ListedLines(objFile.objCode))
               /\ Len(listing) <= Len(objFile.objCode)
               /\ \A a \in 1 .. Len(listing) :
                      listing[a] = ListedLine(objFile.objCode, a - 1)
               /\ dsx = "printed" => Len(listing) = Len(objFile.objCode)

LEMMA Known ==
    ASSUME NEW opcode \in 0 .. 255
    PROVE  opcode < 26 <=> ~(opcode > 25)
OBVIOUS

\* A line of a program that imports nothing.
LEMMA LineIs ==
    ASSUME NEW a \in Nat, NEW w, NEW code, w = code[a + 1], objFile.outSymbols = <<>>,
           NEW opcode \in 0 .. 255, D!Opcode(w) = opcode
    PROVE  /\ opcode < 26 => D!Formatted(w, a + 1) = ListedLine(code, a)
           /\ ~(opcode < 26) => D!Line("UNKNOWN", <<>>, FALSE) = ListedLine(code, a)
<1>1. ASSUME NEW addr, NEW next PROVE ~D!checkInsymbols(objFile, addr, next)
  <2>1. D!ToSet(objFile.outSymbols) = {}
    BY DEF D!ToSet
  <2> QED BY <2>1 DEF D!checkInsymbols
<1>2. opcode < 26 <=> ~(opcode > 25)
  BY Known
<1>3. PICK known : known <=> opcode < 26
  OBVIOUS
<1>4. D!Formatted(w, a + 1) = D!Line(D!names[opcode + 1], D!Absolute(w, a + 1), FALSE)
  <2>1. ~\E k \in DOMAIN D!Reference(w) : D!checkInsymbols(objFile, D!Reference(w)[k], a + 1)
    BY <1>1
  <2> QED BY <2>1 DEF D!Formatted
<1>5. ListedLine(code, a) =
          IF ~known THEN D!Line("UNKNOWN", <<>>, FALSE)
          ELSE D!Line(D!names[opcode + 1], D!Absolute(w, a + 1), FALSE)
  BY <1>2, <1>3 DEF ListedLine
<1> QED BY <1>3, <1>4, <1>5

LEMMA OpcodeIs ==
    ASSUME NEW w \in Word
    PROVE  D!Opcode(w) \in 0 .. 255
<1>1. Opcode(w) \in 0 .. 255
  BY TopFacts DEF Opcode
<1> QED BY <1>1, SameReferences

LEMMA LinkedImportsNothing ==
    ASSUME LInv, phase = "written"
    PROVE  Linked.outSymbols = <<>> /\ Linked.objCode \in Seq(Word)
BY WrittenProgram

LEMMA LinkedIsRead ==
    ASSUME LInv, phase = "written"
    PROVE  D!Loaded(outFile) = Linked
<1>1. PICK f \in ObjFile : outFile = Assembled(f)
  BY WrittenProgram
<1> QED BY <1>1, ReadAsWritten, DisassemblerReads DEF Linked

LEMMA PrintedLine ==
    ASSUME LInv, Listed, D!PrintsLine, UNCHANGED vars
    PROVE  Listed'
<1> SUFFICES ASSUME phase = "written", dsx' # "idle"
             PROVE  /\ objFile' = Linked'
                    /\ ~recursive' =>
                           /\ listing' \in Seq(ListedLines(objFile'.objCode))
                           /\ Len(listing') <= Len(objFile'.objCode)
                           /\ \A a \in 1 .. Len(listing') :
                                  listing'[a] = ListedLine(objFile'.objCode, a - 1)
                           /\ dsx' = "printed" => Len(listing') = Len(objFile'.objCode)
  BY DEF Listed, vars
<1>1. /\ dsx = "print" /\ objFile' = objFile /\ recursive' = recursive /\ outFile' = outFile
      /\ Len(listing) < Len(objFile.objCode)
  BY DEF D!PrintsLine, D!Code, vars
<1>2. objFile = Linked /\ Linked' = Linked
  BY <1>1 DEF Listed, Linked
<1> SUFFICES ASSUME ~recursive
             PROVE  /\ listing' \in Seq(ListedLines(objFile.objCode))
                    /\ Len(listing') <= Len(objFile.objCode)
                    /\ \A a \in 1 .. Len(listing') :
                           listing'[a] = ListedLine(objFile.objCode, a - 1)
                    /\ dsx' = "printed" => Len(listing') = Len(objFile.objCode)
  BY <1>1, <1>2
<1>3. PICK code : code = objFile.objCode /\ code \in Seq(Word)
  BY <1>2, LinkedImportsNothing
<1>4. PICK lines : lines = ListedLines(code)
  OBVIOUS
<1>5. /\ listing \in Seq(lines) /\ Len(listing) < Len(code)
      /\ \A a \in 1 .. Len(listing) : listing[a] = ListedLine(code, a - 1)
  BY <1>1, <1>3, <1>4 DEF Listed
<1>6. PICK k \in Nat, m \in Nat : k = Len(listing) /\ m = Len(code) /\ k < m
  BY <1>3, <1>5, LenProperties
<1>7. PICK w \in Word : w = code[k + 1]
  BY <1>3, <1>6, ElementOfSeq
<1>8. PICK opcode \in 0 .. 255 : opcode = D!Opcode(w)
  BY OpcodeIs
<1>a. PICK line : /\ listing' = Append(listing, line) /\ dsx' = dsx
                  /\ line = IF opcode < 26 THEN D!Formatted(w, k + 1)
                            ELSE D!Line("UNKNOWN", <<>>, FALSE)
  BY <1>3, <1>6, <1>7, <1>8 DEF D!PrintsLine, D!Code
<1>9. listing' = Append(listing, line) /\ dsx' = dsx
  BY <1>a
<1>10. line = ListedLine(code, k)
  <2>1. objFile.outSymbols = <<>>
    BY <1>2, LinkedImportsNothing
  <2>2. /\ opcode < 26 => D!Formatted(w, k + 1) = ListedLine(code, k)
        /\ ~(opcode < 26) => D!Line("UNKNOWN", <<>>, FALSE) = ListedLine(code, k)
    BY <1>7, <1>8, <2>1, LineIs
  <2>3. CASE opcode < 26
    BY <1>a, <2>2, <2>3
  <2>4. CASE ~(opcode < 26)
    BY <1>a, <2>2, <2>4
  <2> QED BY <2>3, <2>4
<1>11. line \in lines
  BY <1>4, <1>6, <1>10 DEF ListedLines
<1>12. /\ listing' \in Seq(lines) /\ Len(listing') = k + 1 /\ listing'[k + 1] = line
       /\ \A a \in 1 .. k : listing'[a] = listing[a]
  BY <1>5, <1>6, <1>9, <1>11, AppendProperties
<1>13. ASSUME NEW a \in 1 .. k + 1 PROVE listing'[a] = ListedLine(code, a - 1)
  <2>1. CASE a = k + 1
    <3>1. a - 1 = k
      BY <2>1
    <3> QED BY <1>10, <1>12, <2>1, <3>1
  <2>2. CASE a # k + 1
    <3>1. a \in 1 .. k
      BY <2>2
    <3> QED BY <1>5, <1>6, <1>12, <3>1
  <2> QED BY <2>1, <2>2
<1>14. dsx' # "printed" /\ Len(listing') <= m /\ Len(listing') = k + 1
  BY <1>1, <1>6, <1>9, <1>12
<1> QED BY <1>3, <1>4, <1>6, <1>12, <1>13, <1>14

\* The other steps of the disassembler leave the listing, and what it is of.
LEMMA OtherSteps ==
    ASSUME Listed, D!Steps, ~D!PrintsLine, UNCHANGED vars
    PROVE  Listed'
<1>1. /\ objFile' = objFile /\ recursive' = recursive /\ listing' = listing /\ dsx # "idle"
      /\ dsx' = "printed" => Len(listing) = Len(objFile.objCode)
  <2>1. CASE D!VisitsHaltOrRet
    BY <2>1 DEF D!VisitsHaltOrRet, D!Visits, D!Walking
  <2>2. CASE D!VisitsJmp
    BY <2>2 DEF D!VisitsJmp, D!Visits, D!Walking
  <2>3. CASE D!VisitsCall
    BY <2>3 DEF D!VisitsCall, D!Visits, D!Walking
  <2>4. CASE D!VisitsOther
    BY <2>4 DEF D!VisitsOther, D!Visits, D!Walking
  <2>5. CASE D!Leaves
    BY <2>5 DEF D!Leaves, D!Walking
  <2>6. CASE D!WalkReturns \/ D!Exits
    BY <2>6 DEF D!WalkReturns, D!Exits, D!Code
  <2> QED BY <2>1, <2>2, <2>3, <2>4, <2>5, <2>6 DEF D!Steps
<1>2. phase' = phase /\ Linked' = Linked
  BY DEF vars, Linked
<1> QED BY <1>1, <1>2 DEF Listed

LEMMA Disassembling ==
    ASSUME LInv, Disassembles
    PROVE  Listed'
<1>1. /\ phase' = phase /\ outFile' = outFile /\ Linked' = Linked
  BY DEF Disassembles, vars, Linked
<1>2. ASSUME phase = "written"
      PROVE  objFile' = Linked /\ listing' = <<>> /\ dsx' # "printed"
  <2>1. PICK r \in BOOLEAN : D!main(outFile, r)
    BY <1>2 DEF Disassembles
  <2>2. objFile' = D!Loaded(outFile) /\ listing' = <<>> /\ dsx' \in {"walk", "print"}
    BY <2>1 DEF D!main
  <2> QED BY <1>2, <2>2, LinkedIsRead
<1>3. PICK none : none = <<>>
  OBVIOUS
<1>5. Len(none) = 0 /\ \A S : none \in Seq(S)
  BY <1>3
<1>4. ASSUME phase = "written" PROVE Len(Linked.objCode) \in Nat
  BY <1>4, LinkedImportsNothing, LenProperties
<1> QED BY <1>1, <1>2, <1>3, <1>4, <1>5 DEF Listed

\* What the listing has so far is right.
LEMMA ListingIsRight == ToolSpec => []Listed
<1>1. ToolInit => Listed
  BY DEF ToolInit, D!Idle, Listed
<1>2. ASSUME LInv, Listed, [ToolNext]_toolVars
      PROVE  Listed'
  <2>1. CASE Links
    <3>1. dsx' = "idle"
      BY <2>1 DEF Links, dsxVars
    <3> QED BY <3>1 DEF Listed
  <2>2. CASE Disassembles
    BY <1>2, <2>2, Disassembling
  <2>3. CASE Prints
    BY <1>2, <2>3, PrintedLine, OtherSteps DEF Prints
  <2>4. CASE Over \/ UNCHANGED toolVars
    <3>1. /\ dsx' = dsx /\ objFile' = objFile /\ recursive' = recursive /\ listing' = listing
          /\ phase' = phase /\ outFile' = outFile
      BY <2>4 DEF Over, toolVars, dsxVars, vars
    <3>2. Linked' = Linked
      BY <3>1 DEF Linked
    <3> QED BY <1>2, <3>1, <3>2 DEF Listed
  <2> QED BY <1>2, <2>1, <2>2, <2>3, <2>4 DEF ToolNext
<1> QED BY <1>1, <1>2, RunsTheLinker, Invariant, PTL DEF ToolSpec

\* What the handler that both tables have for a word prints as an address.
LEMMA SameOperands ==
    ASSUME NEW w, NEW next, NEW opcode \in 0 .. 25, opcode = Opcode(w)
    PROVE  D!Absolute(w, next) = M!Handled(M!instrFormatHandlers[opcode + 1], w, next)
<1>1. PICK handler : /\ handler = M!instrFormatHandlers[opcode + 1]
                     /\ handler = D!handlers[opcode + 1]
  BY SameTables
<1>2. D!handlers[D!Opcode(w) + 1] = handler
  BY <1>1, SameReferences
<1>3. CASE handler \in {"opAddr", "opRegAddr"}
  <2>1. D!Reference(w) = <<Addr(w)>>
    BY <1>2, <1>3, SameReferences DEF D!Reference
  <2>2. M!Handled(handler, w, next) = <<next + Addr(w)>>
    BY <1>3, SameReferences DEF M!Handled, M!opAddr, M!opRegAddr
  <2> QED BY <1>1, <2>1, <2>2 DEF D!Absolute
<1>4. CASE handler = "opRegRegAddr"
  <2>1. D!Reference(w) = <<Offset(w)>>
    BY <1>2, <1>4, SameReferences DEF D!Reference
  <2>2. M!Handled(handler, w, next) = <<next + Offset(w)>>
    BY <1>4, SameReferences DEF M!Handled, M!opRegRegAddr
  <2> QED BY <1>1, <2>1, <2>2 DEF D!Absolute
<1>5. CASE handler \notin {"opAddr", "opRegAddr", "opRegRegAddr"}
  <2>1. D!Reference(w) = <<>>
    BY <1>2, <1>5 DEF D!Reference
  <2>2. M!Handled(handler, w, next) = <<>>
    BY <1>5 DEF M!Handled, M!others
  <2> QED BY <1>1, <2>1, <2>2 DEF D!Absolute
<1> QED BY <1>3, <1>4, <1>5

\* The machine's disassembler says the same of a word in its memory.
LEMMA AnswersAgree ==
    ASSUME NEW code, NEW a \in Nat, a < MAX_ADDR, NEW w \in Word, w = code[a + 1]
    PROVE  SaysTheSame(ListedLine(code, a), M!disassemble(code, a))
<1>1. PICK opcode \in 0 .. 255 : /\ opcode = Opcode(w) /\ opcode = D!Opcode(w)
                                 /\ opcode = M!Opcode(w)
  BY OpcodeIs, SameReferences
<1>2. ~(a > MAX_ADDR)
  BY AddressAssumption
<1>3. CASE opcode > 25
  <2>1. PICK line : line = ListedLine(code, a) /\ line = D!Line("UNKNOWN", <<>>, FALSE)
    BY <1>1, <1>3 DEF ListedLine
  <2>2. PICK answer : /\ answer = M!disassemble(code, a)
                      /\ answer = M!Refused(M!VMX20_ILLEGAL_INSTRUCTION)
    BY <1>1, <1>2, <1>3 DEF M!disassemble
  <2>3. line.kind = "UNKNOWN"
    BY <2>1 DEF D!Line
  <2>4. answer.returned # 1 /\ answer.errorNumber = M!VMX20_ILLEGAL_INSTRUCTION
    BY <2>2 DEF M!Refused
  <2> QED BY Zenon, <2>1, <2>2, <2>3, <2>4 DEF SaysTheSame
<1>4. CASE ~(opcode > 25)
  <2>1. PICK c \in 0 .. 25 : c = opcode
    BY <1>4
  <2>2. PICK name, operand : /\ name = D!names[c + 1] /\ name = M!opcodeNames[c + 1]
                             /\ operand = D!Absolute(w, a + 1)
                             /\ operand = M!Handled(M!instrFormatHandlers[c + 1], w, a + 1)
    BY <1>1, <2>1, SameTables, SameOperands
  <2>3. ListedLine(code, a) = D!Line(name, operand, FALSE)
    BY <1>1, <1>4, <2>1, <2>2 DEF ListedLine
  <2>4. PICK answer : /\ answer = M!disassemble(code, a) /\ answer = M!Printed(name, operand)
    BY <1>1, <1>2, <1>4, <2>1, <2>2 DEF M!disassemble
  <2>5. answer.returned = 1 /\ answer.name = name /\ answer.operand = operand
    BY <2>4 DEF M!Printed
  <2> QED BY <2>3, <2>4, <2>5 DEF SaysTheSame
<1> QED BY <1>3, <1>4

\* In a linked program, the line of a word that refers to an imported symbol.
LEMMA ReferenceIs ==
    ASSUME NEW code, NEW at \in Nat \ {0}, NEW w \in Word, w = code[at], HasAddress(w),
           NEW target \in Int, at + Distance(w) = target
    PROVE  ListedLine(code, at - 1).address = <<target>>
<1>1. PICK opcode \in 0 .. 255 : opcode = Opcode(w) /\ opcode = D!Opcode(w)
  BY OpcodeIs, SameReferences
<1>2. at - 1 + 1 = at /\ code[at - 1 + 1] = w
  OBVIOUS
<1>3. HasOffset(w) <=> opcode \in {5, 6, 17, 18, 19, 21}
  BY <1>1, SameWidth
<1>4. opcode \in {1, 2, 4, 15, 20} \/ opcode \in {17, 18, 19, 21}
  <2>1. PICK c \in 0 .. 25 : c = opcode
    BY <1>1 DEF HasAddress
  <2>2. opcodeNames[c + 1] \in {"load", "store", "ldaddr", "call", "jmp", "blt", "bgt",
                                "beq", "cmpxchg"}
    BY <1>1, <2>1 DEF HasAddress
  <2>3. c \in {1, 2, 4, 15, 20} \/ c \in {17, 18, 19, 21}
    BY <2>2 DEF opcodeNames
  <2> QED BY <2>1, <2>3
<1>5. D!Absolute(w, at) = <<target>>
  <2>1. CASE opcode \in {1, 2, 4, 15, 20}
    <3>0. D!handlers[opcode + 1] \in {"opAddr", "opRegAddr"}
      BY <2>1 DEF D!handlers
    <3>1. D!Reference(w) = <<Addr(w)>>
      BY <1>1, <3>0, SameReferences DEF D!Reference
    <3>2. at + Addr(w) = target
      BY <1>3, <2>1 DEF Distance
    <3> QED BY <3>1, <3>2 DEF D!Absolute
  <2>2. CASE opcode \in {17, 18, 19, 21}
    <3>0. D!handlers[opcode + 1] = "opRegRegAddr"
      BY <2>2 DEF D!handlers
    <3>1. D!Reference(w) = <<Offset(w)>>
      BY <1>1, <3>0, SameReferences DEF D!Reference
    <3>2. at + Offset(w) = target
      BY <1>3, <2>2 DEF Distance
    <3> QED BY <3>1, <3>2 DEF D!Absolute
  <2> QED BY <1>4, <2>1, <2>2
<1>6. ~(opcode > 25)
  BY <1>4
<1>7. ListedLine(code, at - 1) = D!Line(D!names[opcode + 1], D!Absolute(w, at), FALSE)
  BY <1>1, <1>2, <1>6 DEF ListedLine
<1> QED BY <1>5, <1>7 DEF D!Line

\* In the listing of a linked program every instruction that refers to an
\* imported symbol has the address at which the symbol section lists the symbol,
\* unless it is too far away, nothing is undefined, and every line says what the
\* machine's disassembler, with a table and handlers of its own, says of the word
\* in the memory (dsx20.c:75-164, linkx20.c:77-95, vmx20.c:179-197, 229-256).
THEOREM ListingsAgree == ToolSpec => []ListingAgrees
<1>1. ASSUME LInv, Listed, phase = "written", dsx = "printed", ~recursive
      PROVE  /\ Len(listing) = Len(Linked.objCode)
             /\ \A a \in Words : listing[a + 1] = ListedLine(Linked.objCode, a)
             /\ \A a \in Words : a < MAX_ADDR =>
                    SaysTheSame(listing[a + 1], M!disassemble(Linked.objCode, a))
  <2>1. PICK m \in Nat : m = Len(Linked.objCode)
    BY <1>1, LinkedImportsNothing, LenProperties
  <2>2. /\ objFile = Linked /\ Len(listing) = m
        /\ \A a \in 1 .. m : listing[a] = ListedLine(Linked.objCode, a - 1)
    BY <1>1, <2>1 DEF Listed
  <2>3. ASSUME NEW a \in Words
        PROVE  /\ listing[a + 1] = ListedLine(Linked.objCode, a)
               /\ a \in Nat /\ Linked.objCode[a + 1] \in Word
    <3>1. a \in Nat /\ a + 1 \in 1 .. m /\ a + 1 - 1 = a
      BY <2>1, <2>2 DEF Words
    <3>2. Linked.objCode[a + 1] \in Word
      BY <1>1, <2>1, <3>1, LinkedImportsNothing, ElementOfSeq
    <3> QED BY <2>2, <3>1, <3>2
  <2>4. ASSUME NEW a \in Words, a < MAX_ADDR
        PROVE  SaysTheSame(listing[a + 1], M!disassemble(Linked.objCode, a))
    BY <2>3, <2>4, AnswersAgree
  <2> QED BY <2>1, <2>2, <2>3, <2>4
<1>2. ASSUME LInv, Listed, phase = "written", dsx = "printed", ~recursive,
             NEW n \in DOMAIN argv, NEW s \in ToSet(argv[n].outSymbols),
             NEW at, at = Start(n) + s.addr + 1,
             NEW was, was = argv[n].objCode[s.addr + 1], HasAddress(was),
             NEW target, target = getAddress(Linked, s.name), Fits(was, target - at)
      PROVE  listing[at].address = <<target>>
  <2>1. n \in 1 .. Len(argv) /\ Len(files) = Len(argv) /\ Start(n) \in Nat
    BY <1>2, AtTheEnd DEF Loaded
  <2>2. PICK a \in Nat : a = s.addr /\ a \in 0 .. Len(argv[n].objCode) - 1
    BY <1>2, <2>1, FilledWord
  <2>3. was \in Word
    BY <1>2, <2>1, FilledWord
  <2>4. PICK m \in 1 .. Len(files), x \in Int :
            /\ DefinedFirst(m, s.name) /\ getAddress(files[m], s.name) \in Int
            /\ x = getAddress(files[m], s.name) - (Start(n) + s.addr + 1)
            /\ files[n].objCode[s.addr + 1] = updateCodeWordAddr(argv[n].objCode[s.addr + 1], x)
    BY <1>2, <2>1, FilledWord
  <2>5. target = getAddress(files[m], s.name) /\ target \in Int
    BY <1>2, <2>4, LinkedName
  <2>6. at \in Nat \ {0} /\ x = target - at
    <3>1. PICK start \in Nat : start = Start(n)
      BY <2>1
    <3>2. at = start + a + 1
      BY <1>2, <2>2, <3>1
    <3>3. x = target - (start + a + 1)
      BY <2>2, <2>4, <2>5, <3>1
    <3> QED BY <3>2, <3>3
  <2>7. at \in 1 .. Len(Linked.objCode) /\ Linked.objCode[at] = updateCodeWordAddr(was, x)
    <3>1. /\ Start(n) + a + 1 \in 1 .. Len(Linked.objCode)
          /\ Linked.objCode[Start(n) + a + 1] = files[n].objCode[a + 1]
      BY <1>2, <2>1, <2>2, LinkedWords
    <3>2. at = Start(n) + a + 1
      BY <1>2, <2>2
    <3>3. files[n].objCode[a + 1] = updateCodeWordAddr(was, x)
      BY <1>2, <2>2, <2>4
    <3> QED BY <3>1, <3>2, <3>3
  <2>8. PICK w \in Word : /\ w = Linked.objCode[at] /\ Opcode(w) = Opcode(was)
                          /\ Distance(w) = x
    <3>1. Fits(was, x)
      BY <1>2, <2>6
    <3> QED BY <2>3, <2>4, <2>7, <3>1, Updated
  <2>9. at + Distance(w) = target
    BY <2>5, <2>6, <2>8
  <2>10. HasAddress(w)
    BY <1>2, <2>8 DEF HasAddress
  <2>11. ListedLine(Linked.objCode, at - 1).address = <<target>>
    <3>1. PICK code : code = Linked.objCode
      OBVIOUS
    <3>2. /\ w = code[at] /\ HasAddress(w) /\ at + Distance(w) = target
          /\ at \in Nat \ {0} /\ target \in Int
      BY <2>5, <2>6, <2>8, <2>9, <2>10, <3>1
    <3>3. ListedLine(code, at - 1).address = <<target>>
      BY <3>2, ReferenceIs
    <3> QED BY <3>1, <3>3
  <2>12. listing[at] = ListedLine(Linked.objCode, at - 1)
    <3>1. PICK words \in Nat : words = Len(Linked.objCode) /\ words = Len(objFile.objCode)
      BY <1>2, LinkedImportsNothing, LenProperties DEF Listed
    <3>2. at - 1 \in Words /\ at - 1 + 1 = at
      BY <2>6, <2>7, <3>1 DEF Words
    <3> QED BY <1>1, <1>2, <3>2
  <2> QED BY <2>11, <2>12
<1>3. LInv /\ Listed => ListingAgrees
  BY <1>1, <1>2 DEF ListingAgrees
<1> QED BY <1>3, RunsTheLinker, Invariant, ListingIsRight, PTL
=============================================================================
