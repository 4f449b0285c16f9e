------------------------------ MODULE VMProofs ------------------------------
(***************************************************************************)
(* The registers and the memory of the machine hold words, whatever runs   *)
(* on it, and a spin lock made with cmpxchg excludes any number of         *)
(* processors.                                                             *)
(***************************************************************************)
EXTENDS MCVM, ObjectFileProofs, FiniteSetTheorems

-----------------------------------------------------------------------------
(* Words *)

LEMMA Fields ==
    ASSUME NEW w \in Word
    PROVE  /\ Opcode(w) \in 0 .. 255 /\ Reg1(w) \in 0 .. 15 /\ Reg2(w) \in 0 .. 15
           /\ Addr(w) \in Int /\ Offset(w) \in Int /\ Signed(w) \in Int
           /\ Signed(w) = 0 <=> w = 0
BY TopFacts DEF Opcode, Reg1, Reg2, Addr, Offset, Signed, twosComplementer

LEMMA QuotientInt ==
    ASSUME NEW a \in Int, NEW b \in Int, b # 0
    PROVE  Quotient(a, b) \in Int
BY DEF Quotient

-----------------------------------------------------------------------------
(* The invariant *)

Places == {"fetch", "execute", "call: FP", "call: result", "ret: FP", "ret: PC",
           "ret: result", "ended", "never"}

MemOf(size) == [0 .. size - 1 -> Word]

CallerSound ==
    /\ machine \in {"idle", "running", "fault"}
    /\ currentExecutable \in Files \cup {NULL}
    /\ loaded \in BOOLEAN
    /\ loaded => ~Refused(currentExecutable)
    /\ totalNumProcessors \in 0 .. 16

MemSound == \E size \in 0 .. MAX_ADDR : mem \in MemOf(size)

ThreadsSound ==
    /\ r \in [Procs -> [0 .. 15 -> Word]]
    /\ at \in [Procs -> Places]
    /\ ir \in [Procs -> Word]
    /\ terminationStatus \in [Procs -> ILLEGAL_INSTRUCTION .. NORMAL_TERMINATION]

\* How many words ret has popped at this place.
Popped(where, s) ==
    /\ where \in {"fetch", "execute", "call: FP", "call: result"} => s = <<>>
    /\ where = "ret: FP" => Len(s) = 1
    /\ where \in {"ret: PC", "ret: result"} => Len(s) = 2

TempSound ==
    /\ temp \in [Procs -> Seq(Word)]
    /\ \A p \in Procs : Popped(at[p], temp[p])

VInv == CallerSound /\ MemSound /\ ThreadsSound /\ TempSound

\* What float arithmetic yields is a word, as it is stored in a register.
FloatsAreWords ==
    \A x, y \in Word :
        /\ \A op \in {"addf", "subf", "mulf"} : Float(op, x, y) \in Word
        /\ ~IsZeroFloat(y) => Float("divf", x, y) \in Word

LEMMA LoadedFile ==
    ASSUME CallerSound, loaded
    PROVE  /\ currentExecutable \in Files
           /\ currentExecutable \in ObjFile /\ Len(currentExecutable.objCode) \in 0 .. MAX_ADDR
           /\ getAddress(currentExecutable, "mainx20") \in Word
<1>1. currentExecutable # NULL
  BY DEF CallerSound, Refused, NULL
<1>2. currentExecutable \in Files
  BY <1>1 DEF CallerSound
<1>3. currentExecutable \in ObjFile /\ Len(currentExecutable.objCode) \in 0 .. MAX_ADDR
  BY <1>2, VMAssumption DEF ObjFile
<1>4. Defines(currentExecutable, "mainx20") /\ currentExecutable.inSymbols \in Seq(Symbol)
  BY <1>3 DEF CallerSound, Refused, ObjFile
<1>5. PICK k \in 1 .. Len(currentExecutable.inSymbols) :
          getAddress(currentExecutable, "mainx20") = currentExecutable.inSymbols[k].addr
  BY <1>3, <1>4, FirstSymbol
<1>6. currentExecutable.inSymbols[k] \in Symbol
  BY <1>4, <1>5, ElementOfSeq
<1> QED BY <1>2, <1>3, <1>5, <1>6 DEF Symbol

-----------------------------------------------------------------------------
(* What the parts of the handlers do *)

\* Register i of a processor after Registers(p, f).
RegisterAfter(p, f, i) == IF i \in DOMAIN f THEN f[i] ELSE r[p][i]

LEMMA RegistersTyped ==
    ASSUME r \in [Procs -> [0 .. 15 -> Word]], NEW p \in Procs,
           NEW f, DOMAIN f \subseteq 0 .. 15, \A i \in DOMAIN f : f[i] \in Word,
           Registers(p, f)
    PROVE  /\ r' \in [Procs -> [0 .. 15 -> Word]]
           /\ \A i \in 0 .. 15 : r'[p][i] = RegisterAfter(p, f, i)
           /\ \A q \in Procs \ {p} : r'[q] = r[q]
<1> DEFINE new == [i \in 0 .. 15 |-> IF i \in DOMAIN f THEN f[i] ELSE r[p][i]]
<1>1. r' = [r EXCEPT ![p] = new]
  BY DEF Registers
<1>2. new \in [0 .. 15 -> Word]
  OBVIOUS
<1>3. \A i \in 0 .. 15 : new[i] = RegisterAfter(p, f, i)
  BY DEF RegisterAfter
<1> HIDE DEF new
<1> QED BY <1>1, <1>2, <1>3

LEMMA SetReg1Typed ==
    ASSUME r \in [Procs -> [0 .. 15 -> Word]], ir \in [Procs -> Word], NEW p \in Procs,
           NEW w \in Word, SetReg1(p, w)
    PROVE  /\ r' \in [Procs -> [0 .. 15 -> Word]]
           /\ r'[p][Reg1(ir[p])] = w
           /\ \A i \in 0 .. 15 \ {Reg1(ir[p])} : r'[p][i] = r[p][i]
           /\ \A q \in Procs \ {p} : r'[q] = r[q]
<1>1. PICK a \in 0 .. 15 : a = Reg1(ir[p])
  BY Fields
<1> DEFINE f == [i \in {a} |-> w]
<1>2. Registers(p, f)
  BY <1>1 DEF SetReg1
<1>3. DOMAIN f = {a} /\ f[a] = w
  OBVIOUS
<1> HIDE DEF f
<1>4. /\ r' \in [Procs -> [0 .. 15 -> Word]]
      /\ \A i \in 0 .. 15 : r'[p][i] = RegisterAfter(p, f, i)
      /\ \A q \in Procs \ {p} : r'[q] = r[q]
  BY <1>2, <1>3, RegistersTyped
<1>5. \A i \in 0 .. 15 : r'[p][i] = IF i = a THEN w ELSE r[p][i]
  BY <1>3, <1>4 DEF RegisterAfter
<1> QED BY <1>1, <1>4, <1>5

\* The words of memory that may be written.
LEMMA MemTyped ==
    ASSUME MemSound, NEW a \in DOMAIN mem, NEW w \in Word, mem' = [mem EXCEPT ![a] = w]
    PROVE  MemSound'
BY DEF MemSound, MemOf

LEMMA MemWord ==
    ASSUME MemSound, NEW a \in DOMAIN mem
    PROVE  mem[a] \in Word
BY DEF MemSound, MemOf

\* The operands of an instruction.
LEMMA Operands ==
    ASSUME VInv, NEW p \in Procs
    PROVE  /\ ir[p] \in Word /\ r[p] \in [0 .. 15 -> Word]
           /\ Opcode(ir[p]) \in 0 .. 255 /\ Reg1(ir[p]) \in 0 .. 15 /\ Reg2(ir[p]) \in 0 .. 15
           /\ Addr(ir[p]) \in Int /\ Offset(ir[p]) \in Int
           /\ A(p) \in Word /\ B(p) \in Word /\ p \in 0 .. 15
           /\ \A k \in Int : Absolute(p, k) \in Word
<1>1. ir[p] \in Word /\ r[p] \in [0 .. 15 -> Word]
  BY DEF VInv, ThreadsSound
<1>2. /\ Opcode(ir[p]) \in 0 .. 255 /\ Reg1(ir[p]) \in 0 .. 15 /\ Reg2(ir[p]) \in 0 .. 15
      /\ Addr(ir[p]) \in Int /\ Offset(ir[p]) \in Int
  BY <1>1, Fields
<1>3. A(p) \in Word /\ B(p) \in Word
  BY <1>1, <1>2 DEF A, B
<1>4. ASSUME NEW k \in Int PROVE Absolute(p, k) \in Word
  <2>1. r[p][PC] \in Int
    BY <1>1, TopFacts DEF PC
  <2>2. r[p][PC] + k \in Int
    BY <2>1
  <2> QED BY <2>2, ModWord DEF Absolute
<1>5. p \in 0 .. 15
  BY DEF VInv, CallerSound, Procs
<1> QED BY <1>1, <1>2, <1>3, <1>4, <1>5

LEMMA ComputedWord ==
    ASSUME VInv, FloatsAreWords, NEW p \in Procs,
           Op(p) \in {"ldimm", "ldaddr", "getpid", "getpn", "addi", "subi", "muli",
                      "addf", "subf", "mulf", "divi", "divf"},
           Op(p) = "divi" => B(p) # 0, Op(p) = "divf" => ~IsZeroFloat(B(p))
    PROVE  Computed(p) \in Word
<1>1. /\ A(p) \in Word /\ B(p) \in Word /\ Addr(ir[p]) \in Int /\ p \in 0 .. 15
      /\ \A k \in Int : Absolute(p, k) \in Word
  BY Operands
<1>2. /\ A(p) \in Int /\ B(p) \in Int /\ Signed(A(p)) \in Int /\ Signed(B(p)) \in Int
      /\ B(p) # 0 => Signed(B(p)) # 0
  BY <1>1, Fields, TopFacts
<1>3. 0 .. 16 \subseteq Word /\ totalNumProcessors \in 0 .. 16
  BY TopFacts DEF VInv, CallerSound
<1>4. CASE Op(p) \in {"ldimm", "ldaddr", "getpid", "getpn"}
  <2>1. Addr(ir[p]) % Top \in Word
    BY <1>1, ModWord
  <2>2. Absolute(p, Addr(ir[p])) \in Word
    BY <1>1
  <2> QED BY <1>1, <1>3, <1>4, <2>1, <2>2 DEF Computed
<1>5. CASE Op(p) \in {"addi", "subi"}
  <2>1. (A(p) + B(p)) % Top \in Word /\ (A(p) - B(p)) % Top \in Word
    <3>1. A(p) + B(p) \in Int /\ A(p) - B(p) \in Int
      BY <1>2
    <3> QED BY <3>1, ModWord
  <2> QED BY <1>5, <2>1 DEF Computed
<1>6. CASE Op(p) = "muli"
  <2>1. Signed(A(p)) * Signed(B(p)) \in Int
    BY <1>2
  <2>2. (Signed(A(p)) * Signed(B(p))) % Top \in Word
    BY <2>1, ModWord
  <2> QED BY <1>6, <2>2 DEF Computed
<1>7. CASE Op(p) = "divi"
  <2>1. Quotient(Signed(A(p)), Signed(B(p))) \in Int
    BY <1>2, <1>7, QuotientInt
  <2>2. Quotient(Signed(A(p)), Signed(B(p))) % Top \in Word
    BY <2>1, ModWord
  <2> QED BY <1>7, <2>2 DEF Computed
<1>8. CASE Op(p) \in {"addf", "subf", "mulf", "divf"}
  <2>1. Computed(p) = Float(Op(p), A(p), B(p))
    BY <1>8 DEF Computed
  <2> QED BY <1>1, <1>8, <2>1 DEF FloatsAreWords
<1> QED BY <1>4, <1>5, <1>6, <1>7, <1>8

-----------------------------------------------------------------------------
(* Every step keeps the invariant *)

RegistersSound == r \in [Procs -> [0 .. 15 -> Word]]

LEMMA StepKeeps ==
    ASSUME VInv, NEW p \in Procs, UNCHANGED callerVars,
           machine' \in {"idle", "running", "fault"},
           RegistersSound', ir' \in [Procs -> Word], MemSound',
           terminationStatus' \in [Procs -> ILLEGAL_INSTRUCTION .. NORMAL_TERMINATION],
           NEW where \in Places, at' = [at EXCEPT ![p] = where],
           NEW s \in Seq(Word), temp' = [temp EXCEPT ![p] = s], Popped(where, s)
    PROVE  VInv'
<1>1. Procs' = Procs
  BY DEF Procs, callerVars
<1>2. CallerSound'
  BY DEF VInv, CallerSound, callerVars
<1>3. ThreadsSound'
  BY <1>1 DEF VInv, ThreadsSound, RegistersSound
<1>4. TempSound'
  <2>1. temp' \in [Procs -> Seq(Word)]
    BY DEF VInv, TempSound
  <2>2. ASSUME NEW q \in Procs PROVE Popped(at'[q], temp'[q])
    <3>1. Popped(at[q], temp[q])
      BY DEF VInv, TempSound
    <3>2. at'[q] = IF q = p THEN where ELSE at[q]
      BY DEF VInv, ThreadsSound
    <3>3. temp'[q] = IF q = p THEN s ELSE temp[q]
      BY DEF VInv, TempSound
    <3> QED BY <3>1, <3>2, <3>3
  <2>3. \A q \in Procs : Popped(at[q], temp[q])'
    BY <2>2 DEF Popped
  <2> QED BY <1>1, <2>1, <2>3 DEF TempSound
<1> QED BY <1>2, <1>3, <1>4 DEF VInv

LEMMA FaultKeeps ==
    ASSUME VInv, Fault, UNCHANGED callerVars
    PROVE  VInv'
<1>1. Procs' = Procs
  BY DEF Procs, callerVars
<1>2. CallerSound'
  BY DEF VInv, CallerSound, callerVars, Fault
<1>3. MemSound' /\ ThreadsSound'
  BY <1>1 DEF VInv, MemSound, ThreadsSound, Fault
<1>4. TempSound'
  BY <1>1 DEF VInv, TempSound, Fault, Popped
<1> QED BY <1>2, <1>3, <1>4 DEF VInv

LEMMA EndsKeeps ==
    ASSUME VInv, NEW p \in Procs, UNCHANGED <<machine, temp, callerVars>>,
           RegistersSound', ir' \in [Procs -> Word], MemSound',
           NEW status \in ILLEGAL_INSTRUCTION .. NORMAL_TERMINATION, Ends(p, status)
    PROVE  VInv'
<1>1. PICK s \in Seq(Word) : s = temp[p] /\ temp = [temp EXCEPT ![p] = s]
  BY DEF VInv, TempSound
<1>2. Popped("ended", s) /\ "ended" \in Places
  BY DEF Popped, Places
<1>3. at' = [at EXCEPT ![p] = "ended"]
  BY DEF Ends
<1>4. terminationStatus' \in [Procs -> ILLEGAL_INSTRUCTION .. NORMAL_TERMINATION]
  BY DEF VInv, ThreadsSound, Ends
<1>5. machine' \in {"idle", "running", "fault"} /\ temp' = [temp EXCEPT ![p] = s]
  BY <1>1 DEF VInv, CallerSound
<1> QED BY <1>1, <1>2, <1>3, <1>4, <1>5, StepKeeps

LEMMA ContinuesKeeps ==
    ASSUME VInv, NEW p \in Procs, UNCHANGED <<machine, callerVars>>,
           RegistersSound', ir' \in [Procs -> Word], MemSound',
           NEW where \in Places, Continues(p, where),
           NEW s \in Seq(Word), temp' = [temp EXCEPT ![p] = s], Popped(where, s)
    PROVE  VInv'
<1>1. at' = [at EXCEPT ![p] = where]
  BY DEF Continues
<1>2. terminationStatus' \in [Procs -> ILLEGAL_INSTRUCTION .. NORMAL_TERMINATION]
  BY DEF VInv, ThreadsSound, Continues
<1>3. machine' \in {"idle", "running", "fault"}
  BY DEF VInv, CallerSound
<1> QED BY <1>1, <1>2, <1>3, StepKeeps

\* The local variables of ret are not in use at these places.
LEMMA TempEmpty ==
    ASSUME VInv, NEW p \in Procs, at[p] \in {"fetch", "execute", "call: FP", "call: result"}
    PROVE  temp[p] = <<>> /\ temp = [temp EXCEPT ![p] = <<>>] /\ <<>> \in Seq(Word)
<1>1. Popped(at[p], temp[p]) /\ temp \in [Procs -> Seq(Word)]
  BY DEF VInv, TempSound
<1>2. temp[p] = <<>>
  BY <1>1 DEF Popped
<1> QED BY <1>1, <1>2

LEMMA Statuses ==
    /\ NORMAL_TERMINATION \in ILLEGAL_INSTRUCTION .. NORMAL_TERMINATION
    /\ ADDRESS_OUT_OF_RANGE \in ILLEGAL_INSTRUCTION .. NORMAL_TERMINATION
    /\ ILLEGAL_INSTRUCTION \in ILLEGAL_INSTRUCTION .. NORMAL_TERMINATION
    /\ DIVIDE_BY_ZERO \in ILLEGAL_INSTRUCTION .. NORMAL_TERMINATION
BY DEF NORMAL_TERMINATION, ADDRESS_OUT_OF_RANGE, ILLEGAL_INSTRUCTION, DIVIDE_BY_ZERO

LEMMA DoneKeeps ==
    ASSUME VInv, NEW p \in Procs, at[p] \in {"execute", "call: result"},
           UNCHANGED <<ir, callerVars>>,
           RegistersSound', MemSound', NEW address, Done(p, address)
    PROVE  VInv'
<1>1. ir' \in [Procs -> Word] /\ UNCHANGED <<machine, temp>>
  BY DEF VInv, ThreadsSound, Done
<1>2. CASE address > MAX_ADDR
  <2>1. Ends(p, ADDRESS_OUT_OF_RANGE)
    BY <1>2 DEF Done
  <2> QED BY <1>1, <2>1, Statuses, EndsKeeps
<1>3. CASE ~(address > MAX_ADDR)
  <2>1. Continues(p, "fetch")
    BY <1>3 DEF Done
  <2>2. temp[p] = <<>> /\ temp' = [temp EXCEPT ![p] = <<>>] /\ <<>> \in Seq(Word)
    BY <1>1, TempEmpty
  <2>3. Popped("fetch", <<>>) /\ "fetch" \in Places
    BY DEF Popped, Places
  <2> QED BY <1>1, <2>1, <2>2, <2>3, ContinuesKeeps
<1> QED BY <1>2, <1>3

LEMMA RefusesKeeps ==
    ASSUME VInv, NEW p \in Procs, UNCHANGED <<ir, callerVars>>,
           NEW status \in ILLEGAL_INSTRUCTION .. NORMAL_TERMINATION, Refuses(p, status)
    PROVE  VInv'
<1>1. Procs' = Procs
  BY DEF Procs, callerVars
<1>2. RegistersSound' /\ MemSound' /\ ir' \in [Procs -> Word]
  BY <1>1 DEF VInv, ThreadsSound, RegistersSound, MemSound, Refuses
<1> QED BY <1>2, EndsKeeps DEF Refuses

LEMMA SameMem ==
    ASSUME VInv, mem' = mem
    PROVE  MemSound'
BY DEF VInv, MemSound

LEMMA SameRegisters ==
    ASSUME VInv, r' = r, UNCHANGED callerVars
    PROVE  RegistersSound'
BY DEF VInv, ThreadsSound, RegistersSound, Procs, callerVars

LEMMA RegistersKeep ==
    ASSUME VInv, NEW p \in Procs, UNCHANGED callerVars,
           NEW f, DOMAIN f \subseteq 0 .. 15, \A i \in DOMAIN f : f[i] \in Word,
           Registers(p, f)
    PROVE  RegistersSound'
<1>1. r' \in [Procs -> [0 .. 15 -> Word]]
  BY RegistersTyped DEF VInv, ThreadsSound
<1> QED BY <1>1 DEF RegistersSound, Procs, callerVars

LEMMA SetReg1Keeps ==
    ASSUME VInv, NEW p \in Procs, UNCHANGED callerVars, NEW w \in Word, SetReg1(p, w)
    PROVE  RegistersSound'
<1>1. r' \in [Procs -> [0 .. 15 -> Word]]
  BY SetReg1Typed DEF VInv, ThreadsSound
<1> QED BY <1>1 DEF RegistersSound, Procs, callerVars

LEMMA RegisterWords ==
    ASSUME VInv, NEW p \in Procs, NEW i \in 0 .. 15
    PROVE  /\ r[p][i] \in Word /\ (r[p][i] + 1) % Top \in Word
           /\ (r[p][i] - 1) % Top \in Word /\ (((r[p][i] - 1) % Top) - 1) % Top \in Word
<1>1. r[p][i] \in Word
  BY DEF VInv, ThreadsSound
<1>2. \A w \in Word : w + 1 \in Int /\ w - 1 \in Int
  BY TopFacts
<1>3. \A w \in Word : (w + 1) % Top \in Word /\ (w - 1) % Top \in Word
  BY <1>2, ModWord
<1> QED BY <1>1, <1>3

LEMMA FetchKeeps ==
    ASSUME VInv, NEW p \in Procs, Fetch(p)
    PROVE  VInv'
<1>1. at[p] = "fetch" /\ UNCHANGED callerVars
  BY DEF Fetch, Running
<1>2. CASE r[p][PC] \notin DOMAIN mem
  BY <1>1, <1>2, FaultKeeps DEF Fetch
<1>3. CASE r[p][PC] \in DOMAIN mem
  <2> DEFINE next == (r[p][PC] + 1) % Top
             f == [i \in {PC} |-> next]
  <2>1. /\ Registers(p, f) /\ ir' = [ir EXCEPT ![p] = Fetched(p)]
        /\ \/ Ends(p, ADDRESS_OUT_OF_RANGE) \/ Ends(p, ILLEGAL_INSTRUCTION)
           \/ Continues(p, "execute")
        /\ UNCHANGED <<machine, mem, temp, frames>>
    BY <1>3 DEF Fetch
  <2>2. next \in Word
    <3>1. PC \in 0 .. 15
      BY DEF PC
    <3> QED BY <3>1, RegisterWords
  <2>3. DOMAIN f \subseteq 0 .. 15 /\ \A i \in DOMAIN f : f[i] \in Word
    BY <2>2 DEF PC
  <2> HIDE DEF f, next
  <2>4. RegistersSound' /\ MemSound'
    BY <1>1, <2>1, <2>3, RegistersKeep, SameMem
  <2>5. ir' \in [Procs -> Word]
    <3>1. Fetched(p) \in Word
      BY <1>3, MemWord DEF Fetched, VInv
    <3> QED BY <2>1, <3>1 DEF VInv, ThreadsSound
  <2>6. CASE Ends(p, ADDRESS_OUT_OF_RANGE) \/ Ends(p, ILLEGAL_INSTRUCTION)
    BY <1>1, <2>1, <2>4, <2>5, <2>6, Statuses, EndsKeeps
  <2>7. CASE Continues(p, "execute")
    <3>1. temp' = [temp EXCEPT ![p] = <<>>] /\ <<>> \in Seq(Word)
      BY <1>1, <2>1, TempEmpty
    <3>2. Popped("execute", <<>>) /\ "execute" \in Places
      BY DEF Popped, Places
    <3> QED BY <1>1, <2>1, <2>4, <2>5, <2>7, <3>1, <3>2, ContinuesKeeps
  <2> QED BY <2>1, <2>6, <2>7
<1> QED BY <1>2, <1>3

LEMMA HandlerFacts ==
    ASSUME VInv, NEW p \in Procs, NEW ops, Executes(p, ops)
    PROVE  /\ at[p] = "execute" /\ Op(p) \in ops /\ UNCHANGED ir /\ UNCHANGED callerVars
           /\ UNCHANGED <<ir, callerVars>>
BY DEF Executes, Running

LEMMA haltKeeps ==
    ASSUME VInv, NEW p \in Procs, halt(p)
    PROVE  VInv'
<1>1. UNCHANGED <<ir, callerVars>> /\ Refuses(p, NORMAL_TERMINATION)
  BY HandlerFacts DEF halt, Refuses
<1> QED BY <1>1, RefusesKeeps, Statuses

LEMMA LoadsKeeps ==
    ASSUME VInv, NEW p \in Procs, Loads(p)
    PROVE  VInv'
<1>1. at[p] = "execute" /\ UNCHANGED <<ir, callerVars>> /\ UNCHANGED callerVars
  BY HandlerFacts DEF Loads
<1>2. PICK a : a = IF Op(p) = "load" THEN Absolute(p, Addr(ir[p])) ELSE Indirect(p)
  OBVIOUS
<1>3. IF a > MAX_ADDR THEN Refuses(p, ADDRESS_OUT_OF_RANGE)
      ELSE IF a \notin DOMAIN mem THEN Fault
      ELSE SetReg1(p, mem[a]) /\ Done(p, 0) /\ UNCHANGED <<mem, frames>>
  BY <1>2 DEF Loads
<1>4. CASE a > MAX_ADDR
  BY <1>1, <1>3, <1>4, RefusesKeeps, Statuses
<1>5. CASE ~(a > MAX_ADDR) /\ a \notin DOMAIN mem
  BY <1>1, <1>3, <1>5, FaultKeeps
<1>6. CASE ~(a > MAX_ADDR) /\ a \in DOMAIN mem
  <2>1. SetReg1(p, mem[a]) /\ Done(p, 0) /\ UNCHANGED mem
    BY <1>3, <1>6
  <2>2. mem[a] \in Word
    BY <1>6, MemWord DEF VInv
  <2>3. RegistersSound' /\ MemSound'
    BY <1>1, <2>1, <2>2, SetReg1Keeps, SameMem
  <2> QED BY <1>1, <2>1, <2>3, DoneKeeps
<1> QED BY <1>4, <1>5, <1>6

LEMMA StoresKeeps ==
    ASSUME VInv, NEW p \in Procs, Stores(p)
    PROVE  VInv'
<1>1. at[p] = "execute" /\ UNCHANGED <<ir, callerVars>> /\ UNCHANGED callerVars
  BY HandlerFacts DEF Stores
<1>2. PICK a : a = IF Op(p) = "store" THEN Absolute(p, Addr(ir[p])) ELSE Indirect(p)
  OBVIOUS
<1>3. IF a > MAX_ADDR THEN Refuses(p, ADDRESS_OUT_OF_RANGE)
      ELSE IF a \notin DOMAIN mem THEN Fault
      ELSE mem' = [mem EXCEPT ![a] = A(p)] /\ Done(p, 0) /\ UNCHANGED <<r, frames>>
  BY <1>2 DEF Stores
<1>4. CASE a > MAX_ADDR
  BY <1>1, <1>3, <1>4, RefusesKeeps, Statuses
<1>5. CASE ~(a > MAX_ADDR) /\ a \notin DOMAIN mem
  BY <1>1, <1>3, <1>5, FaultKeeps
<1>6. CASE ~(a > MAX_ADDR) /\ a \in DOMAIN mem
  <2>1. mem' = [mem EXCEPT ![a] = A(p)] /\ Done(p, 0) /\ UNCHANGED r
    BY <1>3, <1>6
  <2>2. A(p) \in Word
    BY Operands
  <2>3. MemSound'
    BY <1>6, <2>1, <2>2, MemTyped DEF VInv
  <2>4. RegistersSound'
    BY <1>1, <2>1, SameRegisters
  <2> QED BY <1>1, <2>1, <2>3, <2>4, DoneKeeps
<1> QED BY <1>4, <1>5, <1>6

LEMMA ComputesKeeps ==
    ASSUME VInv, FloatsAreWords, NEW p \in Procs, Computes(p)
    PROVE  VInv'
<1>1. /\ at[p] = "execute" /\ UNCHANGED <<ir, callerVars>> /\ UNCHANGED callerVars
      /\ Op(p) \in {"ldimm", "ldaddr", "getpid", "getpn", "addi", "subi", "muli",
                    "addf", "subf", "mulf"}
  BY HandlerFacts DEF Computes
<1>2. SetReg1(p, Computed(p)) /\ Done(p, 0) /\ UNCHANGED mem
  BY DEF Computes
<1>3. Computed(p) \in Word
  BY <1>1, ComputedWord
<1>4. RegistersSound' /\ MemSound'
  BY <1>1, <1>2, <1>3, SetReg1Keeps, SameMem
<1> QED BY <1>1, <1>2, <1>4, DoneKeeps

LEMMA DividesKeeps ==
    ASSUME VInv, FloatsAreWords, NEW p \in Procs, Divides(p)
    PROVE  VInv'
<1>1. /\ at[p] = "execute" /\ UNCHANGED <<ir, callerVars>> /\ UNCHANGED callerVars
      /\ Op(p) \in {"divi", "divf"}
  BY HandlerFacts DEF Divides
<1> DEFINE zero == IF Op(p) = "divi" THEN B(p) = 0 ELSE IsZeroFloat(B(p))
           trapped == Op(p) = "divi" /\ A(p) = Top \div 2 /\ B(p) = Top - 1
<1>2. IF zero THEN Refuses(p, DIVIDE_BY_ZERO)
      ELSE IF trapped THEN Fault
      ELSE SetReg1(p, Computed(p)) /\ Done(p, 0) /\ UNCHANGED <<mem, frames>>
  BY DEF Divides
<1>3. CASE zero
  BY <1>1, <1>2, <1>3, RefusesKeeps, Statuses
<1>4. CASE ~zero /\ trapped
  BY <1>1, <1>2, <1>4, FaultKeeps
<1>5. CASE ~zero /\ ~trapped
  <2>1. SetReg1(p, Computed(p)) /\ Done(p, 0) /\ UNCHANGED mem
    BY <1>2, <1>5
  <2>2. Computed(p) \in Word
    BY <1>1, <1>5, ComputedWord
  <2>3. RegistersSound' /\ MemSound'
    BY <1>1, <2>1, <2>2, SetReg1Keeps, SameMem
  <2> QED BY <1>1, <2>1, <2>3, DoneKeeps
<1> QED BY <1>3, <1>4, <1>5

LEMMA BranchesKeeps ==
    ASSUME VInv, NEW p \in Procs, Branches(p)
    PROVE  VInv'
<1>1. at[p] = "execute" /\ UNCHANGED <<ir, callerVars>> /\ UNCHANGED callerVars
  BY HandlerFacts DEF Branches
<1>2. PICK offset : offset = IF Op(p) = "jmp" THEN Addr(ir[p]) ELSE Offset(ir[p])
  OBVIOUS
<1>3. PICK target : target = IF Taken(p) THEN Absolute(p, offset) ELSE r[p][PC]
  OBVIOUS
<1>4. Registers(p, [i \in {PC} |-> target]) /\ Done(p, target) /\ UNCHANGED mem
  BY <1>2, <1>3 DEF Branches
<1>5. target \in Word
  BY <1>2, <1>3, Operands DEF PC
<1> DEFINE f == [i \in {PC} |-> target]
<1>6. Registers(p, f) /\ DOMAIN f \subseteq 0 .. 15 /\ \A i \in DOMAIN f : f[i] \in Word
  BY <1>4, <1>5 DEF PC
<1> HIDE DEF f
<1>7. RegistersSound' /\ MemSound'
  BY <1>1, <1>4, <1>6, RegistersKeep, SameMem
<1> QED BY <1>1, <1>4, <1>7, DoneKeeps

LEMMA cmpxchgKeeps ==
    ASSUME VInv, NEW p \in Procs, cmpxchg(p)
    PROVE  VInv'
<1>1. at[p] = "execute" /\ UNCHANGED <<ir, callerVars>> /\ UNCHANGED callerVars
  BY HandlerFacts DEF cmpxchg
<1>2. PICK a : a = Absolute(p, Offset(ir[p]))
  OBVIOUS
<1>3. IF a > MAX_ADDR THEN Refuses(p, ADDRESS_OUT_OF_RANGE)
      ELSE IF a \notin DOMAIN mem THEN Fault
      ELSE /\ Done(p, 0)
           /\ IF A(p) = mem[a]
              THEN mem' = [mem EXCEPT ![a] = B(p)] /\ UNCHANGED r
              ELSE SetReg1(p, mem[a]) /\ UNCHANGED mem
  BY <1>2 DEF cmpxchg
<1>4. CASE a > MAX_ADDR
  BY <1>1, <1>3, <1>4, RefusesKeeps, Statuses
<1>5. CASE ~(a > MAX_ADDR) /\ a \notin DOMAIN mem
  BY <1>1, <1>3, <1>5, FaultKeeps
<1>6. CASE ~(a > MAX_ADDR) /\ a \in DOMAIN mem
  <2>1. Done(p, 0)
    BY <1>3, <1>6
  <2>2. CASE A(p) = mem[a]
    <3>1. mem' = [mem EXCEPT ![a] = B(p)] /\ UNCHANGED r /\ B(p) \in Word
      BY <1>3, <1>6, <2>2, Operands
    <3>2. MemSound'
      BY <1>6, <3>1, MemTyped DEF VInv
    <3>3. RegistersSound'
      BY <1>1, <3>1, SameRegisters
    <3> QED BY <1>1, <2>1, <3>2, <3>3, DoneKeeps
  <2>3. CASE A(p) # mem[a]
    <3>1. SetReg1(p, mem[a]) /\ UNCHANGED mem
      BY <1>3, <1>6, <2>3
    <3>2. mem[a] \in Word
      BY <1>6, MemWord DEF VInv
    <3>3. RegistersSound' /\ MemSound'
      BY <1>1, <3>1, <3>2, SetReg1Keeps, SameMem
    <3> QED BY <1>1, <2>1, <3>3, DoneKeeps
  <2> QED BY <2>2, <2>3
<1> QED BY <1>4, <1>5, <1>6

\* A register is a word, and so are its neighbours.
LEMMA pushKeeps ==
    ASSUME VInv, NEW p \in Procs, push(p)
    PROVE  VInv'
<1>1. at[p] = "execute" /\ UNCHANGED <<ir, callerVars>> /\ UNCHANGED callerVars
  BY HandlerFacts DEF push
<1>2. PICK sp \in Word : sp = (r[p][SP] - 1) % Top
  BY RegisterWords DEF SP
<1> DEFINE f == [i \in {SP} |-> sp]
<1>3. IF r[p][SP] > MAX_ADDR THEN Refuses(p, ADDRESS_OUT_OF_RANGE)
      ELSE IF sp \notin DOMAIN mem THEN Fault
      ELSE /\ mem' = [mem EXCEPT ![sp] = IF Reg1(ir[p]) = SP THEN sp ELSE A(p)]
           /\ Registers(p, f)
           /\ Done(p, 0)
  BY <1>2 DEF push
<1>4. CASE r[p][SP] > MAX_ADDR
  BY <1>1, <1>3, <1>4, RefusesKeeps, Statuses
<1>5. CASE ~(r[p][SP] > MAX_ADDR) /\ sp \notin DOMAIN mem
  BY <1>1, <1>3, <1>5, FaultKeeps
<1>6. CASE ~(r[p][SP] > MAX_ADDR) /\ sp \in DOMAIN mem
  <2>1. PICK w \in Word : w = IF Reg1(ir[p]) = SP THEN sp ELSE A(p)
    BY Operands
  <2>2. mem' = [mem EXCEPT ![sp] = w] /\ Registers(p, f) /\ Done(p, 0)
    BY <1>3, <1>6, <2>1
  <2>3. MemSound'
    BY <1>6, <2>2, MemTyped DEF VInv
  <2>4. DOMAIN f \subseteq 0 .. 15 /\ \A i \in DOMAIN f : f[i] \in Word
    BY DEF SP
  <2> HIDE DEF f
  <2>5. RegistersSound'
    BY <1>1, <2>2, <2>4, RegistersKeep
  <2> QED BY <1>1, <2>2, <2>3, <2>5, DoneKeeps
<1> QED BY <1>4, <1>5, <1>6

LEMMA popKeeps ==
    ASSUME VInv, NEW p \in Procs, pop(p)
    PROVE  VInv'
<1>1. at[p] = "execute" /\ UNCHANGED <<ir, callerVars>> /\ UNCHANGED callerVars
  BY HandlerFacts DEF pop
<1>2. PICK word, sp : word = mem[r[p][SP]]
                      /\ sp = ((IF Reg1(ir[p]) = SP THEN word ELSE r[p][SP]) + 1) % Top
  OBVIOUS
<1> DEFINE f == [i \in {SP, Reg1(ir[p])} |-> IF i = SP THEN sp ELSE word]
<1>3. IF r[p][SP] > MAX_ADDR THEN Refuses(p, ADDRESS_OUT_OF_RANGE)
      ELSE IF r[p][SP] \notin DOMAIN mem THEN Fault
      ELSE Registers(p, f) /\ Done(p, sp) /\ UNCHANGED <<mem, frames>>
  BY <1>2 DEF pop
<1>4. CASE r[p][SP] > MAX_ADDR
  BY <1>1, <1>3, <1>4, RefusesKeeps, Statuses
<1>5. CASE ~(r[p][SP] > MAX_ADDR) /\ r[p][SP] \notin DOMAIN mem
  BY <1>1, <1>3, <1>5, FaultKeeps
<1>6. CASE ~(r[p][SP] > MAX_ADDR) /\ r[p][SP] \in DOMAIN mem
  <2>1. Registers(p, f) /\ Done(p, sp) /\ UNCHANGED mem
    BY <1>3, <1>6
  <2>2. word \in Word
    BY <1>2, <1>6, MemWord DEF VInv
  <2>3. sp \in Word
    <3>1. PICK old : old = IF Reg1(ir[p]) = SP THEN word ELSE r[p][SP]
      OBVIOUS
    <3>2. SP \in 0 .. 15
      BY DEF SP
    <3>3. old \in Word
      BY <2>2, <3>1, <3>2, RegisterWords
    <3>4. old + 1 \in Int
      BY <3>3, TopFacts
    <3> QED BY <1>2, <3>1, <3>4, ModWord
  <2>4. DOMAIN f \subseteq 0 .. 15 /\ \A i \in DOMAIN f : f[i] \in Word
    BY <2>2, <2>3, Operands DEF SP
  <2> HIDE DEF f
  <2>5. RegistersSound' /\ MemSound'
    BY <1>1, <2>1, <2>4, RegistersKeep, SameMem
  <2> QED BY <1>1, <2>1, <2>5, DoneKeeps
<1> QED BY <1>4, <1>5, <1>6

LEMMA CallsKeeps ==
    ASSUME VInv, NEW p \in Procs, Calls(p)
    PROVE  VInv'
<1>1. at[p] = "execute" /\ UNCHANGED <<ir, callerVars>> /\ UNCHANGED callerVars
  BY HandlerFacts DEF Calls
<1>2. PICK sp \in Word, below \in Word : sp = (r[p][SP] - 1) % Top /\ below = (sp - 1) % Top
  BY RegisterWords DEF SP
<1>3. PICK target \in Word : target = Absolute(p, Addr(ir[p]))
  BY Operands
<1> DEFINE f == [i \in {PC, SP} |-> IF i = PC THEN target ELSE below]
<1>4. IF r[p][SP] > MAX_ADDR THEN Refuses(p, ADDRESS_OUT_OF_RANGE)
      ELSE IF sp \notin DOMAIN mem THEN Fault
      ELSE /\ mem' = [mem EXCEPT ![sp] = r[p][PC]]
           /\ Registers(p, f)
           /\ Continues(p, "call: FP")
           /\ UNCHANGED <<machine, temp>>
  BY <1>2, <1>3 DEF Calls
<1>5. CASE r[p][SP] > MAX_ADDR
  BY <1>1, <1>4, <1>5, RefusesKeeps, Statuses
<1>6. CASE ~(r[p][SP] > MAX_ADDR) /\ sp \notin DOMAIN mem
  BY <1>1, <1>4, <1>6, FaultKeeps
<1>7. CASE ~(r[p][SP] > MAX_ADDR) /\ sp \in DOMAIN mem
  <2>1. /\ mem' = [mem EXCEPT ![sp] = r[p][PC]] /\ Registers(p, f)
        /\ Continues(p, "call: FP") /\ UNCHANGED <<machine, temp>>
    BY <1>4, <1>7
  <2>2. r[p][PC] \in Word
    BY RegisterWords DEF PC
  <2>3. MemSound'
    BY <1>7, <2>1, <2>2, MemTyped DEF VInv
  <2>4. DOMAIN f \subseteq 0 .. 15 /\ \A i \in DOMAIN f : f[i] \in Word
    BY DEF SP, PC
  <2> HIDE DEF f
  <2>5. RegistersSound'
    BY <1>1, <2>1, <2>4, RegistersKeep
  <2>6. temp' = [temp EXCEPT ![p] = <<>>] /\ <<>> \in Seq(Word)
    BY <1>1, <2>1, TempEmpty
  <2>7. Popped("call: FP", <<>>) /\ "call: FP" \in Places /\ ir' \in [Procs -> Word]
    BY <1>1 DEF Popped, Places, VInv, ThreadsSound
  <2> QED BY <1>1, <2>1, <2>3, <2>5, <2>6, <2>7, ContinuesKeeps
<1> QED BY <1>5, <1>6, <1>7

LEMMA CallSavesFPKeeps ==
    ASSUME VInv, NEW p \in Procs, CallSavesFP(p)
    PROVE  VInv'
<1>1. at[p] = "call: FP" /\ UNCHANGED <<ir, callerVars>> /\ UNCHANGED callerVars
  BY DEF CallSavesFP, Running
<1>2. PICK sp \in Word, below \in Word : sp = r[p][SP] /\ below = (sp - 1) % Top
  BY RegisterWords DEF SP
<1> DEFINE f == [i \in {FP, SP} |-> IF i = FP THEN sp ELSE below]
<1>3. IF sp \notin DOMAIN mem THEN Fault
      ELSE /\ mem' = [mem EXCEPT ![sp] = r[p][FP]]
           /\ Registers(p, f)
           /\ Continues(p, "call: result")
           /\ UNCHANGED <<machine, temp, frames>>
  BY <1>2 DEF CallSavesFP
<1>4. CASE sp \notin DOMAIN mem
  BY <1>1, <1>3, <1>4, FaultKeeps
<1>5. CASE sp \in DOMAIN mem
  <2>1. /\ mem' = [mem EXCEPT ![sp] = r[p][FP]] /\ Registers(p, f)
        /\ Continues(p, "call: result") /\ UNCHANGED <<machine, temp>>
    BY <1>3, <1>5
  <2>2. r[p][FP] \in Word
    BY RegisterWords DEF FP
  <2>3. MemSound'
    BY <1>5, <2>1, <2>2, MemTyped DEF VInv
  <2>4. DOMAIN f \subseteq 0 .. 15 /\ \A i \in DOMAIN f : f[i] \in Word
    BY DEF SP, FP
  <2> HIDE DEF f
  <2>5. RegistersSound'
    BY <1>1, <2>1, <2>4, RegistersKeep
  <2>6. temp' = [temp EXCEPT ![p] = <<>>] /\ <<>> \in Seq(Word)
    BY <1>1, <2>1, TempEmpty
  <2>7. Popped("call: result", <<>>) /\ "call: result" \in Places /\ ir' \in [Procs -> Word]
    BY <1>1 DEF Popped, Places, VInv, ThreadsSound
  <2> QED BY <1>1, <2>1, <2>3, <2>5, <2>6, <2>7, ContinuesKeeps
<1> QED BY <1>4, <1>5

LEMMA CallClearsResultKeeps ==
    ASSUME VInv, NEW p \in Procs, CallClearsResult(p)
    PROVE  VInv'
<1>1. at[p] = "call: result" /\ UNCHANGED <<ir, callerVars>> /\ UNCHANGED callerVars
  BY DEF CallClearsResult, Running
<1>2. CASE r[p][SP] \notin DOMAIN mem
  BY <1>1, <1>2, FaultKeeps DEF CallClearsResult
<1>3. CASE r[p][SP] \in DOMAIN mem
  <2>1. mem' = [mem EXCEPT ![r[p][SP]] = 0] /\ Done(p, r[p][SP]) /\ UNCHANGED r
    BY <1>3 DEF CallClearsResult
  <2>2. 0 \in Word
    BY TopFacts
  <2>3. MemSound'
    BY <1>3, <2>1, <2>2, MemTyped DEF VInv
  <2>4. RegistersSound'
    BY <1>1, <2>1, SameRegisters
  <2> QED BY <1>1, <2>1, <2>3, <2>4, DoneKeeps
<1> QED BY <1>2, <1>3

\* Of a pop, one more word in temp.
LEMMA PopsKeeps ==
    ASSUME VInv, NEW p \in Procs, UNCHANGED <<ir, callerVars>>, NEW next \in Places,
           \A w \in Word : Popped(next, Append(temp[p], w)), Pops(p, next)
    PROVE  VInv'
<1>1. CASE r[p][SP] \notin DOMAIN mem
  BY <1>1, FaultKeeps DEF Pops
<1>2. CASE r[p][SP] \in DOMAIN mem
  <2>1. PICK sp \in Word : sp = (r[p][SP] + 1) % Top
    BY RegisterWords DEF SP
  <2> DEFINE f == [i \in {SP} |-> sp]
             s == Append(temp[p], mem[r[p][SP]])
  <2>2. /\ temp' = [temp EXCEPT ![p] = s] /\ Registers(p, f)
        /\ Continues(p, next) /\ UNCHANGED <<machine, mem>>
    BY <1>2, <2>1 DEF Pops
  <2>3. s \in Seq(Word)
    <3>1. mem[r[p][SP]] \in Word /\ temp[p] \in Seq(Word)
      BY <1>2, MemWord DEF VInv, TempSound
    <3> QED BY <3>1
  <2>4. DOMAIN f \subseteq 0 .. 15 /\ \A i \in DOMAIN f : f[i] \in Word
    BY DEF SP
  <2>5. Popped(next, s) /\ ir' \in [Procs -> Word]
    BY <1>2, MemWord DEF VInv, ThreadsSound
  <2> HIDE DEF f, s
  <2>6. RegistersSound' /\ MemSound'
    BY <2>2, <2>4, RegistersKeep, SameMem
  <2> QED BY <2>2, <2>3, <2>5, <2>6, ContinuesKeeps
<1> QED BY <1>1, <1>2

LEMMA RetsKeeps ==
    ASSUME VInv, NEW p \in Procs, Rets(p)
    PROVE  VInv'
<1>1. at[p] = "execute" /\ UNCHANGED <<ir, callerVars>>
  BY HandlerFacts DEF Rets
<1>2. CASE Refuses(p, ADDRESS_OUT_OF_RANGE)
  BY <1>1, <1>2, RefusesKeeps, Statuses
<1>3. CASE Pops(p, "ret: FP")
  <2>1. temp[p] = <<>>
    BY <1>1, TempEmpty
  <2>2. \A w \in Word : Popped("ret: FP", Append(temp[p], w))
    BY <2>1 DEF Popped
  <2>3. "ret: FP" \in Places
    BY DEF Places
  <2> QED BY <1>1, <1>3, <2>2, <2>3, PopsKeeps
<1> QED BY <1>2, <1>3 DEF Rets

LEMMA RetReadsFPKeeps ==
    ASSUME VInv, NEW p \in Procs, RetReadsFP(p)
    PROVE  VInv'
<1>1. at[p] = "ret: FP" /\ UNCHANGED <<ir, callerVars>> /\ Pops(p, "ret: PC")
  BY DEF RetReadsFP, Running
<1>2. temp[p] \in Seq(Word) /\ Len(temp[p]) = 1
  BY <1>1 DEF VInv, TempSound, Popped
<1>3. \A w \in Word : Len(Append(temp[p], w)) = 2
  <2>1. PICK s \in Seq(Word) : s = temp[p] /\ Len(s) = 1
    BY <1>2
  <2>2. \A w \in Word : Len(Append(s, w)) = Len(s) + 1
    OBVIOUS
  <2> QED BY <2>1, <2>2
<1>4. (\A w \in Word : Popped("ret: PC", Append(temp[p], w))) /\ "ret: PC" \in Places
  BY <1>3 DEF Popped, Places
<1> QED BY <1>1, <1>4, PopsKeeps

LEMMA RetReadsPCKeeps ==
    ASSUME VInv, NEW p \in Procs, RetReadsPC(p)
    PROVE  VInv'
<1>1. at[p] = "ret: PC" /\ UNCHANGED <<ir, callerVars>> /\ UNCHANGED callerVars
  BY DEF RetReadsPC, Running
<1>2. PICK s \in Seq(Word) : s = temp[p] /\ Len(s) = 2 /\ temp = [temp EXCEPT ![p] = s]
  BY <1>1 DEF VInv, TempSound, Popped
<1>3. CASE r[p][SP] \notin DOMAIN mem
  BY <1>1, <1>3, FaultKeeps DEF RetReadsPC
<1>4. CASE r[p][SP] \in DOMAIN mem
  <2>1. PICK w \in Word, sp \in Word : w = mem[r[p][SP]] /\ sp = (r[p][SP] + 1) % Top
    BY <1>4, RegisterWords, MemWord DEF SP, VInv
  <2> DEFINE f == [i \in {FP, SP, PC} |-> IF i = FP THEN s[2] ELSE IF i = PC THEN w ELSE sp]
  <2>2. /\ Registers(p, f) /\ Continues(p, "ret: result")
        /\ UNCHANGED <<machine, mem, temp, frames>>
    BY <1>2, <1>4, <2>1 DEF RetReadsPC
  <2>3. s[2] \in Word
    BY <1>2
  <2>4. DOMAIN f \subseteq 0 .. 15 /\ \A i \in DOMAIN f : f[i] \in Word
    BY <2>3 DEF SP, FP, PC
  <2> HIDE DEF f
  <2>5. RegistersSound' /\ MemSound'
    BY <1>1, <2>2, <2>4, RegistersKeep, SameMem
  <2>6. temp' = [temp EXCEPT ![p] = s] /\ Popped("ret: result", s)
    BY <1>2, <2>2 DEF Popped
  <2>7. "ret: result" \in Places /\ ir' \in [Procs -> Word]
    BY <1>1 DEF Places, VInv, ThreadsSound
  <2> QED BY <1>1, <1>2, <2>2, <2>5, <2>6, <2>7, ContinuesKeeps
<1> QED BY <1>3, <1>4

LEMMA RetPassesResultKeeps ==
    ASSUME VInv, NEW p \in Procs, RetPassesResult(p)
    PROVE  VInv'
<1>1. at[p] = "ret: result" /\ UNCHANGED <<ir, callerVars>> /\ UNCHANGED callerVars
  BY DEF RetPassesResult, Running
<1>2. PICK a : a = (r[p][FP] - 1) % Top
  OBVIOUS
<1>3. CASE a \notin DOMAIN mem
  BY <1>1, <1>2, <1>3, FaultKeeps DEF RetPassesResult
<1>4. CASE a \in DOMAIN mem
  <2>1. /\ mem' = [mem EXCEPT ![a] = temp[p][1]]
        /\ Ends(p, ADDRESS_OUT_OF_RANGE) \/ Continues(p, "fetch")
        /\ temp' = [temp EXCEPT ![p] = <<>>]
        /\ UNCHANGED <<machine, r>>
    BY <1>2, <1>4 DEF RetPassesResult
  <2>2. temp[p][1] \in Word
    <3>1. temp[p] \in Seq(Word) /\ Len(temp[p]) = 2
      BY <1>1 DEF VInv, TempSound, Popped
    <3> QED BY <3>1
  <2>3. MemSound'
    BY <1>4, <2>1, <2>2, MemTyped DEF VInv
  <2>4. RegistersSound' /\ ir' \in [Procs -> Word]
    BY <1>1, <2>1, SameRegisters DEF VInv, ThreadsSound
  <2>5. PICK where \in {"ended", "fetch"} : at' = [at EXCEPT ![p] = where]
    BY <2>1 DEF Ends, Continues
  <2>6. terminationStatus' \in [Procs -> ILLEGAL_INSTRUCTION .. NORMAL_TERMINATION]
    BY <2>1, Statuses DEF Ends, Continues, VInv, ThreadsSound
  <2>7. where \in Places /\ Popped(where, <<>>) /\ <<>> \in Seq(Word)
    <3>1. CASE where = "ended"
      BY <3>1 DEF Places, Popped
    <3>2. CASE where = "fetch"
      BY <3>2 DEF Places, Popped
    <3> QED BY <2>5, <3>1, <3>2
  <2>8. machine' \in {"idle", "running", "fault"}
    BY <2>1 DEF VInv, CallerSound
  <2> QED BY <1>1, <2>1, <2>3, <2>4, <2>5, <2>6, <2>7, <2>8, StepKeeps
<1> QED BY <1>3, <1>4

LEMMA threadWorkerKeeps ==
    ASSUME VInv, FloatsAreWords, NEW p \in Procs, threadWorker(p)
    PROVE  VInv'
BY FetchKeeps, haltKeeps, LoadsKeeps, StoresKeeps, ComputesKeeps, DividesKeeps,
   BranchesKeeps, cmpxchgKeeps, pushKeeps, popKeeps, CallsKeeps, CallSavesFPKeeps,
   CallClearsResultKeeps, RetsKeeps, RetReadsFPKeeps, RetReadsPCKeeps,
   RetPassesResultKeeps DEF threadWorker

-----------------------------------------------------------------------------
(* What the caller does *)

LEMMA LoadedMemory ==
    ASSUME NEW f \in ObjFile, NEW size \in 0 .. MAX_ADDR
    PROVE  Words(f, size) \in MemOf(size)
<1>1. f.objCode \in Seq(Word) /\ 0 \in Word
  BY TopFacts DEF ObjFile
<1> QED BY <1>1 DEF Words, MemOf

LEMMA loadKeeps ==
    ASSUME VInv, NEW f \in Files, loadExecutableFile(f)
    PROVE  VInv'
<1>1. f \in ObjFile /\ Len(f.objCode) \in 0 .. MAX_ADDR /\ MAX_ADDR \in 0 .. MAX_ADDR
  <2>1. f \in ObjFile /\ Len(f.objCode) <= MAX_ADDR /\ MAX_ADDR \in 1 .. Top - 2
    BY VMAssumption
  <2>2. Len(f.objCode) \in Nat
    BY <2>1 DEF ObjFile
  <2>3. MAX_ADDR \in Nat
    BY <2>1, TopFacts
  <2> QED BY <2>1, <2>2, <2>3
<1>2. PICK size \in 0 .. MAX_ADDR : mem' = Words(f, size)
  BY <1>1 DEF loadExecutableFile
<1>3. MemSound'
  BY <1>1, <1>2, LoadedMemory DEF MemSound
<1>4. CallerSound'
  BY DEF VInv, CallerSound, loadExecutableFile, processorVars
<1>5. ThreadsSound'
  BY DEF VInv, ThreadsSound, Procs, loadExecutableFile, processorVars
<1>6. TempSound'
  BY DEF VInv, TempSound, Procs, Popped, loadExecutableFile, processorVars
<1> QED BY <1>3, <1>4, <1>5, <1>6 DEF VInv

LEMMA loadMissingKeeps ==
    ASSUME VInv, loadMissingFile
    PROVE  VInv'
<1>1. CallerSound' /\ MemSound'
  BY DEF VInv, CallerSound, MemSound, loadMissingFile, processorVars
<1>2. ThreadsSound'
  BY DEF VInv, ThreadsSound, Procs, loadMissingFile, processorVars
<1>3. TempSound'
  BY DEF VInv, TempSound, Procs, Popped, loadMissingFile, processorVars
<1> QED BY <1>1, <1>2, <1>3 DEF VInv

LEMMA putWordKeeps ==
    ASSUME VInv, NEW poke \in Pokes(currentExecutable), putWord(poke[1], poke[2])
    PROVE  VInv'
<1>1. poke \in (0 .. MAX_ADDR - 1) \X Word
  BY LoadedFile, VMAssumption DEF VInv, putWord
<1>2. mem' = [mem EXCEPT ![poke[1]] = poke[2]]
  BY DEF putWord
<1>3. MemSound'
  BY <1>1, <1>2 DEF VInv, MemSound, MemOf
<1>4. CallerSound'
  BY DEF VInv, CallerSound, putWord, processorVars
<1>5. ThreadsSound'
  BY DEF VInv, ThreadsSound, Procs, putWord, processorVars
<1>6. TempSound'
  BY DEF VInv, TempSound, Procs, Popped, putWord, processorVars
<1> QED BY <1>3, <1>4, <1>5, <1>6 DEF VInv

LEMMA executeKeeps ==
    ASSUME VInv, NEW n \in Counts(currentExecutable), execute(n)
    PROVE  VInv'
<1>1. n \in 1 .. 16 /\ getAddress(currentExecutable, "mainx20") \in Word
  BY LoadedFile, VMAssumption DEF VInv, execute
<1>2. Procs' = 0 .. n - 1
  BY DEF Procs, execute
<1>3. CallerSound' /\ MemSound'
  BY <1>1 DEF VInv, CallerSound, MemSound, execute
<1>4. r' \in [0 .. n - 1 -> [0 .. 15 -> Word]]
  <2>1. \A p \in 0 .. n - 1 : initialSP[p] \in Word
    BY <1>1, VMAssumption
  <2>2. 0 \in Word
    BY TopFacts
  <2> QED BY <1>1, <2>1, <2>2 DEF execute
<1>5. at' \in [0 .. n - 1 -> Places] /\ \A p \in 0 .. n - 1 : at'[p] \in {"fetch", "never"}
  <2>1. PICK started : at' = [p \in 0 .. n - 1 |-> IF p \in started THEN "fetch" ELSE "never"]
    BY DEF execute
  <2> QED BY <2>1 DEF Places
<1>6. /\ ir' \in [0 .. n - 1 -> Word]
      /\ terminationStatus' \in [0 .. n - 1 -> ILLEGAL_INSTRUCTION .. NORMAL_TERMINATION]
  BY Statuses, TopFacts DEF execute
<1>7. ThreadsSound'
  BY <1>2, <1>4, <1>5, <1>6 DEF ThreadsSound
<1>8. temp' = [p \in 0 .. n - 1 |-> <<>>]
  BY DEF execute
<1>9. TempSound'
  <2>1. <<>> \in Seq(Word)
    OBVIOUS
  <2>2. temp' \in [0 .. n - 1 -> Seq(Word)]
    BY <1>8, <2>1
  <2> QED BY <1>2, <1>5, <1>8, <2>2 DEF TempSound, Popped
<1> QED BY <1>3, <1>7, <1>9 DEF VInv

LEMMA executeReturnsKeeps ==
    ASSUME VInv, executeReturns
    PROVE  VInv'
<1>1. machine' \in {"idle", "running", "fault"}
  BY DEF executeReturns
<1>2. CallerSound' /\ MemSound'
  BY <1>1 DEF VInv, CallerSound, MemSound, executeReturns
<1>3. ThreadsSound'
  BY DEF VInv, ThreadsSound, Procs, executeReturns
<1>4. TempSound'
  BY DEF VInv, TempSound, Procs, Popped, executeReturns
<1> QED BY <1>2, <1>3, <1>4 DEF VInv

LEMMA VInvInductive ==
    ASSUME FloatsAreWords
    PROVE  /\ Init => VInv
           /\ VInv /\ [Next]_vars => VInv'
<1>1. Init => VInv
  <2> SUFFICES ASSUME Init PROVE VInv
    OBVIOUS
  <2>1. Procs = {} /\ 0 .. (0 - 1) = {} /\ 0 \in 0 .. MAX_ADDR
    BY TopFacts, VMAssumption DEF Init, Procs
  <2>2. \A S : <<>> \in [{} -> S]
    OBVIOUS
  <2>3. MemSound
    BY <2>1, <2>2 DEF Init, MemSound, MemOf
  <2>4. ThreadsSound /\ TempSound
    BY <2>1, <2>2 DEF Init, ThreadsSound, TempSound
  <2>5. CallerSound
    <3>1. machine = "idle" /\ currentExecutable = NULL /\ ~loaded /\ totalNumProcessors = 0
      BY DEF Init
    <3>2. loaded \in BOOLEAN
      BY DEF Init
    <3>3. 0 \in 0 .. 16
      OBVIOUS
    <3> QED BY <3>1, <3>2, <3>3 DEF CallerSound
  <2> QED BY <2>3, <2>4, <2>5 DEF VInv
<1>2. VInv /\ [Next]_vars => VInv'
  <2> SUFFICES ASSUME VInv, [Next]_vars PROVE VInv'
    OBVIOUS
  <2>1. CASE UNCHANGED vars
    <3>1. CallerSound' /\ MemSound'
      BY <2>1 DEF VInv, CallerSound, MemSound, vars
    <3>2. ThreadsSound'
      BY <2>1 DEF VInv, ThreadsSound, Procs, vars
    <3>3. TempSound'
      BY <2>1 DEF VInv, TempSound, Procs, Popped, vars
    <3> QED BY <3>1, <3>2, <3>3 DEF VInv
  <2>2. CASE Next
    BY <2>1, <2>2, loadMissingKeeps, loadKeeps, putWordKeeps, executeKeeps,
       executeReturnsKeeps, threadWorkerKeeps DEF Next, Ended
  <2> QED BY <2>1, <2>2
<1> QED BY <1>1, <1>2

LEMMA VInvType == VInv => TypeOK
<1> SUFFICES ASSUME VInv PROVE TypeOK
  OBVIOUS
<1>1. PICK size \in 0 .. MAX_ADDR : mem \in MemOf(size)
  BY DEF VInv, MemSound
<1>2. DOMAIN mem = 0 .. size - 1 /\ Cardinality(0 .. size - 1) = size
  <2>1. size \in Int /\ size - 1 \in Int
    BY TopFacts, VMAssumption
  <2> QED BY <1>1, <2>1, FS_Interval DEF MemOf
<1>3. \A a \in DOMAIN mem : mem[a] \in Word
  BY <1>1 DEF MemOf
<1>4. /\ DOMAIN mem = 0 .. Cardinality(DOMAIN mem) - 1
      /\ Cardinality(DOMAIN mem) <= MAX_ADDR
  BY <1>1, <1>2
<1> QED BY <1>3, <1>4 DEF VInv, CallerSound, ThreadsSound, TempSound, Places, TypeOK

\* Registers, memory and the local variables of ret hold words, and addresses
\* that pass the handlers' checks are those of words or end in a fault, for any
\* programs and numbers of processors (opHandlers.c, vmx20.c).
THEOREM TypeCorrect == FloatsAreWords /\ Spec => []TypeOK
<1>1. FloatsAreWords /\ Init => VInv
  BY VInvInductive
<1>2. FloatsAreWords /\ VInv /\ [Next]_vars => VInv'
  BY VInvInductive
<1>3. VInv => TypeOK
  BY VInvType
<1> SUFFICES ASSUME FloatsAreWords PROVE Spec => []TypeOK
  OBVIOUS
<1>4. Init => VInv
  BY <1>1
<1>5. VInv /\ [Next]_vars => VInv'
  BY <1>2
<1> QED BY <1>3, <1>4, <1>5, PTL DEF Spec

-----------------------------------------------------------------------------
(* The words of assembled lines *)

\* Of the names that the lock uses, the opcodes.
LEMMA Opcodes ==
    /\ OpcodeOf("halt") = 0 /\ OpcodeOf("load") = 1 /\ OpcodeOf("store") = 2
    /\ OpcodeOf("ldimm") = 3 /\ OpcodeOf("addi") = 11 /\ OpcodeOf("beq") = 19
    /\ OpcodeOf("jmp") = 20 /\ OpcodeOf("cmpxchg") = 21
    /\ opcodeNames[1] = "halt" /\ opcodeNames[2] = "load" /\ opcodeNames[3] = "store"
    /\ opcodeNames[4] = "ldimm" /\ opcodeNames[12] = "addi" /\ opcodeNames[20] = "beq"
    /\ opcodeNames[21] = "jmp" /\ opcodeNames[22] = "cmpxchg"
<1>1. Len(opcodeNames) = 26
  BY DEF opcodeNames
<1>2. ASSUME NEW name, NEW k \in 1 .. 26, opcodeNames[k] = name,
             \A i \in 1 .. 26 : opcodeNames[i] = name => i = k
      PROVE  OpcodeOf(name) = k - 1
  BY <1>1, <1>2 DEF OpcodeOf
<1>3. \A i \in 1 .. 26 : /\ opcodeNames[i] = "halt" => i = 1
                         /\ opcodeNames[i] = "load" => i = 2
                         /\ opcodeNames[i] = "store" => i = 3
                         /\ opcodeNames[i] = "ldimm" => i = 4
  BY DEF opcodeNames
<1>4. \A i \in 1 .. 26 : /\ opcodeNames[i] = "addi" => i = 12
                         /\ opcodeNames[i] = "beq" => i = 20
                         /\ opcodeNames[i] = "jmp" => i = 21
                         /\ opcodeNames[i] = "cmpxchg" => i = 22
  BY DEF opcodeNames
<1>5. /\ opcodeNames[1] = "halt" /\ opcodeNames[2] = "load" /\ opcodeNames[3] = "store"
      /\ opcodeNames[4] = "ldimm" /\ opcodeNames[12] = "addi" /\ opcodeNames[20] = "beq"
      /\ opcodeNames[21] = "jmp" /\ opcodeNames[22] = "cmpxchg"
  BY DEF opcodeNames
<1>6. /\ 1 \in 1 .. 26 /\ 2 \in 1 .. 26 /\ 3 \in 1 .. 26 /\ 4 \in 1 .. 26 /\ 12 \in 1 .. 26
      /\ 20 \in 1 .. 26 /\ 21 \in 1 .. 26 /\ 22 \in 1 .. 26
  OBVIOUS
<1> QED BY <1>2, <1>3, <1>4, <1>5, <1>6

\* What fits into the fields for addresses and offsets.
AddrFits(k) == k \in -(8 * Offsets) .. 8 * Offsets - 1
OffsetFits(k) == k \in -(Offsets \div 2) .. Offsets \div 2 - 1

\* A word made of an opcode, one register and an address.
LEMMA ShortWord ==
    ASSUME NEW op, OpcodeOf(op) \in 0 .. 255, NEW reg1 \in 0 .. 15,
           NEW k, AddrFits(k),
           NEW w, w = Short(op, reg1, k)
    PROVE  /\ w \in Word /\ Opcode(w) = OpcodeOf(op) /\ Reg1(w) = reg1 /\ Addr(w) = k
<1>1. PICK c \in 0 .. 255 : c = OpcodeOf(op)
  OBVIOUS
<1>2. PICK m \in Nat \ {0} : m = 16 * Offsets /\ m % 2 = 0 /\ m \div 2 = 8 * Offsets
  BY TopFacts
<1>3. PICK x \in 0 .. m - 1 : x = k % m /\ twosComplementer(x, m) = k
  BY <1>2, ModField DEF AddrFits
<1>4. w = c + 256 * reg1 + 4096 * x
  BY <1>1, <1>2, <1>3 DEF Short
<1>5. w \in Word
  BY <1>2, <1>4, TopFacts
<1>6. w % 256 = c /\ w \div 256 = reg1 + 16 * x
  <2>1. w = 256 * (reg1 + 16 * x) + c /\ reg1 + 16 * x \in Int
    BY <1>4
  <2> QED BY <2>1, ModOf
<1>7. (reg1 + 16 * x) % 16 = reg1
  BY ModOf
<1>8. w \div 4096 = x
  <2>1. w = 4096 * x + (c + 256 * reg1) /\ c + 256 * reg1 \in 0 .. 4096 - 1
    BY <1>4
  <2> QED BY <2>1, ModOf
<1> QED BY <1>1, <1>2, <1>3, <1>5, <1>6, <1>7, <1>8 DEF Opcode, Reg1, Addr

Packed(c, reg1, reg2, x) == c + 256 * reg1 + 4096 * reg2 + 65536 * x

HasParts(w, c, reg1, reg2, x) ==
    /\ w % 256 = c /\ (w \div 256) % 16 = reg1 /\ (w \div 4096) % 16 = reg2
    /\ w \div 65536 = x

LEMMA WordParts ==
    ASSUME NEW c \in 0 .. 255, NEW reg1 \in 0 .. 15, NEW reg2 \in 0 .. 15, NEW x \in Nat
    PROVE  HasParts(Packed(c, reg1, reg2, x), c, reg1, reg2, x)
<1>1. PICK q1 \in Nat : q1 = reg1 + 16 * (reg2 + 16 * x)
  OBVIOUS
<1>2. PICK q2 \in Nat : q2 = reg2 + 16 * x
  OBVIOUS
<1>3. PICK y \in Nat : y = c + 256 * reg1 /\ y < 4096
  OBVIOUS
<1>4. PICK z \in Nat : z = y + 4096 * reg2 /\ z < 65536
  <2>1. y + 4096 * reg2 \in Nat /\ y + 4096 * reg2 < 65536
    BY <1>3
  <2> QED BY <2>1
<1>5. (256 * q1 + c) % 256 = c /\ (256 * q1 + c) \div 256 = q1
  OBVIOUS
<1>6. (16 * q2 + reg1) % 16 = reg1 /\ (16 * x + reg2) % 16 = reg2
  OBVIOUS
<1>7. (4096 * q2 + y) \div 4096 = q2
  BY <1>3
<1>8. (65536 * x + z) \div 65536 = x
  BY <1>4
<1>9. SUFFICES ASSUME NEW w, w = c + 256 * reg1 + 4096 * reg2 + 65536 * x
               PROVE  /\ w % 256 = c /\ (w \div 256) % 16 = reg1
                      /\ (w \div 4096) % 16 = reg2 /\ w \div 65536 = x
  BY DEF Packed, HasParts
<1>10. w = 256 * q1 + c
  BY <1>1, <1>9
<1>11. w = 4096 * q2 + y
  BY <1>2, <1>3, <1>9
<1>12. w = 65536 * x + z
  BY <1>3, <1>4, <1>9
<1>13. q1 = 16 * q2 + reg1 /\ q2 = 16 * x + reg2
  BY <1>1, <1>2
<1>14. w % 256 = c /\ (w \div 256) % 16 = reg1
  BY <1>5, <1>6, <1>10, <1>13
<1>15. (w \div 4096) % 16 = reg2
  BY <1>6, <1>7, <1>11, <1>13
<1>16. w \div 65536 = x
  BY <1>8, <1>12
<1> QED BY <1>14, <1>15, <1>16

\* A word made of an opcode, two registers and an offset.
LEMMA LongWord ==
    ASSUME NEW op, OpcodeOf(op) \in 0 .. 255, NEW reg1 \in 0 .. 15, NEW reg2 \in 0 .. 15,
           NEW k, OffsetFits(k),
           NEW w, w = Long(op, reg1, reg2, k)
    PROVE  /\ w \in Word /\ Opcode(w) = OpcodeOf(op) /\ Reg1(w) = reg1 /\ Reg2(w) = reg2
           /\ Offset(w) = k
<1>1. PICK c \in 0 .. 255 : c = OpcodeOf(op)
  OBVIOUS
<1>2. Offsets \in Nat \ {0} /\ Offsets % 2 = 0
  BY TopFacts
<1>3. PICK x \in 0 .. Offsets - 1 : x = k % Offsets /\ twosComplementer(x, Offsets) = k
  BY <1>2, ModField DEF OffsetFits
<1>4. w = c + 256 * reg1 + 4096 * reg2 + 65536 * x
  BY <1>1, <1>3 DEF Long
<1>5. x \in Nat
  BY <1>2
<1>6. w % 256 = c /\ (w \div 256) % 16 = reg1 /\ (w \div 4096) % 16 = reg2 /\ w \div 65536 = x
  <2>1. HasParts(Packed(c, reg1, reg2, x), c, reg1, reg2, x)
    BY <1>5, WordParts, Zenon
  <2>2. w = Packed(c, reg1, reg2, x)
    BY <1>4 DEF Packed
  <2> QED BY <2>1, <2>2 DEF HasParts
<1>7. w \in Word
  BY <1>2, <1>4, TopFacts
<1> QED BY <1>1, <1>3, <1>6, <1>7 DEF Opcode, Reg1, Reg2, Offset

-----------------------------------------------------------------------------
(* The spin lock *)

\* What the proof needs of the instance: offsets wide enough for the program,
\* and a caller that does not write into it.
LockRuns == Offsets >= 16 /\ Pokes(LockFile) = {}

\* The instruction of a word.
Named(w) == opcodeNames[Opcode(w) + 1]

IsShort(w, name, reg1, k) == Named(w) = name /\ Reg1(w) = reg1 /\ Addr(w) = k
IsLong(w, name, reg1, reg2, k) ==
    Named(w) = name /\ Reg1(w) = reg1 /\ Reg2(w) = reg2 /\ Offset(w) = k

LockWord(a) == LockFile.objCode[a + 1]

LEMMA LockLines ==
    /\ Len(LockFile.objCode) = 12 /\ DOMAIN LockFile.objCode = 1 .. 12
    /\ LockWord(0) = 0 /\ LockWord(1) = 0
    /\ LockWord(2) = Short("ldimm", 2, 1) /\ LockWord(3) = Short("ldimm", 1, 0)
    /\ LockWord(4) = Long("cmpxchg", 1, 2, -5) /\ LockWord(5) = Long("beq", 1, 3, 1)
    /\ LockWord(6) = Short("jmp", 0, -4) /\ LockWord(7) = Short("load", 4, -7)
    /\ LockWord(8) = Long("addi", 4, 2, 0) /\ LockWord(9) = Short("store", 4, -9)
    /\ LockWord(10) = Short("store", 3, -11) /\ LockWord(11) = Short("halt", 0, 0)
    /\ getAddress(LockFile, "mainx20") = 2
<1> DEFINE lines == <<
    <<"word", 0>>, <<"word", 0>>, <<"ldimm", 2, 1>>, <<"ldimm", 1, 0>>,
    <<"cmpxchg", 1, 2, 0>>, <<"beq", 1, 3, 7>>, <<"jmp", 3>>, <<"load", 4, 1>>,
    <<"addi", 4, 2>>, <<"store", 4, 1>>, <<"store", 3, 0>>, <<"halt">> >>
<1>1. LockFile = Assemble(2, lines)
  BY DEF LockFile
<1>2. /\ Len(lines) = 12
      /\ lines[1] = <<"word", 0>> /\ lines[2] = <<"word", 0>> /\ lines[3] = <<"ldimm", 2, 1>>
      /\ lines[4] = <<"ldimm", 1, 0>> /\ lines[5] = <<"cmpxchg", 1, 2, 0>>
      /\ lines[6] = <<"beq", 1, 3, 7>> /\ lines[7] = <<"jmp", 3>> /\ lines[8] = <<"load", 4, 1>>
      /\ lines[9] = <<"addi", 4, 2>> /\ lines[10] = <<"store", 4, 1>>
      /\ lines[11] = <<"store", 3, 0>> /\ lines[12] = <<"halt">>
  OBVIOUS
<1> HIDE DEF lines
<1>3. LockFile.objCode = [i \in 1 .. 12 |-> Encode(lines[i], i)]
  BY <1>1, <1>2 DEF Assemble
<1>4. Len(LockFile.objCode) = 12 /\ DOMAIN LockFile.objCode = 1 .. 12
  BY <1>3
<1>5. \A i \in 1 .. 12 : LockFile.objCode[i] = Encode(lines[i], i)
  BY <1>3
<1>6. /\ Encode(<<"word", 0>>, 1) = 0 /\ Encode(<<"word", 0>>, 2) = 0
      /\ Encode(<<"ldimm", 2, 1>>, 3) = Short("ldimm", 2, 1)
      /\ Encode(<<"ldimm", 1, 0>>, 4) = Short("ldimm", 1, 0)
  BY DEF Encode
<1>7. /\ Encode(<<"cmpxchg", 1, 2, 0>>, 5) = Long("cmpxchg", 1, 2, -5)
      /\ Encode(<<"beq", 1, 3, 7>>, 6) = Long("beq", 1, 3, 1)
      /\ Encode(<<"jmp", 3>>, 7) = Short("jmp", 0, -4)
      /\ Encode(<<"load", 4, 1>>, 8) = Short("load", 4, -7)
  BY DEF Encode
<1>8. /\ Encode(<<"addi", 4, 2>>, 9) = Long("addi", 4, 2, 0)
      /\ Encode(<<"store", 4, 1>>, 10) = Short("store", 4, -9)
      /\ Encode(<<"store", 3, 0>>, 11) = Short("store", 3, -11)
      /\ Encode(<<"halt">>, 12) = Short("halt", 0, 0)
  BY DEF Encode
<1>9. getAddress(LockFile, "mainx20") = 2
  <2>1. LockFile.inSymbols = <<[name |-> "mainx20", addr |-> 2]>>
    BY <1>1 DEF Assemble
  <2>2. DOMAIN <<[name |-> "mainx20", addr |-> 2]>> = {1}
    OBVIOUS
  <2>3. (CHOOSE k \in DOMAIN LockFile.inSymbols :
            /\ LockFile.inSymbols[k].name = "mainx20"
            /\ \A j \in 1 .. k - 1 : LockFile.inSymbols[j].name # "mainx20") = 1
    BY <2>1, <2>2
  <2> QED BY <2>1, <2>3 DEF getAddress
<1>10. /\ LockWord(0) = 0 /\ LockWord(1) = 0
       /\ LockWord(2) = Short("ldimm", 2, 1) /\ LockWord(3) = Short("ldimm", 1, 0)
  BY <1>2, <1>5, <1>6 DEF LockWord
<1>11. /\ LockWord(4) = Long("cmpxchg", 1, 2, -5) /\ LockWord(5) = Long("beq", 1, 3, 1)
       /\ LockWord(6) = Short("jmp", 0, -4) /\ LockWord(7) = Short("load", 4, -7)
  BY <1>2, <1>5, <1>7 DEF LockWord
<1>12. /\ LockWord(8) = Long("addi", 4, 2, 0) /\ LockWord(9) = Short("store", 4, -9)
       /\ LockWord(10) = Short("store", 3, -11) /\ LockWord(11) = Short("halt", 0, 0)
  BY <1>2, <1>5, <1>8 DEF LockWord
<1> QED BY <1>4, <1>9, <1>10, <1>11, <1>12

LEMMA LockCode ==
    ASSUME LockRuns
    PROVE  /\ \A a \in 2 .. 11 : LockWord(a) \in Word /\ Opcode(LockWord(a)) <= 25
           /\ IsShort(LockWord(2), "ldimm", 2, 1) /\ IsShort(LockWord(3), "ldimm", 1, 0)
           /\ IsLong(LockWord(4), "cmpxchg", 1, 2, -5) /\ IsLong(LockWord(5), "beq", 1, 3, 1)
           /\ IsShort(LockWord(6), "jmp", 0, -4) /\ IsShort(LockWord(7), "load", 4, -7)
           /\ IsLong(LockWord(8), "addi", 4, 2, 0) /\ IsShort(LockWord(9), "store", 4, -9)
           /\ IsShort(LockWord(10), "store", 3, -11) /\ IsShort(LockWord(11), "halt", 0, 0)
<1>1. \A k \in -11 .. 7 : AddrFits(k)
  BY TopFacts DEF LockRuns, AddrFits
<1>2. \A k \in -5 .. 1 : OffsetFits(k)
  BY TopFacts DEF LockRuns, OffsetFits
<1>3. ASSUME NEW op, OpcodeOf(op) \in 0 .. 25, opcodeNames[OpcodeOf(op) + 1] = op,
             NEW reg1 \in 0 .. 15, NEW k \in -11 .. 7, NEW w, w = Short(op, reg1, k)
      PROVE  w \in Word /\ Opcode(w) <= 25 /\ IsShort(w, op, reg1, k)
  <2>1. OpcodeOf(op) \in 0 .. 255 /\ OpcodeOf(op) <= 25
    BY <1>3
  <2>2. AddrFits(k)
    BY <1>1
  <2>3. w \in Word /\ Opcode(w) = OpcodeOf(op) /\ Reg1(w) = reg1 /\ Addr(w) = k
    BY <1>3, <2>1, <2>2, ShortWord
  <2> QED BY <1>3, <2>1, <2>3 DEF IsShort, Named
<1>4. ASSUME NEW op, OpcodeOf(op) \in 0 .. 25, opcodeNames[OpcodeOf(op) + 1] = op,
             NEW reg1 \in 0 .. 15, NEW reg2 \in 0 .. 15, NEW k \in -5 .. 1,
             NEW w, w = Long(op, reg1, reg2, k)
      PROVE  w \in Word /\ Opcode(w) <= 25 /\ IsLong(w, op, reg1, reg2, k)
  <2>1. OpcodeOf(op) \in 0 .. 255 /\ OpcodeOf(op) <= 25
    BY <1>4
  <2>2. OffsetFits(k)
    BY <1>2
  <2>3. w \in Word /\ Opcode(w) = OpcodeOf(op) /\ Reg1(w) = reg1 /\ Reg2(w) = reg2
        /\ Offset(w) = k
    BY <1>4, <2>1, <2>2, LongWord
  <2> QED BY <1>4, <2>1, <2>3 DEF IsLong, Named
<1>5. /\ LockWord(2) \in Word /\ Opcode(LockWord(2)) <= 25
     /\ IsShort(LockWord(2), "ldimm", 2, 1)
  <2>1. LockWord(2) = Short("ldimm", 2, 1)
    BY LockLines
  <2>2. OpcodeOf("ldimm") \in 0 .. 25 /\ opcodeNames[OpcodeOf("ldimm") + 1] = "ldimm"
    BY Opcodes
  <2> QED BY <1>3, <2>1, <2>2
<1>6. /\ LockWord(3) \in Word /\ Opcode(LockWord(3)) <= 25
     /\ IsShort(LockWord(3), "ldimm", 1, 0)
  <2>1. LockWord(3) = Short("ldimm", 1, 0)
    BY LockLines
  <2>2. OpcodeOf("ldimm") \in 0 .. 25 /\ opcodeNames[OpcodeOf("ldimm") + 1] = "ldimm"
    BY Opcodes
  <2> QED BY <1>3, <2>1, <2>2
<1>7. /\ LockWord(4) \in Word /\ Opcode(LockWord(4)) <= 25
     /\ IsLong(LockWord(4), "cmpxchg", 1, 2, -5)
  <2>1. LockWord(4) = Long("cmpxchg", 1, 2, -5)
    BY LockLines
  <2>2. OpcodeOf("cmpxchg") \in 0 .. 25 /\ opcodeNames[OpcodeOf("cmpxchg") + 1] = "cmpxchg"
    BY Opcodes
  <2>3. 1 \in 0 .. 15 /\ 2 \in 0 .. 15 /\ -5 \in -5 .. 1
    OBVIOUS
  <2> QED BY <1>4, <2>1, <2>2, <2>3, Zenon
<1>8. /\ LockWord(5) \in Word /\ Opcode(LockWord(5)) <= 25
     /\ IsLong(LockWord(5), "beq", 1, 3, 1)
  <2>1. LockWord(5) = Long("beq", 1, 3, 1)
    BY LockLines
  <2>2. OpcodeOf("beq") \in 0 .. 25 /\ opcodeNames[OpcodeOf("beq") + 1] = "beq"
    BY Opcodes
  <2>3. 1 \in 0 .. 15 /\ 3 \in 0 .. 15 /\ 1 \in -5 .. 1
    OBVIOUS
  <2> QED BY <1>4, <2>1, <2>2, <2>3, Zenon
<1>9. /\ LockWord(6) \in Word /\ Opcode(LockWord(6)) <= 25
     /\ IsShort(LockWord(6), "jmp", 0, -4)
  <2>1. LockWord(6) = Short("jmp", 0, -4)
    BY LockLines
  <2>2. OpcodeOf("jmp") \in 0 .. 25 /\ opcodeNames[OpcodeOf("jmp") + 1] = "jmp"
    BY Opcodes
  <2> QED BY <1>3, <2>1, <2>2
<1>10. /\ LockWord(7) \in Word /\ Opcode(LockWord(7)) <= 25
      /\ IsShort(LockWord(7), "load", 4, -7)
  <2>1. LockWord(7) = Short("load", 4, -7)
    BY LockLines
  <2>2. OpcodeOf("load") \in 0 .. 25 /\ opcodeNames[OpcodeOf("load") + 1] = "load"
    BY Opcodes
  <2> QED BY <1>3, <2>1, <2>2
<1>11. /\ LockWord(8) \in Word /\ Opcode(LockWord(8)) <= 25
      /\ IsLong(LockWord(8), "addi", 4, 2, 0)
  <2>1. LockWord(8) = Long("addi", 4, 2, 0)
    BY LockLines
  <2>2. OpcodeOf("addi") \in 0 .. 25 /\ opcodeNames[OpcodeOf("addi") + 1] = "addi"
    BY Opcodes
  <2>3. 4 \in 0 .. 15 /\ 2 \in 0 .. 15 /\ 0 \in -5 .. 1
    OBVIOUS
  <2> QED BY <1>4, <2>1, <2>2, <2>3, Zenon
<1>12. /\ LockWord(9) \in Word /\ Opcode(LockWord(9)) <= 25
      /\ IsShort(LockWord(9), "store", 4, -9)
  <2>1. LockWord(9) = Short("store", 4, -9)
    BY LockLines
  <2>2. OpcodeOf("store") \in 0 .. 25 /\ opcodeNames[OpcodeOf("store") + 1] = "store"
    BY Opcodes
  <2> QED BY <1>3, <2>1, <2>2
<1>13. /\ LockWord(10) \in Word /\ Opcode(LockWord(10)) <= 25
      /\ IsShort(LockWord(10), "store", 3, -11)
  <2>1. LockWord(10) = Short("store", 3, -11)
    BY LockLines
  <2>2. OpcodeOf("store") \in 0 .. 25 /\ opcodeNames[OpcodeOf("store") + 1] = "store"
    BY Opcodes
  <2> QED BY <1>3, <2>1, <2>2
<1>14. /\ LockWord(11) \in Word /\ Opcode(LockWord(11)) <= 25
      /\ IsShort(LockWord(11), "halt", 0, 0)
  <2>1. LockWord(11) = Short("halt", 0, 0)
    BY LockLines
  <2>2. OpcodeOf("halt") \in 0 .. 25 /\ opcodeNames[OpcodeOf("halt") + 1] = "halt"
    BY Opcodes
  <2> QED BY <1>3, <2>1, <2>2
<1>15. \A a \in 2 .. 11 : a \in {2, 3, 4, 5, 6, 7, 8, 9, 10, 11}
  OBVIOUS
<1> QED BY <1>5, <1>6, <1>7, <1>8, <1>9, <1>10, <1>11, <1>12, <1>13, <1>14, <1>15

\* The line a processor is at, about to fetch or to execute it.
Line(p) == IF at[p] = "fetch" THEN r[p][PC] ELSE r[p][PC] - 1

Active(p) == at[p] \in {"fetch", "execute"}

\* p has exchanged the lock and not given it back.
Holds(p) == Active(p) /\ (Line(p) \in 7 .. 10 \/ (Line(p) = 5 /\ r[p][1] = 0))

LockThread(p) ==
    /\ at[p] \in {"fetch", "execute", "ended", "never"}
    /\ Active(p) =>
           /\ Line(p) \in 2 .. 11
           /\ at[p] = "execute" => ir[p] = LockWord(Line(p))
           /\ r[p][3] = 0
           /\ Line(p) >= 3 => r[p][2] = 1
           /\ Line(p) = 4 => r[p][1] = 0

LockMemory ==
    /\ DOMAIN mem = 0 .. MAX_ADDR - 1
    /\ \A a \in 2 .. 11 : mem[a] = LockWord(a)
    /\ mem[0] \in {0, 1}
    /\ mem[0] = 1 <=> \E p \in Procs : Holds(p)

LockHeldOnce == \A p, q \in Procs : Holds(p) /\ Holds(q) => p = q

LockRunning == LockMemory /\ LockHeldOnce /\ \A p \in Procs : LockThread(p)

\* The caller executes the program on memory as it was loaded.
LockInv ==
    currentExecutable = LockFile =>
        /\ machine = "idle" /\ loaded /\ result = 0 => mem = Words(LockFile, MAX_ADDR)
        /\ machine = "running" => LockRunning

\* What a step of p may do to the lock.
LockPasses(p) ==
    \/ mem'[0] = mem[0] /\ Holds(p)' = Holds(p)
    \/ mem[0] = 0 /\ mem'[0] = 1 /\ Holds(p)'
    \/ Holds(p) /\ mem'[0] = 0 /\ ~Holds(p)'

LEMMA LockStep ==
    ASSUME LockRunning, NEW p \in Procs, UNCHANGED totalNumProcessors,
           \A q \in Procs \ {p} : at'[q] = at[q] /\ r'[q] = r[q] /\ ir'[q] = ir[q],
           DOMAIN mem' = DOMAIN mem, \A a \in 2 .. 11 : mem'[a] = mem[a],
           LockThread(p)', LockPasses(p)
    PROVE  LockRunning'
<1>1. Procs' = Procs
  BY DEF Procs
<1>2. ASSUME NEW q \in Procs \ {p} PROVE Holds(q)' <=> Holds(q)
  BY DEF Holds, Active, Line
<1>3. ASSUME NEW q \in Procs \ {p} PROVE LockThread(q)'
  <2>1. LockThread(q)
    BY DEF LockRunning
  <2>2. at'[q] = at[q] /\ r'[q] = r[q] /\ ir'[q] = ir[q]
    OBVIOUS
  <2> QED BY <2>1, <2>2 DEF LockThread, Active, Line
<1>4. \A q \in Procs : LockThread(q)'
  BY <1>3
<1>5. mem'[0] \in {0, 1} /\ (mem'[0] = 1 <=> \E q \in Procs : Holds(q)')
  BY <1>2 DEF LockPasses, LockRunning, LockMemory, LockHeldOnce
<1>6. \A q, s \in Procs : Holds(q)' /\ Holds(s)' => q = s
  BY <1>2 DEF LockPasses, LockRunning, LockMemory, LockHeldOnce
<1>7. DOMAIN mem' = 0 .. MAX_ADDR - 1 /\ \A a \in 2 .. 11 : mem'[a] = LockWord(a)
  BY DEF LockRunning, LockMemory
<1> QED BY <1>1, <1>4, <1>5, <1>6, <1>7 DEF LockRunning, LockMemory, LockHeldOnce

LEMMA LockFits ==
    ASSUME VInv, currentExecutable = LockFile
    PROVE  MAX_ADDR \in Nat /\ MAX_ADDR >= 12 /\ MAX_ADDR <= Top - 2
<1>1. Len(LockFile.objCode) = 12
  BY LockLines
<1>2. LockFile # NULL
  <2>1. NULL.objCode = <<>>
    BY DEF NULL
  <2> QED BY <1>1, <2>1
<1>3. LockFile \in Files
  BY <1>2 DEF VInv, CallerSound
<1>4. \A f \in Files : Len(f.objCode) <= MAX_ADDR
  BY VMAssumption
<1>5. MAX_ADDR \in 1 .. Top - 2 /\ Top \in Int
  BY VMAssumption, TopFacts
<1>6. 12 <= MAX_ADDR
  BY <1>1, <1>3, <1>4
<1> QED BY <1>5, <1>6

\* Where at[p] and the instruction decide, one handler can act.
LEMMA OneHandler ==
    ASSUME NEW p, threadWorker(p)
    PROVE  /\ at[p] = "fetch" => Fetch(p)
           /\ at[p] \in {"fetch", "execute", "call: FP", "call: result", "ret: FP",
                         "ret: PC", "ret: result"}
           /\ at[p] = "execute" =>
                  /\ Op(p) \in {"ldimm", "addi"} => Computes(p)
                  /\ Op(p) = "cmpxchg" => cmpxchg(p)
                  /\ Op(p) \in {"beq", "jmp"} => Branches(p)
                  /\ Op(p) = "load" => Loads(p)
                  /\ Op(p) = "store" => Stores(p)
                  /\ Op(p) = "halt" => halt(p)
BY DEF threadWorker, Executes, Running, Fetch, halt, Loads, Stores, Computes, Divides,
       Branches, cmpxchg, push, pop, Calls, CallSavesFP, CallClearsResult, Rets,
       RetReadsFP, RetReadsPC, RetPassesResult

LEMMA LockFetch ==
    ASSUME LockRuns, VInv, currentExecutable = LockFile, LockRunning,
           NEW p \in Procs, Fetch(p)
    PROVE  LockRunning'
<1>1. at[p] = "fetch" /\ UNCHANGED callerVars
  BY DEF Fetch, Running
<1>2. PICK a \in 2 .. 11 : a = r[p][PC] /\ a = Line(p)
  BY <1>1 DEF LockRunning, LockThread, Active, Line
<1>3. a \in DOMAIN mem /\ (a + 1) % Top = a + 1 /\ ~(a + 1 > MAX_ADDR)
  <2>1. a \in DOMAIN mem
    BY LockFits DEF LockRunning, LockMemory
  <2>2. Top \in Nat /\ MAX_ADDR \in Nat /\ 12 <= MAX_ADDR /\ MAX_ADDR <= Top - 2
    BY LockFits, TopFacts
  <2> QED BY <2>1, <2>2
<1>4. Fetched(p) = LockWord(a) /\ ~(Opcode(Fetched(p)) > 25)
  <2>1. LockWord(a) \in Word /\ Opcode(LockWord(a)) <= 25
    BY LockCode
  <2>2. Opcode(LockWord(a)) \in Int
    BY <2>1, TopFacts DEF Opcode
  <2>3. mem[a] = LockWord(a)
    BY DEF LockRunning, LockMemory
  <2>4. Fetched(p) = LockWord(a)
    BY <1>2, <2>3 DEF Fetched
  <2> QED BY <2>1, <2>2, <2>4
<1>5. /\ Registers(p, [i \in {PC} |-> a + 1]) /\ ir' = [ir EXCEPT ![p] = LockWord(a)]
      /\ Continues(p, "execute") /\ UNCHANGED <<machine, mem, temp, frames>>
  BY <1>2, <1>3, <1>4 DEF Fetch
<1> DEFINE f == [i \in {PC} |-> a + 1]
<1>6. DOMAIN f = {PC} /\ PC \in 0 .. 15 /\ PC = 15 /\ f[PC] = a + 1 /\ a + 1 \in Word
  BY LockFits, TopFacts DEF PC
<1>7. Registers(p, f)
  BY <1>5
<1> HIDE DEF f
<1>8. /\ r' \in [Procs -> [0 .. 15 -> Word]]
      /\ \A i \in 0 .. 15 : r'[p][i] = RegisterAfter(p, f, i)
      /\ \A q \in Procs \ {p} : r'[q] = r[q]
  BY <1>6, <1>7, RegistersTyped DEF VInv, ThreadsSound
<1>9. /\ r'[p][PC] = a + 1
      /\ r'[p][1] = r[p][1] /\ r'[p][2] = r[p][2] /\ r'[p][3] = r[p][3]
  BY <1>6, <1>8 DEF RegisterAfter
<1>10. /\ at'[p] = "execute" /\ ir'[p] = LockWord(a)
       /\ \A q \in Procs \ {p} : at'[q] = at[q] /\ ir'[q] = ir[q]
  BY <1>5 DEF Continues, VInv, ThreadsSound
<1>11. Line(p)' = a
  BY <1>9, <1>10 DEF Line
<1>12. LockThread(p)
  BY DEF LockRunning
<1>13. LockThread(p)'
  BY <1>1, <1>2, <1>9, <1>10, <1>11, <1>12 DEF LockThread, Active
<1>14. Holds(p)' = Holds(p)
  BY <1>1, <1>2, <1>9, <1>10, <1>11 DEF Holds, Active
<1> QED BY <1>1, <1>5, <1>8, <1>10, <1>13, <1>14, LockStep DEF LockPasses, callerVars

\* An instruction that leaves the processor at line a.
LEMMA LockGoes ==
    ASSUME VInv, LockRunning, NEW p \in Procs, UNCHANGED <<ir, callerVars>>,
           Continues(p, "fetch"), \A q \in Procs \ {p} : r'[q] = r[q],
           NEW a \in 2 .. 11, r'[p][PC] = a, r'[p][3] = 0,
           a >= 3 => r'[p][2] = 1, a = 4 => r'[p][1] = 0,
           DOMAIN mem' = DOMAIN mem, \A b \in 2 .. 11 : mem'[b] = mem[b],
           \/ mem'[0] = mem[0] /\ ((a \in 7 .. 10 \/ (a = 5 /\ r'[p][1] = 0)) <=> Holds(p))
           \/ mem[0] = 0 /\ mem'[0] = 1 /\ a = 5 /\ r'[p][1] = 0
           \/ Holds(p) /\ mem'[0] = 0 /\ a = 11
    PROVE  LockRunning'
<1>1. /\ at'[p] = "fetch" /\ \A q \in Procs \ {p} : at'[q] = at[q] /\ ir'[q] = ir[q]
  BY DEF Continues, VInv, ThreadsSound
<1>2. Line(p)' = a
  BY <1>1 DEF Line
<1>3. LockThread(p)'
  BY <1>1, <1>2 DEF LockThread, Active
<1>4. Holds(p)' <=> (a \in 7 .. 10 \/ (a = 5 /\ r'[p][1] = 0))
  BY <1>1, <1>2 DEF Holds, Active
<1>5. LockPasses(p)
  BY <1>4 DEF LockPasses, Holds
<1> QED BY <1>1, <1>3, <1>5, LockStep DEF callerVars

LEMMA SmallWord ==
    ASSUME VInv, currentExecutable = LockFile, NEW x \in 0 .. 12
    PROVE  x % Top = x /\ ~(x > MAX_ADDR) /\ x \in Word
BY LockFits, TopFacts

LEMMA LockAt ==
    ASSUME VInv, currentExecutable = LockFile, LockRunning, NEW p \in Procs, at[p] = "execute"
    PROVE  \E a \in 2 .. 11 :
               /\ a = Line(p) /\ r[p][PC] = a + 1 /\ ir[p] = LockWord(a)
               /\ Op(p) = Named(LockWord(a)) /\ r[p][3] = 0
               /\ a >= 3 => r[p][2] = 1
               /\ a = 4 => r[p][1] = 0
               /\ Holds(p) <=> a \in 7 .. 10 \/ (a = 5 /\ r[p][1] = 0)
               /\ \A k \in Int : a + 1 + k \in 0 .. 12 => Absolute(p, k) = a + 1 + k
<1>1. LockThread(p)
  BY DEF LockRunning
<1>2. PICK a : a = Line(p)
  OBVIOUS
<1>3. /\ a \in 2 .. 11 /\ ir[p] = LockWord(a) /\ r[p][3] = 0
      /\ a >= 3 => r[p][2] = 1
      /\ a = 4 => r[p][1] = 0
  BY <1>1, <1>2 DEF LockThread, Active
<1>4. r[p][PC] = a + 1
  <2>1. r[p][PC] \in Int
    BY TopFacts DEF VInv, ThreadsSound, PC
  <2>2. a = r[p][PC] - 1
    BY <1>2 DEF Line
  <2> QED BY <2>1, <2>2
<1>5. Op(p) = Named(LockWord(a))
  BY <1>3 DEF Op, Named
<1>6. Holds(p) <=> a \in 7 .. 10 \/ (a = 5 /\ r[p][1] = 0)
  BY <1>2 DEF Holds, Active
<1>7. ASSUME NEW k \in Int, a + 1 + k \in 0 .. 12 PROVE Absolute(p, k) = a + 1 + k
  BY <1>3, <1>4, <1>7, SmallWord DEF Absolute
<1> QED BY <1>2, <1>3, <1>4, <1>5, <1>6, <1>7

\* A register other than those of the lock is set, or one of them as it must be.
LEMMA LockComputes ==
    ASSUME VInv, FloatsAreWords, currentExecutable = LockFile, LockRunning, NEW p \in Procs,
           Computes(p), NEW a \in 2 .. 11, a = Line(p),
           \/ a = 2 /\ Reg1(ir[p]) = 2 /\ Computed(p) = 1
           \/ a = 3 /\ Reg1(ir[p]) = 1 /\ Computed(p) = 0
           \/ a = 8 /\ Reg1(ir[p]) = 4
    PROVE  LockRunning'
<1>1. /\ at[p] = "execute" /\ UNCHANGED <<ir, callerVars>>
      /\ Op(p) \in {"ldimm", "ldaddr", "getpid", "getpn", "addi", "subi", "muli",
                    "addf", "subf", "mulf"}
  BY HandlerFacts DEF Computes
<1>2. SetReg1(p, Computed(p)) /\ Done(p, 0) /\ UNCHANGED mem
  BY DEF Computes
<1>3. Computed(p) \in Word
  BY <1>1, ComputedWord
<1>4. /\ r'[p][Reg1(ir[p])] = Computed(p)
      /\ \A i \in 0 .. 15 \ {Reg1(ir[p])} : r'[p][i] = r[p][i]
      /\ \A q \in Procs \ {p} : r'[q] = r[q]
  BY <1>2, <1>3, SetReg1Typed DEF VInv, ThreadsSound
<1>5. /\ r[p][PC] = a + 1 /\ r[p][3] = 0 /\ (a >= 3 => r[p][2] = 1)
      /\ Holds(p) <=> a \in 7 .. 10 \/ (a = 5 /\ r[p][1] = 0)
  BY <1>1, LockAt
<1>6. Continues(p, "fetch")
  BY <1>2, LockFits DEF Done
<1>7. a + 1 \in 2 .. 11 /\ r'[p][PC] = a + 1 /\ r'[p][3] = 0
      /\ (a + 1 >= 3 => r'[p][2] = 1) /\ (a + 1 = 4 => r'[p][1] = 0)
  BY <1>4, <1>5 DEF PC
<1>8. (a + 1 \in 7 .. 10 \/ (a + 1 = 5 /\ r'[p][1] = 0)) <=> Holds(p)
  BY <1>5
<1> QED BY <1>1, <1>2, <1>4, <1>6, <1>7, <1>8, LockGoes

LEMMA LockCmpxchg ==
    ASSUME VInv, currentExecutable = LockFile, LockRunning, NEW p \in Procs,
           cmpxchg(p), 4 = Line(p), Reg1(ir[p]) = 1, Reg2(ir[p]) = 2, Offset(ir[p]) = -5
    PROVE  LockRunning'
<1>1. at[p] = "execute" /\ UNCHANGED <<ir, callerVars>>
  BY HandlerFacts DEF cmpxchg
<1>2. /\ r[p][PC] = 5 /\ r[p][3] = 0 /\ r[p][2] = 1 /\ r[p][1] = 0 /\ ~Holds(p)
      /\ Absolute(p, -5) = 0
  BY <1>1, LockAt
<1>3. 0 \in DOMAIN mem /\ ~(0 > MAX_ADDR) /\ mem[0] \in {0, 1}
  BY LockFits DEF LockRunning, LockMemory
<1>4. A(p) = 0 /\ B(p) = 1
  BY <1>2 DEF A, B
<1>5. Done(p, 0) /\ IF mem[0] = 0 THEN mem' = [mem EXCEPT ![0] = 1] /\ UNCHANGED r
                    ELSE SetReg1(p, mem[0]) /\ UNCHANGED mem
  BY <1>2, <1>3, <1>4 DEF cmpxchg
<1>6. Continues(p, "fetch")
  BY <1>5, LockFits DEF Done
<1>7. CASE mem[0] = 0
  <2>1. mem' = [mem EXCEPT ![0] = 1] /\ r' = r
    BY <1>5, <1>7
  <2>2. /\ mem'[0] = 1 /\ DOMAIN mem' = DOMAIN mem
        /\ \A b \in 2 .. 11 : mem'[b] = mem[b]
    BY <1>3, <2>1
  <2> QED BY <1>1, <1>2, <1>6, <1>7, <2>1, <2>2, LockGoes
<1>8. CASE mem[0] = 1
  <2>1. SetReg1(p, 1) /\ mem' = mem /\ 1 \in Word
    BY <1>5, <1>8, TopFacts
  <2>2. /\ r'[p][1] = 1 /\ \A i \in 0 .. 15 \ {1} : r'[p][i] = r[p][i]
        /\ \A q \in Procs \ {p} : r'[q] = r[q]
    BY <2>1, SetReg1Typed DEF VInv, ThreadsSound
  <2>3. r'[p][PC] = 5 /\ r'[p][3] = 0 /\ r'[p][2] = 1
    BY <1>2, <2>2 DEF PC
  <2> QED BY <1>1, <1>2, <1>6, <2>1, <2>2, <2>3, LockGoes
<1> QED BY <1>3, <1>7, <1>8

LEMMA LockBranches ==
    ASSUME VInv, currentExecutable = LockFile, LockRunning, NEW p \in Procs, Branches(p),
           \/ /\ 5 = Line(p) /\ Op(p) = "beq" /\ Reg1(ir[p]) = 1 /\ Reg2(ir[p]) = 3
              /\ Offset(ir[p]) = 1
           \/ 6 = Line(p) /\ Op(p) = "jmp" /\ Addr(ir[p]) = -4
    PROVE  LockRunning'
<1>1. at[p] = "execute" /\ UNCHANGED <<ir, callerVars>>
  BY HandlerFacts DEF Branches
<1>2. PICK target : target = IF Taken(p) THEN Absolute(p, IF Op(p) = "jmp" THEN Addr(ir[p])
                                                          ELSE Offset(ir[p]))
                             ELSE r[p][PC]
  OBVIOUS
<1> DEFINE f == [i \in {PC} |-> target]
<1>3. Registers(p, f) /\ Done(p, target) /\ mem' = mem
  BY <1>2 DEF Branches
<1>4. /\ Line(p) = 5 => /\ r[p][PC] = 6 /\ Absolute(p, 1) = 7
                        /\ Holds(p) <=> r[p][1] = 0
      /\ Line(p) = 6 => r[p][PC] = 7 /\ Absolute(p, -4) = 3 /\ ~Holds(p)
      /\ Line(p) \in {5, 6} => r[p][2] = 1 /\ r[p][3] = 0
  BY <1>1, LockAt
<1>5. CASE /\ 5 = Line(p) /\ Op(p) = "beq" /\ Reg1(ir[p]) = 1 /\ Reg2(ir[p]) = 3
           /\ Offset(ir[p]) = 1
  <2>1. A(p) = r[p][1] /\ B(p) = 0
    BY <1>4, <1>5 DEF A, B
  <2>2. Taken(p) <=> r[p][1] = 0
    BY <1>5, <2>1 DEF Taken
  <2>3. target = IF r[p][1] = 0 THEN 7 ELSE 6
    BY <1>2, <1>4, <1>5, <2>2
  <2> QED
    <3>1. target \in 2 .. 11 /\ (Holds(p) <=> target \in 7 .. 10) /\ target \notin {4, 5}
          /\ r[p][2] = 1 /\ r[p][3] = 0
      BY <1>4, <1>5, <2>3
    <3>2. DOMAIN f = {PC} /\ PC \in 0 .. 15 /\ PC = 15 /\ f[PC] = target /\ target \in Word
          /\ ~(target > MAX_ADDR)
      BY <3>1, LockFits, TopFacts DEF PC
    <3> HIDE DEF f
    <3>3. /\ \A i \in 0 .. 15 : r'[p][i] = RegisterAfter(p, f, i)
          /\ \A q \in Procs \ {p} : r'[q] = r[q]
      BY <1>3, <3>2, RegistersTyped DEF VInv, ThreadsSound
    <3>4. r'[p][PC] = target /\ r'[p][1] = r[p][1] /\ r'[p][2] = 1 /\ r'[p][3] = 0
      BY <3>1, <3>2, <3>3 DEF RegisterAfter
    <3>5. Continues(p, "fetch")
      BY <1>3, <3>2 DEF Done
    <3> QED BY <1>1, <1>3, <3>1, <3>3, <3>4, <3>5, LockGoes
<1>6. CASE 6 = Line(p) /\ Op(p) = "jmp" /\ Addr(ir[p]) = -4
  <2>1. target = 3 /\ ~Holds(p) /\ r[p][2] = 1 /\ r[p][3] = 0
    BY <1>2, <1>4, <1>6 DEF Taken
  <2>2. DOMAIN f = {PC} /\ PC \in 0 .. 15 /\ PC = 15 /\ f[PC] = target /\ target \in Word
        /\ ~(target > MAX_ADDR)
    BY <2>1, LockFits, TopFacts DEF PC
  <2> HIDE DEF f
  <2>3. /\ \A i \in 0 .. 15 : r'[p][i] = RegisterAfter(p, f, i)
        /\ \A q \in Procs \ {p} : r'[q] = r[q]
    BY <1>3, <2>2, RegistersTyped DEF VInv, ThreadsSound
  <2>4. r'[p][PC] = 3 /\ r'[p][2] = 1 /\ r'[p][3] = 0
    BY <2>1, <2>2, <2>3 DEF RegisterAfter
  <2>5. Continues(p, "fetch")
    BY <1>3, <2>2 DEF Done
  <2> QED BY <1>1, <1>3, <2>1, <2>3, <2>4, <2>5, LockGoes
<1> QED BY <1>5, <1>6

LEMMA LockLoads ==
    ASSUME VInv, currentExecutable = LockFile, LockRunning, NEW p \in Procs, Loads(p),
           7 = Line(p), Op(p) = "load", Reg1(ir[p]) = 4, Addr(ir[p]) = -7
    PROVE  LockRunning'
<1>1. at[p] = "execute" /\ UNCHANGED <<ir, callerVars>>
  BY HandlerFacts DEF Loads
<1>2. /\ r[p][PC] = 8 /\ r[p][3] = 0 /\ r[p][2] = 1 /\ Holds(p) /\ Absolute(p, -7) = 1
  BY <1>1, LockAt
<1>3. 1 \in DOMAIN mem /\ ~(1 > MAX_ADDR) /\ ~(0 > MAX_ADDR)
  BY LockFits DEF LockRunning, LockMemory
<1>4. SetReg1(p, mem[1]) /\ Done(p, 0) /\ mem' = mem
  BY <1>2, <1>3 DEF Loads
<1>5. mem[1] \in Word
  BY <1>3, MemWord DEF VInv
<1>6. /\ \A i \in 0 .. 15 \ {4} : r'[p][i] = r[p][i]
      /\ \A q \in Procs \ {p} : r'[q] = r[q]
  BY <1>4, <1>5, SetReg1Typed DEF VInv, ThreadsSound
<1>7. r'[p][PC] = 8 /\ r'[p][3] = 0 /\ r'[p][2] = 1
  BY <1>2, <1>6 DEF PC
<1>8. Continues(p, "fetch")
  BY <1>3, <1>4 DEF Done
<1> QED BY <1>1, <1>2, <1>4, <1>6, <1>7, <1>8, LockGoes

LEMMA LockStores ==
    ASSUME VInv, currentExecutable = LockFile, LockRunning, NEW p \in Procs, Stores(p),
           Op(p) = "store",
           \/ 9 = Line(p) /\ Addr(ir[p]) = -9
           \/ 10 = Line(p) /\ Reg1(ir[p]) = 3 /\ Addr(ir[p]) = -11
    PROVE  LockRunning'
<1>1. at[p] = "execute" /\ UNCHANGED <<ir, callerVars>>
  BY HandlerFacts DEF Stores
<1>2. /\ Line(p) = 9 => r[p][PC] = 10 /\ Absolute(p, -9) = 1
      /\ Line(p) = 10 => r[p][PC] = 11 /\ Absolute(p, -11) = 0
      /\ Line(p) \in {9, 10} => Holds(p) /\ r[p][2] = 1 /\ r[p][3] = 0
  BY <1>1, LockAt
<1>3. {0, 1} \subseteq DOMAIN mem /\ ~(1 > MAX_ADDR) /\ ~(0 > MAX_ADDR)
  BY LockFits DEF LockRunning, LockMemory
<1>4. PICK a \in {0, 1} : /\ a = Absolute(p, Addr(ir[p]))
                          /\ \/ a = 1 /\ Line(p) = 9
                             \/ a = 0 /\ Line(p) = 10 /\ A(p) = 0
  BY <1>2 DEF A
<1>5. mem' = [mem EXCEPT ![a] = A(p)] /\ Done(p, 0) /\ r' = r
  BY <1>3, <1>4 DEF Stores
<1>6. Continues(p, "fetch")
  BY <1>3, <1>5 DEF Done
<1>7. DOMAIN mem' = DOMAIN mem /\ \A b \in 2 .. 11 : mem'[b] = mem[b]
  BY <1>4, <1>5 DEF LockRunning, LockMemory
<1>8. CASE a = 1 /\ Line(p) = 9
  <2>1. mem'[0] = mem[0]
    BY <1>3, <1>5, <1>8
  <2> QED BY <1>1, <1>2, <1>5, <1>6, <1>7, <1>8, <2>1, LockGoes
<1>9. CASE a = 0 /\ Line(p) = 10 /\ A(p) = 0
  <2>1. mem'[0] = 0
    BY <1>3, <1>5, <1>9
  <2> QED BY <1>1, <1>2, <1>5, <1>6, <1>7, <1>9, <2>1, LockGoes
<1> QED BY <1>4, <1>8, <1>9

LEMMA LockHalts ==
    ASSUME VInv, currentExecutable = LockFile, LockRunning, NEW p \in Procs, halt(p),
           11 = Line(p)
    PROVE  LockRunning'
<1>1. at[p] = "execute" /\ UNCHANGED <<ir, callerVars, mem, r>> /\ Ends(p, NORMAL_TERMINATION)
  BY HandlerFacts DEF halt
<1>2. ~Holds(p)
  BY <1>1, LockAt
<1>3. at'[p] = "ended" /\ \A q \in Procs \ {p} : at'[q] = at[q]
  BY <1>1 DEF Ends, VInv, ThreadsSound
<1>4. LockThread(p)' /\ ~Holds(p)'
  BY <1>3 DEF LockThread, Holds, Active
<1>5. LockPasses(p)
  BY <1>1, <1>2, <1>4 DEF LockPasses, Holds
<1> QED BY <1>1, <1>3, <1>4, <1>5, LockStep DEF callerVars

LEMMA LockSteps ==
    ASSUME LockRuns, FloatsAreWords, VInv, currentExecutable = LockFile, LockRunning,
           NEW p \in Procs, threadWorker(p)
    PROVE  LockRunning'
<1>1. at[p] \in {"fetch", "execute"}
  BY OneHandler DEF LockRunning, LockThread
<1>2. CASE at[p] = "fetch"
  BY <1>2, OneHandler, LockFetch
<1>3. CASE at[p] = "execute"
  <2>1. PICK a \in 2 .. 11 : a = Line(p) /\ ir[p] = LockWord(a) /\ Op(p) = Named(LockWord(a))
                             /\ r[p][2] = r[p][2]
    BY <1>3, LockAt
  <2>2. a \in {2, 3, 4, 5, 6, 7, 8, 9, 10, 11}
    OBVIOUS
  <2>3. CASE a \in {2, 3}
    <3>1. /\ Op(p) = "ldimm" /\ Reg1(ir[p]) = IF a = 2 THEN 2 ELSE 1
          /\ Addr(ir[p]) = IF a = 2 THEN 1 ELSE 0
      BY <2>1, <2>3, LockCode DEF IsShort
    <3>2. Computed(p) = Addr(ir[p])
      <4>1. Computed(p) = Addr(ir[p]) % Top
        BY <3>1 DEF Computed
      <4> QED BY <3>1, <4>1, SmallWord
    <3>3. Computes(p)
      BY <1>3, <3>1, OneHandler
    <3> QED BY <2>1, <2>3, <3>1, <3>2, <3>3, LockComputes
  <2>4. CASE a = 4
    <3>1. /\ Op(p) = "cmpxchg" /\ Reg1(ir[p]) = 1 /\ Reg2(ir[p]) = 2 /\ Offset(ir[p]) = -5
      BY <2>1, <2>4, LockCode DEF IsLong
    <3> QED BY <1>3, <2>1, <2>4, <3>1, OneHandler, LockCmpxchg
  <2>5. CASE a = 5
    <3>1. /\ Op(p) = "beq" /\ Reg1(ir[p]) = 1 /\ Reg2(ir[p]) = 3 /\ Offset(ir[p]) = 1
      BY <2>1, <2>5, LockCode DEF IsLong
    <3> QED BY <1>3, <2>1, <2>5, <3>1, OneHandler, LockBranches
  <2>6. CASE a = 6
    <3>1. Op(p) = "jmp" /\ Addr(ir[p]) = -4
      BY <2>1, <2>6, LockCode DEF IsShort
    <3> QED BY <1>3, <2>1, <2>6, <3>1, OneHandler, LockBranches
  <2>7. CASE a = 7
    <3>1. Op(p) = "load" /\ Reg1(ir[p]) = 4 /\ Addr(ir[p]) = -7
      BY <2>1, <2>7, LockCode DEF IsShort
    <3> QED BY <1>3, <2>1, <2>7, <3>1, OneHandler, LockLoads
  <2>8. CASE a = 8
    <3>1. Op(p) = "addi" /\ Reg1(ir[p]) = 4
      BY <2>1, <2>8, LockCode DEF IsLong
    <3> QED BY <1>3, <2>1, <2>8, <3>1, OneHandler, LockComputes
  <2>9. CASE a \in {9, 10}
    <3>1. /\ Op(p) = "store"
          /\ a = 9 => Addr(ir[p]) = -9
          /\ a = 10 => Reg1(ir[p]) = 3 /\ Addr(ir[p]) = -11
      BY <2>1, <2>9, LockCode DEF IsShort
    <3> QED BY <1>3, <2>1, <2>9, <3>1, OneHandler, LockStores
  <2>10. CASE a = 11
    <3>1. Op(p) = "halt"
      BY <2>1, <2>10, LockCode DEF IsShort
    <3> QED BY <1>3, <2>1, <2>10, <3>1, OneHandler, LockHalts
  <2> QED BY <2>2, <2>3, <2>4, <2>5, <2>6, <2>7, <2>8, <2>9, <2>10
<1> QED BY <1>1, <1>2, <1>3

-----------------------------------------------------------------------------
(* The caller and the lock *)

\* While threads run, the caller waits.
LEMMA WorkerMachine ==
    ASSUME NEW p, threadWorker(p)
    PROVE  machine = "running" /\ machine' # "idle" /\ UNCHANGED callerVars
<1>1. machine = "running" /\ UNCHANGED callerVars
  BY DEF threadWorker, Executes, Running, Fetch, halt, Loads, Stores, Computes, Divides,
     Branches, cmpxchg, push, pop, Calls, CallSavesFP, CallClearsResult, Rets,
     RetReadsFP, RetReadsPC, RetPassesResult
<1>2. CASE Fetch(p) \/ halt(p)
  BY <1>1, <1>2 DEF Fetch, halt, Fault
<1>3. CASE Loads(p) \/ Stores(p) \/ Computes(p) \/ Divides(p)
  BY <1>1, <1>3 DEF Loads, Stores, Computes, Divides, Fault, Refuses, Done
<1>4. CASE Branches(p) \/ cmpxchg(p) \/ push(p) \/ pop(p)
  BY <1>1, <1>4 DEF Branches, cmpxchg, push, pop, Fault, Refuses, Done
<1>5. CASE Calls(p) \/ CallSavesFP(p) \/ CallClearsResult(p)
  BY <1>1, <1>5 DEF Calls, CallSavesFP, CallClearsResult, Fault, Refuses, Done
<1>6. CASE Rets(p) \/ RetReadsFP(p) \/ RetReadsPC(p) \/ RetPassesResult(p)
  BY <1>1, <1>6 DEF Rets, RetReadsFP, RetReadsPC, RetPassesResult, Pops, Fault, Refuses
<1> QED BY <1>1, <1>2, <1>3, <1>4, <1>5, <1>6 DEF threadWorker

\* All registers but SP and PC are zero when a processor starts.
LEMMA LockStarts ==
    ASSUME VInv, LockInv, currentExecutable = LockFile,
           NEW n \in Counts(currentExecutable), execute(n)
    PROVE  LockRunning'
<1>1. mem' = mem /\ mem = Words(LockFile, MAX_ADDR)
  BY DEF LockInv, execute
<1>2. /\ DOMAIN mem = 0 .. MAX_ADDR - 1 /\ mem[0] = 0
      /\ \A a \in 2 .. 11 : mem[a] = LockWord(a)
  <2>1. MAX_ADDR \in Nat /\ MAX_ADDR >= 12
    BY LockFits
  <2>2. /\ Len(LockFile.objCode) = 12 /\ LockFile.objCode[0 + 1] = 0
        /\ \A a \in 2 .. 11 : LockFile.objCode[a + 1] = LockWord(a)
    BY LockLines DEF LockWord
  <2>3. mem = [a \in 0 .. MAX_ADDR - 1 |->
                  IF a < 12 THEN LockFile.objCode[a + 1] ELSE 0]
    BY <1>1, <2>2 DEF Words
  <2> QED BY <2>1, <2>2, <2>3
<1>3. n \in 1 .. 16 /\ Procs' = 0 .. n - 1
  <2>1. n \in 1 .. 16
    BY LoadedFile, VMAssumption DEF VInv, execute
  <2> QED BY <2>1 DEF Procs, execute
<1>4. ASSUME NEW p \in 0 .. n - 1
      PROVE  /\ at'[p] \in {"fetch", "never"}
             /\ r'[p][PC] = 2 /\ r'[p][3] = 0
  <2>1. at'[p] \in {"fetch", "never"}
    BY DEF execute
  <2>2. getAddress(currentExecutable, "mainx20") = 2
    BY LockLines
  <2>3. r' = [q \in 0 .. n - 1 |-> [i \in 0 .. 15 |->
                IF i = SP THEN initialSP[q]
                ELSE IF i = PC THEN getAddress(currentExecutable, "mainx20") ELSE 0]]
    BY DEF execute
  <2> QED BY <2>1, <2>2, <2>3 DEF PC, SP
<1>5. ASSUME NEW p \in 0 .. n - 1
      PROVE  LockThread(p)' /\ ~Holds(p)'
  <2>1. at'[p] \in {"fetch", "never"} /\ r'[p][PC] = 2 /\ r'[p][3] = 0
    BY <1>4
  <2>2. Active(p)' => Line(p)' = 2
    BY <2>1 DEF Active, Line
  <2>3. LockThread(p)'
    BY <2>1, <2>2 DEF LockThread, Active
  <2> QED BY <2>2, <2>3 DEF Holds
<1>6. LockMemory'
  BY <1>1, <1>2, <1>3, <1>5 DEF LockMemory
<1>7. LockHeldOnce'
  BY <1>3, <1>5 DEF LockHeldOnce
<1> QED BY <1>3, <1>5, <1>6, <1>7 DEF LockRunning

LEMMA LockUndisturbed ==
    ASSUME LockRunning, UNCHANGED <<totalNumProcessors, mem, r, at, ir>>
    PROVE  LockRunning'
<1>1. Procs' = Procs
  BY DEF Procs
<1>2. \A p \in Procs : (Holds(p)' <=> Holds(p)) /\ (LockThread(p)' <=> LockThread(p))
  BY DEF Holds, LockThread, Active, Line
<1>3. LockMemory'
  BY <1>1, <1>2 DEF LockRunning, LockMemory
<1>4. LockHeldOnce'
  BY <1>1, <1>2 DEF LockRunning, LockHeldOnce
<1> QED BY <1>1, <1>2, <1>3, <1>4 DEF LockRunning

LEMMA LockInductive ==
    ASSUME FloatsAreWords, LockRuns
    PROVE  /\ Init => LockInv
           /\ VInv /\ LockInv /\ [Next]_vars => LockInv'
<1>1. Init => LockInv
  BY DEF Init, LockInv
<1>2. ASSUME VInv, LockInv, [Next]_vars PROVE LockInv'
  <2>1. CASE UNCHANGED vars
    <3>1. UNCHANGED <<machine, currentExecutable, loaded, result, totalNumProcessors,
                      mem, r, at, ir>>
      BY <2>1 DEF vars
    <3> QED BY <1>2, <3>1, LockUndisturbed DEF LockInv
  <2>2. CASE loadMissingFile
    BY <2>2 DEF loadMissingFile, LockInv
  <2>3. ASSUME NEW f \in Files, loadExecutableFile(f) PROVE LockInv'
    <3>1. /\ machine' = "idle" /\ currentExecutable' = f
          /\ loaded' => mem' = Words(f, MAX_ADDR)
      BY <2>3 DEF loadExecutableFile
    <3> QED BY <3>1 DEF LockInv
  <2>4. ASSUME NEW poke \in Pokes(currentExecutable), putWord(poke[1], poke[2])
        PROVE  LockInv'
    <3>1. machine' = "idle" /\ currentExecutable' = currentExecutable
      BY <2>4 DEF putWord
    <3>2. currentExecutable # LockFile
      BY <2>4 DEF LockRuns
    <3> QED BY <3>1, <3>2 DEF LockInv
  <2>5. ASSUME NEW n \in Counts(currentExecutable), execute(n) PROVE LockInv'
    <3>1. machine' = "running" /\ currentExecutable' = currentExecutable
      BY <2>5 DEF execute
    <3>2. currentExecutable = LockFile => LockRunning'
      BY <1>2, <2>5, LockStarts
    <3> QED BY <3>1, <3>2 DEF LockInv
  <2>6. CASE executeReturns
    BY <2>6 DEF executeReturns, LockInv
  <2>7. ASSUME NEW p \in Procs, threadWorker(p) PROVE LockInv'
    <3>1. machine = "running" /\ machine' # "idle" /\ UNCHANGED callerVars
      BY <2>7, WorkerMachine
    <3>2. currentExecutable = LockFile => LockRunning'
      BY <1>2, <2>7, <3>1, LockSteps DEF LockInv
    <3> QED BY <3>1, <3>2 DEF LockInv, callerVars
  <2>8. CASE Ended
    BY <2>1, <2>8 DEF Ended
  <2> QED BY <1>2, <2>1, <2>2, <2>3, <2>4, <2>5, <2>6, <2>7, <2>8 DEF Next
<1> QED BY <1>1, <1>2

LEMMA LockExcludes == VInv /\ LockInv => MutualExclusion
<1> SUFFICES ASSUME VInv, LockInv, Executing(LockFile), NEW p \in Procs, NEW q \in Procs,
                    p # q,
                    \A i \in {p, q} : \/ at[i] = "fetch" /\ r[i][PC] \in 7 .. 10
                                      \/ at[i] = "execute" /\ r[i][PC] \in 8 .. 11
             PROVE  FALSE
  BY DEF MutualExclusion
<1>1. LockHeldOnce
  BY DEF LockInv, LockRunning, Executing
<1>2. ASSUME NEW i \in {p, q} PROVE Holds(i)
  <2>1. \/ at[i] = "fetch" /\ r[i][PC] \in 7 .. 10
        \/ at[i] = "execute" /\ r[i][PC] \in 8 .. 11
    OBVIOUS
  <2>2. CASE at[i] = "fetch" /\ r[i][PC] \in 7 .. 10
    BY <2>2 DEF Holds, Active, Line
  <2>3. CASE at[i] = "execute" /\ r[i][PC] \in 8 .. 11
    <3>1. r[i][PC] - 1 \in 7 .. 10
      BY <2>1, <2>3
    <3> QED BY <2>3, <3>1 DEF Holds, Active, Line
  <2> QED BY <2>1, <2>2, <2>3
<1> QED BY <1>1, <1>2 DEF LockHeldOnce

\* A spin lock made with cmpxchg, beq and a plain store excludes, however many
\* processors of the machine run the program (opHandlers.c:485-512).
THEOREM SpinLockExcludes == FloatsAreWords /\ LockRuns /\ Spec => []MutualExclusion
<1> SUFFICES ASSUME FloatsAreWords, LockRuns PROVE Spec => []MutualExclusion
  OBVIOUS
<1>1. Init => VInv /\ LockInv
  BY VInvInductive, LockInductive
<1>2. (VInv /\ LockInv) /\ [Next]_vars => (VInv /\ LockInv)'
  BY VInvInductive, LockInductive
<1>3. VInv /\ LockInv => MutualExclusion
  BY LockExcludes
<1> QED BY <1>1, <1>2, <1>3, PTL DEF Spec
=============================================================================
