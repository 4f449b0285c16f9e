--------------------------------- MODULE VM ---------------------------------
(***************************************************************************)
(* Assignment3/vmx20.c and opHandlers.c: a virtual machine of several      *)
(* processors, each a thread with registers of its own, on one memory.     *)
(*                                                                         *)
(* A processor takes a step to fetch a word, which it does without the     *)
(* lock, and then a step for every access to the memory under the lock     *)
(* memMut; what it does to its own registers in between goes with the      *)
(* access before it.  The caller of the machine (the test harness) is      *)
(* external: it writes words and calls execute, again and again.           *)
(*                                                                         *)
(* Words and object files are those of ObjectFile.                         *)
(***************************************************************************)
EXTENDS ObjectFile, FiniteSets

CONSTANTS
    MAX_ADDR,           \* the number of words in the memory
    Files,              \* the object files there are
    initialSP,          \* the stack pointers the caller gives
    Counts(_),          \* how many processors it asks for, given the file
    Pokes(_),           \* the pairs <<addr, word>> it passes to putWord
    StartsFail,         \* whether pthread_create may fail
    Float(_, _, _)      \* the words that float arithmetic yields

FP == 13
SP == 14
PC == 15

ASSUME VMAssumption ==
    /\ MAX_ADDR \in 1 .. Top - 2
    /\ initialSP \in [0 .. 15 -> Word]
    /\ \A f \in Files :
           /\ f \in ObjFile /\ Len(f.objCode) <= MAX_ADDR
           /\ Counts(f) \subseteq 1 .. 16
           /\ Pokes(f) \subseteq (0 .. MAX_ADDR - 1) \X Word
    /\ StartsFail \in BOOLEAN

CONTINUE_PROCESSING == 1
NORMAL_TERMINATION == 0
DIVIDE_BY_ZERO == -1
ADDRESS_OUT_OF_RANGE == -2
ILLEGAL_INSTRUCTION == -3

VARIABLES
    machine,        \* "idle", "running" while execute runs, or "fault"
    currentExecutable,
    loaded,         \* whether loadExecutableFile returned 1 last
    totalNumProcessors,
    mem,            \* the words at objCode
    r,              \* the registers, r[pid][reg]
    at,             \* where a processor is: "fetch", "execute", a later part
                    \* of call or ret, "ended", or "never" if not started
    ir,             \* the word it has fetched
    temp,           \* the local variables of ret
    terminationStatus,
    result,         \* what execute returned, until the caller's next call
    frames          \* the calls not returned from, with the registers then

vars == <<machine, currentExecutable, loaded, totalNumProcessors, mem, r, at, ir,
          temp, terminationStatus, result, frames>>

callerVars == <<currentExecutable, loaded, totalNumProcessors, result>>
processorVars == <<totalNumProcessors, r, at, ir, temp, terminationStatus, frames>>

Procs == 0 .. totalNumProcessors - 1

-----------------------------------------------------------------------------
(* Words *)

Signed(w) == IF w >= Top \div 2 THEN w - Top ELSE w

\* C's integer division, which truncates.
Quotient(a, b) ==
    LET Abs(x) == IF x < 0 THEN -x ELSE x
        q == Abs(a) \div Abs(b)
    IN  IF (a < 0) = (b < 0) THEN q ELSE -q

\* -0.0 is zero, too.
IsZeroFloat(w) == w \in {0, Top \div 2}

\* The words with which processor p's instruction works.
Op(p) == opcodeNames[Opcode(ir[p]) + 1]
A(p) == r[p][Reg1(ir[p])]
B(p) == r[p][Reg2(ir[p])]

\* Bug: addresses relative to the PC as signed as the others.
Absolute_signed(p, offset) == r[p][PC] + offset

\* Addresses relative to the PC are unsigned; those relative to a register
\* signed.
Absolute(p, offset) == (r[p][PC] + offset) % Top
Indirect(p) == Signed((B(p) + Offset(ir[p])) % Top)

-----------------------------------------------------------------------------
NULL == [inSymbols |-> <<>>, outSymbols |-> <<>>, objCode |-> <<>>]

Init ==
    /\ machine = "idle"
    /\ currentExecutable = NULL
    /\ loaded = FALSE
    /\ totalNumProcessors = 0
    /\ mem = <<>>
    /\ r = <<>>
    /\ at = <<>>
    /\ ir = <<>>
    /\ temp = <<>>
    /\ terminationStatus = <<>>
    /\ result = 0
    /\ frames = <<>>

Refused(f) ==
    \/ f.outSymbols # <<>>
    \/ f.objCode = <<>>
    \/ ~Defines(f, "mainx20")

Words(f, size) ==
    [a \in 0 .. size - 1 |-> IF a < Len(f.objCode) THEN f.objCode[a + 1] ELSE 0]

\* A file that is refused has become the current one all the same, with a
\* memory of no more than its code.
loadExecutableFile(f) ==
    /\ machine = "idle"
    /\ currentExecutable' = f
    /\ loaded' = ~Refused(f)
    /\ mem' = Words(f, IF Refused(f) THEN Len(f.objCode) ELSE MAX_ADDR)
    /\ result' = 0
    /\ UNCHANGED <<machine, processorVars>>

loadMissingFile ==
    /\ machine = "idle"
    /\ loaded' = FALSE
    /\ result' = 0
    /\ UNCHANGED <<machine, currentExecutable, mem, processorVars>>

putWord(a, w) ==
    /\ machine = "idle" /\ loaded
    /\ mem' = [mem EXCEPT ![a] = w]
    /\ result' = 0
    /\ UNCHANGED <<machine, currentExecutable, loaded, processorVars>>

\* All registers zero but SP and PC, the caller's statuses zero, and a thread
\* for every processor, as far as threads can be created.  The caller loads or
\* writes something between two executions.
execute(n) ==
    /\ machine = "idle" /\ loaded /\ result = 0
    /\ machine' = "running"
    /\ totalNumProcessors' = n
    /\ r' = [p \in 0 .. n - 1 |-> [i \in 0 .. 15 |->
                IF i = SP THEN initialSP[p]
                ELSE IF i = PC THEN getAddress(currentExecutable, "mainx20") ELSE 0]]
    /\ \E started \in IF StartsFail THEN SUBSET (0 .. n - 1) ELSE {0 .. n - 1} :
           at' = [p \in 0 .. n - 1 |-> IF p \in started THEN "fetch" ELSE "never"]
    /\ ir' = [p \in 0 .. n - 1 |-> 0]
    /\ temp' = [p \in 0 .. n - 1 |-> <<>>]
    /\ frames' = [p \in 0 .. n - 1 |-> <<>>]
    /\ terminationStatus' = [p \in 0 .. n - 1 |-> NORMAL_TERMINATION]
    /\ result' = 0
    /\ UNCHANGED <<currentExecutable, loaded, mem>>

AllStarted == \A p \in Procs : at[p] # "never"

\* Bug: only the first processor is waited for.
executeReturns_early ==
    /\ machine = "running"
    /\ at[0] \in {"ended", "never"}
    /\ machine' \in IF AllStarted THEN {"idle"} ELSE {"idle", "fault"}
    /\ result' = 1
    /\ UNCHANGED <<currentExecutable, loaded, totalNumProcessors, mem, r, at, ir,
                   temp, terminationStatus, frames>>

\* Every thread has been joined.  For a thread that was not created that is
\* undefined: pthread_join returns an error, or follows whatever the id is.
executeReturns ==
    /\ machine = "running"
    /\ \A p \in Procs : at[p] \in {"ended", "never"}
    /\ machine' \in IF AllStarted THEN {"idle"} ELSE {"idle", "fault"}
    /\ result' = 1
    /\ UNCHANGED <<currentExecutable, loaded, totalNumProcessors, mem, r, at, ir,
                   temp, terminationStatus, frames>>

-----------------------------------------------------------------------------
(* Steps of the processors *)

Running(p, where) == machine = "running" /\ at[p] = where

\* The thread ends with this status.
Ends(p, status) ==
    /\ at' = [at EXCEPT ![p] = "ended"]
    /\ terminationStatus' = [terminationStatus EXCEPT ![p] = status]

Continues(p, where) ==
    /\ at' = [at EXCEPT ![p] = where]
    /\ UNCHANGED terminationStatus

\* Registers as given by f where that is defined.
Registers(p, f) ==
    r' = [r EXCEPT ![p] = [i \in 0 .. 15 |-> IF i \in DOMAIN f THEN f[i] ELSE @[i]]]

SetReg1(p, w) == Registers(p, [i \in {Reg1(ir[p])} |-> w])

\* An access outside the memory, or one that the hardware traps.
Fault == machine' = "fault" /\ UNCHANGED <<mem, r, at, ir, temp, terminationStatus, frames>>

\* Bug: instructions fetched from the file as it was loaded.
Fetched_fromFile(p) == currentExecutable.objCode[r[p][PC] + 1]

Fetched(p) == mem[r[p][PC]]

\* The word at PC is read first, and only then is PC looked at.
Fetch(p) ==
    /\ Running(p, "fetch")
    /\ UNCHANGED callerVars
    /\ LET next == (r[p][PC] + 1) % Top
       IN  IF r[p][PC] \notin DOMAIN mem THEN Fault
           ELSE /\ Registers(p, [i \in {PC} |-> next])
                /\ ir' = [ir EXCEPT ![p] = Fetched(p)]
                /\ IF next > MAX_ADDR THEN Ends(p, ADDRESS_OUT_OF_RANGE)
                   ELSE IF Opcode(Fetched(p)) > 25 THEN Ends(p, ILLEGAL_INSTRUCTION)
                   ELSE Continues(p, "execute")
                /\ UNCHANGED <<machine, mem, temp, frames>>

\* What the handlers below have in common, for the opcodes in ops.
Executes(p, ops) ==
    /\ Running(p, "execute")
    /\ Op(p) \in ops
    /\ UNCHANGED <<ir, callerVars>>

halt(p) ==
    /\ Executes(p, {"halt"})
    /\ Ends(p, NORMAL_TERMINATION)
    /\ UNCHANGED <<machine, mem, r, temp, frames>>

\* The handler returns an error before it did anything.
Refuses(p, status) == Ends(p, status) /\ UNCHANGED <<machine, mem, r, temp, frames>>

\* It is done, and the address it leaves in PC or SP is looked at, if any.
Done(p, address) ==
    /\ IF address > MAX_ADDR THEN Ends(p, ADDRESS_OUT_OF_RANGE) ELSE Continues(p, "fetch")
    /\ UNCHANGED <<machine, temp>>

\* load, ldind
Loads(p) ==
    /\ Executes(p, {"load", "ldind"})
    /\ LET a == IF Op(p) = "load" THEN Absolute(p, Addr(ir[p])) ELSE Indirect(p)
       IN  IF a > MAX_ADDR THEN Refuses(p, ADDRESS_OUT_OF_RANGE)
           ELSE IF a \notin DOMAIN mem THEN Fault
           ELSE SetReg1(p, mem[a]) /\ Done(p, 0) /\ UNCHANGED <<mem, frames>>

\* store, stind
Stores(p) ==
    /\ Executes(p, {"store", "stind"})
    /\ LET a == IF Op(p) = "store" THEN Absolute(p, Addr(ir[p])) ELSE Indirect(p)
       IN  IF a > MAX_ADDR THEN Refuses(p, ADDRESS_OUT_OF_RANGE)
           ELSE IF a \notin DOMAIN mem THEN Fault
           ELSE mem' = [mem EXCEPT ![a] = A(p)] /\ Done(p, 0) /\ UNCHANGED <<r, frames>>

\* What ldimm, ldaddr, getpid, getpn and the arithmetic put into reg1.
Computed(p) ==
    CASE Op(p) = "ldimm" -> Addr(ir[p]) % Top
      [] Op(p) = "ldaddr" -> Absolute(p, Addr(ir[p]))
      [] Op(p) = "getpid" -> p
      [] Op(p) = "getpn" -> totalNumProcessors
      [] Op(p) = "addi" -> (A(p) + B(p)) % Top
      [] Op(p) = "subi" -> (A(p) - B(p)) % Top
      [] Op(p) = "muli" -> (Signed(A(p)) * Signed(B(p))) % Top
      [] Op(p) = "divi" -> Quotient(Signed(A(p)), Signed(B(p))) % Top
      [] OTHER -> Float(Op(p), A(p), B(p))

Computes(p) ==
    /\ Executes(p, {"ldimm", "ldaddr", "getpid", "getpn", "addi", "subi", "muli",
                    "addf", "subf", "mulf"})
    /\ SetReg1(p, Computed(p))
    /\ Done(p, 0)
    /\ UNCHANGED <<mem, frames>>

\* The one quotient that is no word is trapped.
Divides(p) ==
    /\ Executes(p, {"divi", "divf"})
    /\ IF IF Op(p) = "divi" THEN B(p) = 0 ELSE IsZeroFloat(B(p))
       THEN Refuses(p, DIVIDE_BY_ZERO)
       ELSE IF Op(p) = "divi" /\ A(p) = Top \div 2 /\ B(p) = Top - 1 THEN Fault
       ELSE SetReg1(p, Computed(p)) /\ Done(p, 0) /\ UNCHANGED <<mem, frames>>

Taken(p) ==
    \/ Op(p) = "blt" /\ Signed(A(p)) < Signed(B(p))
    \/ Op(p) = "bgt" /\ Signed(A(p)) > Signed(B(p))
    \/ Op(p) = "beq" /\ A(p) = B(p)
    \/ Op(p) = "jmp"

Branches(p) ==
    /\ Executes(p, {"blt", "bgt", "beq", "jmp"})
    /\ LET offset == IF Op(p) = "jmp" THEN Addr(ir[p]) ELSE Offset(ir[p])
           target == IF Taken(p) THEN Absolute(p, offset) ELSE r[p][PC]
       IN  Registers(p, [i \in {PC} |-> target]) /\ Done(p, target)
    /\ UNCHANGED <<mem, frames>>

\* Bug: the comparison and the exchange under the lock one after the other.
cmpxchg_split(p) ==
    /\ Executes(p, {"cmpxchg"})
    /\ LET a == Absolute(p, Offset(ir[p]))
       IN  IF temp[p] = <<>>
           THEN IF A(p) = mem[a]
                THEN temp' = [temp EXCEPT ![p] = <<a>>]
                     /\ UNCHANGED <<machine, mem, r, at, terminationStatus, frames>>
                ELSE SetReg1(p, mem[a]) /\ Done(p, 0) /\ UNCHANGED <<mem, frames>>
           ELSE /\ mem' = [mem EXCEPT ![a] = B(p)]
                /\ temp' = [temp EXCEPT ![p] = <<>>]
                /\ Continues(p, "fetch")
                /\ UNCHANGED <<machine, r, frames>>

\* Comparison and exchange in one hold of the lock.
cmpxchg(p) ==
    /\ Executes(p, {"cmpxchg"})
    /\ LET a == Absolute(p, Offset(ir[p]))
       IN  IF a > MAX_ADDR THEN Refuses(p, ADDRESS_OUT_OF_RANGE)
           ELSE IF a \notin DOMAIN mem THEN Fault
           ELSE /\ Done(p, 0)
                /\ UNCHANGED frames
                /\ IF A(p) = mem[a]
                   THEN mem' = [mem EXCEPT ![a] = B(p)] /\ UNCHANGED r
                   ELSE SetReg1(p, mem[a]) /\ UNCHANGED mem

\* SP counts down first, also when it is SP that is pushed.
push(p) ==
    /\ Executes(p, {"push"})
    /\ LET sp == (r[p][SP] - 1) % Top
       IN  IF r[p][SP] > MAX_ADDR THEN Refuses(p, ADDRESS_OUT_OF_RANGE)
           ELSE IF sp \notin DOMAIN mem THEN Fault
           ELSE /\ mem' = [mem EXCEPT ![sp] = IF Reg1(ir[p]) = SP THEN sp ELSE A(p)]
                /\ Registers(p, [i \in {SP} |-> sp])
                /\ Done(p, 0)
                /\ UNCHANGED frames

\* SP counts up last, also when it is SP that is popped.
pop(p) ==
    /\ Executes(p, {"pop"})
    /\ LET word == mem[r[p][SP]]
           sp == ((IF Reg1(ir[p]) = SP THEN word ELSE r[p][SP]) + 1) % Top
       IN  IF r[p][SP] > MAX_ADDR THEN Refuses(p, ADDRESS_OUT_OF_RANGE)
           ELSE IF r[p][SP] \notin DOMAIN mem THEN Fault
           ELSE /\ Registers(p, [i \in {SP, Reg1(ir[p])} |-> IF i = SP THEN sp ELSE word])
                /\ Done(p, sp)
                /\ UNCHANGED <<mem, frames>>

-----------------------------------------------------------------------------
(* call and ret, which take the lock several times *)

Calls(p) ==
    /\ Executes(p, {"call"})
    /\ LET sp == (r[p][SP] - 1) % Top
       IN  IF r[p][SP] > MAX_ADDR THEN Refuses(p, ADDRESS_OUT_OF_RANGE)
           ELSE IF sp \notin DOMAIN mem THEN Fault
           ELSE /\ mem' = [mem EXCEPT ![sp] = r[p][PC]]
                /\ Registers(p, [i \in {PC, SP} |-> IF i = PC THEN Absolute(p, Addr(ir[p]))
                                                    ELSE (sp - 1) % Top])
                /\ frames' = [frames EXCEPT ![p] =
                        <<[sp |-> r[p][SP], fp |-> r[p][FP], pc |-> r[p][PC]]>> \o @]
                /\ Continues(p, "call: FP")
                /\ UNCHANGED <<machine, temp>>

CallSavesFP(p) ==
    /\ Running(p, "call: FP")
    /\ UNCHANGED <<ir, callerVars>>
    /\ LET sp == r[p][SP]
       IN  IF sp \notin DOMAIN mem THEN Fault
           ELSE /\ mem' = [mem EXCEPT ![sp] = r[p][FP]]
                /\ Registers(p, [i \in {FP, SP} |-> IF i = FP THEN sp ELSE (sp - 1) % Top])
                /\ Continues(p, "call: result")
                /\ UNCHANGED <<machine, temp, frames>>

CallClearsResult(p) ==
    /\ Running(p, "call: result")
    /\ UNCHANGED <<ir, callerVars>>
    /\ IF r[p][SP] \notin DOMAIN mem THEN Fault
       ELSE mem' = [mem EXCEPT ![r[p][SP]] = 0] /\ Done(p, r[p][SP]) /\ UNCHANGED <<r, frames>>

\* A locked read of the word SP points to, and SP counted up.
Pops(p, next) ==
    IF r[p][SP] \notin DOMAIN mem THEN Fault
    ELSE /\ temp' = [temp EXCEPT ![p] = Append(@, mem[r[p][SP]])]
         /\ Registers(p, [i \in {SP} |-> (r[p][SP] + 1) % Top])
         /\ Continues(p, next)
         /\ UNCHANGED <<machine, mem, frames>>

Rets(p) ==
    /\ Executes(p, {"ret"})
    /\ IF r[p][SP] > MAX_ADDR \/ r[p][FP] > MAX_ADDR THEN Refuses(p, ADDRESS_OUT_OF_RANGE)
       ELSE Pops(p, "ret: FP")

RetReadsFP(p) ==
    /\ Running(p, "ret: FP")
    /\ UNCHANGED <<ir, callerVars>>
    /\ Pops(p, "ret: PC")

\* Bug: FP left as the callee had it.
RetReadsPC_only(p) ==
    /\ Running(p, "ret: PC")
    /\ Registers(p, [i \in {SP, PC} |-> IF i = PC THEN mem[r[p][SP]] ELSE (r[p][SP] + 1) % Top])
    /\ Continues(p, "ret: result")
    /\ UNCHANGED <<machine, mem, ir, temp, frames, callerVars>>

RetReadsPC(p) ==
    /\ Running(p, "ret: PC")
    /\ UNCHANGED <<ir, callerVars>>
    /\ IF r[p][SP] \notin DOMAIN mem THEN Fault
       ELSE /\ Registers(p, [i \in {FP, SP, PC} |->
                    IF i = FP THEN temp[p][2]
                    ELSE IF i = PC THEN mem[r[p][SP]] ELSE (r[p][SP] + 1) % Top])
            /\ Continues(p, "ret: result")
            /\ UNCHANGED <<machine, mem, temp, frames>>

\* The value returned goes to the word below the caller's frame.
RetPassesResult(p) ==
    /\ Running(p, "ret: result")
    /\ UNCHANGED <<ir, callerVars>>
    /\ LET a == (r[p][FP] - 1) % Top
       IN  IF a \notin DOMAIN mem THEN Fault
           ELSE /\ mem' = [mem EXCEPT ![a] = temp[p][1]]
                /\ IF r[p][SP] > MAX_ADDR \/ r[p][FP] > MAX_ADDR
                   THEN Ends(p, ADDRESS_OUT_OF_RANGE) ELSE Continues(p, "fetch")
                /\ temp' = [temp EXCEPT ![p] = <<>>]
                /\ frames' = [frames EXCEPT ![p] = IF @ = <<>> THEN @ ELSE Tail(@)]
                /\ UNCHANGED <<machine, r>>

\* A step of thread p.
threadWorker(p) ==
    \/ Fetch(p)
    \/ halt(p) \/ Loads(p) \/ Stores(p) \/ Computes(p) \/ Divides(p)
    \/ Branches(p) \/ cmpxchg(p) \/ push(p) \/ pop(p)
    \/ Calls(p) \/ CallSavesFP(p) \/ CallClearsResult(p)
    \/ Rets(p) \/ RetReadsFP(p) \/ RetReadsPC(p) \/ RetPassesResult(p)

\* The process is at the mercy of what it touched.
Ended == machine = "fault" /\ UNCHANGED vars

Next ==
    \/ loadMissingFile
    \/ \E f \in Files : loadExecutableFile(f)
    \/ \E poke \in Pokes(currentExecutable) : putWord(poke[1], poke[2])
    \/ \E n \in Counts(currentExecutable) : execute(n)
    \/ executeReturns
    \/ \E p \in Procs : threadWorker(p)
    \/ Ended

Spec == Init /\ [][Next]_vars

-----------------------------------------------------------------------------
(* Properties *)

TypeOK ==
    /\ machine \in {"idle", "running", "fault"}
    /\ currentExecutable \in Files \cup {NULL}
    /\ loaded \in BOOLEAN
    /\ totalNumProcessors \in 0 .. 16
    /\ DOMAIN mem = 0 .. Cardinality(DOMAIN mem) - 1 /\ Cardinality(DOMAIN mem) <= MAX_ADDR
    /\ \A a \in DOMAIN mem : mem[a] \in Word
    /\ r \in [Procs -> [0 .. 15 -> Word]]
    /\ at \in [Procs -> {"fetch", "execute", "call: FP", "call: result", "ret: FP",
                          "ret: PC", "ret: result", "ended", "never"}]
    /\ ir \in [Procs -> Word]
    /\ temp \in [Procs -> Seq(Word)]
    /\ terminationStatus \in [Procs -> ILLEGAL_INSTRUCTION .. NORMAL_TERMINATION]

\* A return restores SP, FP and PC as they were at the call, and passes the
\* word the callee left under its frame to the one under the caller's, however
\* the four accesses of ret and the three of call interleave with those of
\* other processors (opHandlers.c:314-388).
ReturnStep ==
    machine = "running" =>
        \A p \in Procs : Len(frames'[p]) < Len(frames[p]) =>
            LET call == Head(frames[p])
            IN  /\ r'[p][SP] = call.sp /\ r'[p][FP] = call.fp /\ r'[p][PC] = call.pc
                /\ mem'[call.fp - 1] = mem[call.sp - 3]

CallsReturn == [][ReturnStep]_vars

\* Once all processors are started, execute returns when their programs end.
ExecuteReturns == machine = "running" /\ AllStarted ~> machine = "idle"

\* Threads run, and execute is not delayed for ever.
ThreadsRun ==
    /\ \A p \in 0 .. 15 : WF_vars(p \in Procs /\ threadWorker(p))
    /\ WF_vars(executeReturns)
=============================================================================
