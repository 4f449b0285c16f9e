------------------------- MODULE ContextSwitchProofs -------------------------
(***************************************************************************)
(* What ContextSwitch promises, for any number of threads, functions,      *)
(* arguments and words on their stacks.                                    *)
(***************************************************************************)
EXTENDS ContextSwitch, SequenceTheorems, TLAPS

LEMMA YieldCode ==
  /\ asm_yield_code[1] = <<"push", "rbp">> /\ asm_yield_code[2] = <<"mov", "rbp">>
  /\ asm_yield_code[3] = <<"save", "rsp">> /\ asm_yield_code[4] = <<"save", "rdi">>
  /\ asm_yield_code[5] = <<"save", "rsi">> /\ asm_yield_code[6] = <<"save", "rbx">>
  /\ asm_yield_code[7] = <<"save", "r12">> /\ asm_yield_code[8] = <<"save", "r13">>
  /\ asm_yield_code[9] = <<"save", "r14">> /\ asm_yield_code[10] = <<"save", "r15">>
  /\ asm_yield_code[11] = <<"load", "rsp">> /\ asm_yield_code[12] = <<"load", "rdi">>
  /\ asm_yield_code[13] = <<"load", "rbx">> /\ asm_yield_code[14] = <<"load", "r12">>
  /\ asm_yield_code[15] = <<"load", "r13">> /\ asm_yield_code[16] = <<"load", "r14">>
  /\ asm_yield_code[17] = <<"load", "r15">> /\ asm_yield_code[18] = <<"load", "rsi">>
  /\ asm_yield_code[19] = <<"pop", "rbp">> /\ asm_yield_code[20] = <<"ret", "rsp">>
BY DEF asm_yield_code

LEMMA CleanupCode ==
  /\ asm_yield_cleanup_code[1] = <<"push", "rbp">>
  /\ asm_yield_cleanup_code[2] = <<"mov", "rbp">>
  /\ asm_yield_cleanup_code[3] = <<"load", "rsp">>
  /\ asm_yield_cleanup_code[4] = <<"load", "rdi">>
  /\ asm_yield_cleanup_code[5] = <<"load", "rbx">>
  /\ asm_yield_cleanup_code[6] = <<"load", "r12">>
  /\ asm_yield_cleanup_code[7] = <<"load", "r13">>
  /\ asm_yield_cleanup_code[8] = <<"load", "r14">>
  /\ asm_yield_cleanup_code[9] = <<"load", "r15">>
  /\ asm_yield_cleanup_code[10] = <<"load", "rsi">>
  /\ asm_yield_cleanup_code[11] = <<"pop", "rbp">>
  /\ asm_yield_cleanup_code[12] = <<"ret", "rsp">>
BY DEF asm_yield_cleanup_code

-----------------------------------------------------------------------------
(* The inductive invariant *)

Addresses == [of : TCB, words : Nat]

\* Whatever a register or a word of memory holds.
Contents ==
    Words \cup Code \cup Args \cup TCB \cup {NULL, zero} \cup Addresses
    \cup UNION {{file[r] : r \in Preserved} : file \in Files}

\* The place in asm_yield_code of the instruction at the present step.
Position == IF ip = asm_yield \/ step <= 2 THEN step ELSE step + 8

Slot(k) == asm_yield_code[k][2]

Saving == ip = asm_yield /\ Position <= 11

TypeOK ==
    /\ reg \in [Registers -> Contents] /\ reg["rsp"] \in Addresses
    /\ step \in Nat
    /\ stack \in [TCB -> Seq(Contents)]
    /\ tcb \in [TCB -> [Slots -> Contents]]
    /\ heap \subseteq TCB
    /\ alive \subseteq heap
    /\ readyQueueHead \in alive
    /\ waitingForCleanup \in (heap \ alive) \cup {NULL}

Steps ==
    /\ ip = asm_yield => step \in 1 .. 20
    /\ ip = asm_yield_cleanup => step \in 1 .. 12
    /\ ip \in Functions \cup Sites \cup {threadStart, asm_yield, asm_yield_cleanup}

OnStack == reg["rsp"].words \in 1 .. Len(stack[reg["rsp"].of])

\* t can be switched to.
Ready(t) ==
    /\ tcb[t]["rsp"] \in Addresses
    /\ tcb[t]["rsp"].of = t
    /\ tcb[t]["rsp"].words \in 3 .. Len(stack[t])
    /\ \/ stack[t][tcb[t]["rsp"].words - 1] \in Sites
       \/ /\ stack[t][tcb[t]["rsp"].words - 1] = threadStart
          /\ tcb[t]["rsp"].words = 3
          /\ tcb[t]["rdi"] \in Functions
          /\ tcb[t]["rsi"] \in Args

OthersReady ==
    \A t \in alive : \/ Ready(t)
                     \/ ~Switching /\ t = readyQueueHead
                     \/ Saving /\ t = reg["rdi"]

ClientRuns ==
    ~Switching =>
        /\ reg["rsp"].of = readyQueueHead
        /\ ip = threadStart =>
               reg["rsp"].words = 1 /\ reg["rdi"] \in Functions /\ reg["rsi"] \in Args

Saves ==
    Saving =>
        /\ reg["rdi"] \in alive \ {readyQueueHead}
        /\ reg["rsp"].of = reg["rdi"]
        /\ IF Position = 1
           THEN reg["rsp"].words >= 2 /\ Top \in Sites
           ELSE reg["rsp"].words >= 3 /\ stack[reg["rdi"]][reg["rsp"].words - 1] \in Sites
        /\ \A k \in 3 .. 10 : k < Position => tcb[reg["rdi"]][Slot(k)] = reg[Slot(k)]

Leaves == ip = asm_yield_cleanup /\ Position <= 11 => reg["rsp"].of = waitingForCleanup

Loads ==
    Switching =>
        /\ Position <= 18 => reg["rsi"] = readyQueueHead
        /\ Position \in 12 .. 19 => reg["rsp"] = tcb[readyQueueHead]["rsp"]
        /\ \A k \in 12 .. 18 : k < Position => reg[Slot(k)] = tcb[readyQueueHead][Slot(k)]
        /\ Position = 20 =>
               /\ reg["rsp"] = [tcb[readyQueueHead]["rsp"] EXCEPT !.words = @ - 1]
               /\ reg["rbp"] = stack[readyQueueHead][tcb[readyQueueHead]["rsp"].words]

Inv ==
    /\ TypeOK /\ Steps /\ OnStack /\ OthersReady
    /\ ClientRuns /\ Saves /\ Leaves /\ Loads

-----------------------------------------------------------------------------
(* Instructions, by their position *)

\* Both functions execute the code of asm_yield, one of them without the saving.
LEMMA SameCode ==
  ASSUME Steps, Switching, step \in Nat
  PROVE  /\ Instruction = asm_yield_code[Position]
         /\ Position \in 1 .. 20
         /\ Position \in 3 .. 10 => ip = asm_yield
<1>1. CASE ip = asm_yield
  BY <1>1 DEF Steps, Instruction, Position
<1>2. CASE ip # asm_yield
  <2>1. ip = asm_yield_cleanup /\ step \in 1 .. 12
    BY <1>2 DEF Switching, Steps
  <2>2. Instruction = asm_yield_cleanup_code[step]
    BY <1>2 DEF Instruction
  <2>3. Position = IF step <= 2 THEN step ELSE step + 8
    BY <1>2 DEF Position
  <2>4. asm_yield_cleanup_code[step] = asm_yield_code[Position]
    <3> HIDE DEF Position
    <3>1. CASE step <= 2
      <4>1. (step = 1 \/ step = 2) /\ Position = step
        BY <2>1, <2>3, <3>1
      <4> QED BY <4>1, YieldCode, CleanupCode
    <3>2. CASE ~(step <= 2)
      <4>1. \/ (step = 3 /\ Position = 11)   \/ (step = 4 /\ Position = 12)
            \/ (step = 5 /\ Position = 13)   \/ (step = 6 /\ Position = 14)
            \/ (step = 7 /\ Position = 15)   \/ (step = 8 /\ Position = 16)
            \/ (step = 9 /\ Position = 17)   \/ (step = 10 /\ Position = 18)
            \/ (step = 11 /\ Position = 19)   \/ (step = 12 /\ Position = 20)
        BY <2>1, <2>3, <3>2
      <4> QED BY <4>1, YieldCode, CleanupCode
    <3> QED BY <3>1, <3>2
  <2> QED BY <2>1, <2>2, <2>3, <2>4
<1> QED BY <1>1, <1>2

LEMMA Positions ==
  ASSUME Steps, Switching, step \in Nat
  PROVE  /\ Operand = Slot(Position)
         /\ Executes("push") => Position = 1 /\ Operand = "rbp"
         /\ Executes("mov") => Position = 2 /\ Operand = "rbp"
         /\ Executes("save") => Position \in 3 .. 10
         /\ Executes("load") => Position \in 11 .. 18
         /\ Executes("pop") => Position = 19 /\ Operand = "rbp"
         /\ Executes("ret") => Position = 20
<1>1. /\ Instruction = asm_yield_code[Position]
      /\ Position \in 1 .. 20
  BY SameCode
<1>2. Operand = Slot(Position)
  BY <1>1 DEF Operand, Slot
<1> HIDE DEF Position, Instruction
<1>3. \A op : Executes(op) => asm_yield_code[Position][1] = op
  BY <1>1 DEF Executes
<1>4. /\ asm_yield_code[Position][1] = "push" => Position = 1
      /\ asm_yield_code[Position][1] = "mov" => Position = 2
      /\ asm_yield_code[Position][1] = "save" => Position \in 3 .. 10
      /\ asm_yield_code[Position][1] = "load" => Position \in 11 .. 18
      /\ asm_yield_code[Position][1] = "pop" => Position = 19
      /\ asm_yield_code[Position][1] = "ret" => Position = 20
  BY <1>1, YieldCode
<1>5. Slot(1) = "rbp" /\ Slot(2) = "rbp" /\ Slot(19) = "rbp"
  BY YieldCode DEF Slot
<1> QED BY <1>2, <1>3, <1>4, <1>5

LEMMA SlotNames ==
  /\ Slot(3) = "rsp" /\ Slot(11) = "rsp" /\ Slot(12) = "rdi" /\ Slot(18) = "rsi"
  /\ \A k \in 3 .. 18 : Slot(k) \in Slots
  /\ \A k \in 12 .. 18 : Slot(k) # "rsp"
  /\ \A k \in 11 .. 17 : Slot(k) # "rsi"
BY YieldCode DEF Slot, Slots, Registers, Preserved

LEMMA CodeApart ==
  /\ asm_yield # asm_yield_cleanup
  /\ \A address \in Functions \cup Sites \cup {threadStart} :
         address # asm_yield /\ address # asm_yield_cleanup
  /\ threadStart \notin Functions \cup Sites
BY ContextAssumption

\* From one instruction to the next.
LEMMA Advance ==
  ASSUME Steps, Switching, step \in Nat, Continues, Position <= 19
  PROVE  /\ Steps' /\ Switching' /\ step' \in Nat /\ ip' = ip
         /\ \/ Position' = Position + 1
            \/ ip # asm_yield /\ Position = 2 /\ Position' = 11
<1>1. ip' = ip /\ step' = step + 1
  BY DEF Continues
<1>2. CASE ip = asm_yield
  <2>1. step \in 1 .. 19 /\ Position = step
    BY <1>2 DEF Steps, Position
  <2> QED BY <1>1, <1>2, <2>1, CodeApart DEF Steps, Switching, Position
<1>3. CASE ip = asm_yield_cleanup
  <2>1. step \in 1 .. 11
    BY <1>3, CodeApart DEF Steps, Position
  <2> QED BY <1>1, <1>3, <2>1, CodeApart DEF Steps, Switching, Position
<1> QED BY <1>2, <1>3 DEF Switching

LEMMA ReadyStays ==
  ASSUME NEW t, Ready(t), tcb'[t] = tcb[t], stack'[t] = stack[t]
  PROVE  Ready(t)'
BY DEF Ready

LEMMA PushedWord ==
  ASSUME NEW S, NEW s \in Seq(S), NEW n \in 0 .. Len(s), NEW w \in S,
         NEW r, r = Append(SubSeq(s, 1, n), w)
  PROVE  /\ r \in Seq(S) /\ Len(r) = n + 1 /\ r[n + 1] = w
         /\ \A k \in 1 .. n : r[k] = s[k]
<1>1. /\ SubSeq(s, 1, n) \in Seq(S) /\ Len(SubSeq(s, 1, n)) = n
      /\ \A k \in 1 .. n : SubSeq(s, 1, n)[k] = s[k]
  BY SubSeqProperties
<1> DEFINE b == SubSeq(s, 1, n)
<1> HIDE DEF b
<1>2. b \in Seq(S) /\ Len(b) = n /\ \A k \in 1 .. n : b[k] = s[k]
  BY <1>1 DEF b
<1>3. r = Append(b, w)
  BY DEF b
<1>4. /\ r \in Seq(S) /\ Len(r) = n + 1 /\ r[n + 1] = w
      /\ \A k \in 1 .. n : r[k] = b[k]
  BY <1>2, <1>3, AppendProperties
<1> QED BY <1>2, <1>4

\* What pushing does, by whomever.
LEMMA Pushing ==
  ASSUME TypeOK, OnStack, NEW w \in Contents, stack' = Pushed(w)
  PROVE  /\ stack' \in [TCB -> Seq(Contents)]
         /\ \A t \in TCB : t # reg["rsp"].of => stack'[t] = stack[t]
         /\ LET t == reg["rsp"].of  n == reg["rsp"].words
            IN  /\ t \in TCB /\ n \in Nat \ {0}
                /\ Len(stack'[t]) = n + 1
                /\ stack'[t][n + 1] = w
                /\ \A k \in 1 .. n : stack'[t][k] = stack[t][k]
                /\ Above \in Addresses /\ Above.of = t /\ Above.words = n + 1
<1> DEFINE t == reg["rsp"].of
           n == reg["rsp"].words
<1>1. /\ t \in TCB /\ n \in Nat \ {0} /\ n \in 0 .. Len(stack[t])
      /\ stack[t] \in Seq(Contents)
      /\ reg["rsp"] = [of |-> t, words |-> n]
  <2>1. reg["rsp"] \in Addresses /\ stack \in [TCB -> Seq(Contents)]
    BY DEF TypeOK
  <2>2. t \in TCB /\ n \in Nat /\ reg["rsp"] = [of |-> t, words |-> n]
    BY <2>1 DEF Addresses
  <2>3. stack[t] \in Seq(Contents) /\ n \in 1 .. Len(stack[t])
    BY <2>1, <2>2 DEF OnStack
  <2> HIDE DEF t, n
  <2>4. Len(stack[t]) \in Nat
    BY <2>3, LenProperties
  <2> QED BY <2>2, <2>3, <2>4
<1>2. Above \in Addresses /\ Above.of = t /\ Above.words = n + 1
  BY <1>1 DEF Above, Addresses
<1>3. stack' = [stack EXCEPT ![t] = Append(SubSeq(@, 1, n), w)]
  BY DEF Pushed
<1> HIDE DEF t, n
<1>4. /\ stack'[t] = Append(SubSeq(stack[t], 1, n), w)
      /\ \A u \in TCB : u # t => stack'[u] = stack[u]
      /\ stack' = [stack EXCEPT ![t] = stack'[t]]
  BY <1>1, <1>3 DEF TypeOK
<1>5. /\ stack'[t] \in Seq(Contents) /\ Len(stack'[t]) = n + 1 /\ stack'[t][n + 1] = w
      /\ \A k \in 1 .. n : stack'[t][k] = stack[t][k]
  BY <1>1, <1>4, PushedWord
<1>6. stack' \in [TCB -> Seq(Contents)]
  BY <1>1, <1>4, <1>5 DEF TypeOK
<1> QED BY <1>1, <1>2, <1>4, <1>5, <1>6 DEF t, n

-----------------------------------------------------------------------------
(* Every action keeps the invariant *)

\* What the running code's own stack has to do with the threads.
LEMMA OwnStack ==
  ASSUME Inv, Switching, Position <= 11, NEW t \in alive, ~(Saving /\ t = reg["rdi"])
  PROVE  t # reg["rsp"].of /\ Ready(t)
<1>1. ip = asm_yield => reg["rsp"].of = reg["rdi"] /\ Saving
  BY DEF Inv, Saves, Saving
<1>2. ip = asm_yield_cleanup => reg["rsp"].of = waitingForCleanup
  BY DEF Inv, Leaves
<1>3. waitingForCleanup \notin alive
  BY ContextAssumption DEF Inv, TypeOK
<1> QED BY <1>1, <1>2, <1>3 DEF Inv, OthersReady, Switching

LEMMA pushqKeeps == ASSUME Inv, pushq PROVE Inv'
<1> DEFINE t == reg["rsp"].of
           n == reg["rsp"].words
<1>1. TypeOK /\ Steps /\ OnStack /\ Switching /\ step \in Nat /\ Continues
  BY DEF Inv, TypeOK, pushq, Executes
<1>2. /\ Position = 1 /\ stack' = Pushed(reg["rbp"]) /\ reg' = [reg EXCEPT !["rsp"] = Above]
      /\ UNCHANGED <<tcb, heap, alive, readyQueueHead, waitingForCleanup>>
  BY <1>1, Positions DEF pushq, threadVars
<1>3. Steps' /\ Switching' /\ step' \in Nat /\ ip' = ip /\ Position' = 2
  BY <1>1, <1>2, Advance
<1>4. reg["rbp"] \in Contents
  BY <1>1 DEF TypeOK, Registers, Preserved
<1>5. /\ stack' \in [TCB -> Seq(Contents)]
      /\ \A u \in TCB : u # t => stack'[u] = stack[u]
      /\ t \in TCB /\ n \in Nat \ {0}
      /\ Len(stack'[t]) = n + 1
      /\ \A k \in 1 .. n : stack'[t][k] = stack[t][k]
      /\ Above \in Addresses /\ Above.of = t /\ Above.words = n + 1
  BY <1>1, <1>2, <1>4, Pushing
<1>6. /\ reg'["rsp"] = Above
      /\ \A r \in Registers \ {"rsp"} : reg'[r] = reg[r]
      /\ reg' \in [Registers -> Contents]
  BY <1>1, <1>2, <1>5 DEF TypeOK, Registers, Contents
<1>7. reg'["rdi"] = reg["rdi"] /\ reg'["rsi"] = reg["rsi"]
  BY <1>6 DEF Registers
<1> HIDE DEF Position
<1>8. TypeOK'
  BY <1>1, <1>2, <1>3, <1>5, <1>6 DEF TypeOK
<1>9. OnStack'
  BY <1>5, <1>6 DEF OnStack
<1>10. Saving' <=> Saving
  BY <1>2, <1>3 DEF Saving
<1>11. OthersReady'
  <2> SUFFICES ASSUME NEW u \in alive, ~(Saving /\ u = reg["rdi"])
               PROVE  Ready(u)'
    BY <1>2, <1>7, <1>10 DEF OthersReady
  <2>1. u # t /\ Ready(u)
    BY <1>1, <1>2, OwnStack
  <2>2. stack'[u] = stack[u] /\ tcb'[u] = tcb[u]
    BY <1>1, <1>2, <1>5, <2>1 DEF TypeOK
  <2> QED BY <2>1, <2>2, ReadyStays
<1>12. ClientRuns'
  BY <1>3 DEF ClientRuns
<1>13. Saves'
  <2> SUFFICES ASSUME Saving
               PROVE  /\ reg["rdi"] \in alive \ {readyQueueHead}
                      /\ Above.of = reg["rdi"]
                      /\ Above.words >= 3 /\ stack'[reg["rdi"]][Above.words - 1] \in Sites
    BY <1>2, <1>3, <1>6, <1>7, <1>10 DEF Saves
  <2>1. /\ reg["rdi"] \in alive \ {readyQueueHead} /\ t = reg["rdi"]
        /\ n >= 2 /\ stack[t][n] \in Sites
    BY <1>2 DEF Inv, Saves, Top
  <2> HIDE DEF t, n
  <2> QED BY <1>5, <2>1
<1>14. Leaves'
  BY <1>2, <1>3, <1>5, <1>6 DEF Inv, Leaves
<1>15. Loads'
  BY <1>1, <1>2, <1>3, <1>7 DEF Inv, Loads
<1> QED BY <1>3, <1>8, <1>9, <1>11, <1>12, <1>13, <1>14, <1>15 DEF Inv

LEMMA movqKeeps == ASSUME Inv, movq PROVE Inv'
<1>1. TypeOK /\ Steps /\ OnStack /\ Switching /\ step \in Nat /\ Continues
  BY DEF Inv, TypeOK, movq, Executes
<1>2. /\ Position = 2 /\ reg' = [reg EXCEPT !["rbp"] = reg["rsp"]]
      /\ UNCHANGED <<stack, tcb, heap, alive, readyQueueHead, waitingForCleanup>>
  BY <1>1, Positions DEF movq, threadVars
<1>3. /\ Steps' /\ Switching' /\ step' \in Nat /\ ip' = ip
      /\ Position' = IF ip = asm_yield THEN 3 ELSE Position'
      /\ Position' \in {3, 11}
  BY <1>1, <1>2, Advance
<1>4. /\ \A r \in Registers \ {"rbp"} : reg'[r] = reg[r]
      /\ reg' \in [Registers -> Contents]
  BY <1>1, <1>2 DEF TypeOK, Registers, Contents
<1>5. reg'["rdi"] = reg["rdi"] /\ reg'["rsi"] = reg["rsi"] /\ reg'["rsp"] = reg["rsp"]
  BY <1>4 DEF Registers
<1> HIDE DEF Position
<1>6. TypeOK'
  BY <1>1, <1>2, <1>3, <1>4, <1>5 DEF TypeOK
<1>7. OnStack'
  BY <1>1, <1>2, <1>5 DEF OnStack
<1>8. Saving' <=> Saving
  BY <1>2, <1>3 DEF Saving
<1>9. OthersReady'
  <2> SUFFICES ASSUME NEW u \in alive, ~(Saving /\ u = reg["rdi"])
               PROVE  Ready(u)'
    BY <1>2, <1>5, <1>8 DEF OthersReady
  <2> QED BY <1>1, <1>2, OwnStack, ReadyStays
<1>10. ClientRuns'
  BY <1>3 DEF ClientRuns
<1>11. Saves'
  BY <1>2, <1>3, <1>5, <1>8 DEF Inv, Saves, Saving
<1>12. Leaves'
  BY <1>2, <1>3, <1>5 DEF Inv, Leaves
<1>13. Loads'
  BY <1>1, <1>2, <1>3, <1>5 DEF Inv, Loads
<1> QED BY <1>3, <1>6, <1>7, <1>9, <1>10, <1>11, <1>12, <1>13 DEF Inv

LEMMA savesKeeps == ASSUME Inv, saves PROVE Inv'
<1> DEFINE old == reg["rdi"]
<1>1. TypeOK /\ Steps /\ OnStack /\ Switching /\ step \in Nat /\ Continues
  BY DEF Inv, TypeOK, saves, Executes
<1>2. /\ Position \in 3 .. 10
      /\ tcb' = [tcb EXCEPT ![old][Slot(Position)] = reg[Slot(Position)]]
      /\ UNCHANGED <<reg, stack, heap, alive, readyQueueHead, waitingForCleanup>>
  BY <1>1, Positions DEF saves, threadVars
<1>3. ip = asm_yield
  BY <1>1, <1>2, SameCode
<1>4. /\ Steps' /\ Switching' /\ step' \in Nat /\ ip' = ip
      /\ Position' = Position + 1
  BY <1>1, <1>2, <1>3, Advance
<1> HIDE DEF Position
<1>5. Saving /\ Saving'
  BY <1>2, <1>3, <1>4 DEF Saving
<1>6. /\ old \in alive \ {readyQueueHead} /\ old \in TCB
      /\ reg["rsp"].of = old
      /\ reg["rsp"].words >= 3 /\ stack[old][reg["rsp"].words - 1] \in Sites
      /\ \A k \in 3 .. 10 : k < Position => tcb[old][Slot(k)] = reg[Slot(k)]
  BY <1>1, <1>2, <1>5 DEF Inv, Saves, TypeOK
<1>7. Slot(Position) \in Slots /\ reg[Slot(Position)] \in Contents
  BY <1>1, <1>2, SlotNames DEF TypeOK, Slots
<1> HIDE DEF old
<1>8. /\ tcb' \in [TCB -> [Slots -> Contents]]
      /\ \A u \in TCB : u # old => tcb'[u] = tcb[u]
      /\ tcb'[old][Slot(Position)] = reg[Slot(Position)]
      /\ \A s \in Slots : s # Slot(Position) => tcb'[old][s] = tcb[old][s]
  BY <1>1, <1>2, <1>6, <1>7 DEF TypeOK
<1>9. TypeOK'
  BY <1>1, <1>2, <1>4, <1>8 DEF TypeOK
<1>10. OnStack'
  BY <1>1, <1>2 DEF OnStack
<1>11. OthersReady'
  <2> SUFFICES ASSUME NEW u \in alive, u # old
               PROVE  Ready(u)'
    BY <1>2, <1>5 DEF OthersReady, old
  <2>1. Ready(u)
    BY <1>1, <1>2, OwnStack DEF old
  <2> QED BY <1>1, <1>2, <1>8, <2>1, ReadyStays DEF TypeOK
<1>12. ClientRuns'
  BY <1>4 DEF ClientRuns
<1>13. Saves'
  <2>1. ASSUME NEW k \in 3 .. 10, k < Position + 1
        PROVE  tcb'[old][Slot(k)] = reg[Slot(k)]
    <3>1. Slot(k) \in Slots
      BY SlotNames
    <3>2. CASE k = Position
      BY <1>8, <3>2
    <3>3. CASE k < Position
      BY <1>6, <1>8, <3>1, <3>3
    <3> QED BY <1>2, <2>1, <3>2, <3>3
  <2> QED BY <1>2, <1>4, <1>6, <2>1 DEF Saves, old
<1>14. Leaves'
  BY <1>3, <1>4, CodeApart DEF Leaves
<1>15. Loads'
  BY <1>1, <1>2, <1>4 DEF Inv, Loads
<1> QED BY <1>4, <1>9, <1>10, <1>11, <1>12, <1>13, <1>14, <1>15 DEF Inv

\* asm_yield has saved what makes the old thread ready.
LEMMA SavedIsReady ==
  ASSUME Inv, Switching, Position \in 11 .. 20, NEW t \in alive, Saving => Position = 11
  PROVE  Ready(t)
<1>1. CASE Saving /\ t = reg["rdi"]
  <2>1. /\ reg["rsp"].of = t /\ reg["rsp"] \in Addresses
        /\ reg["rsp"].words >= 3 /\ stack[t][reg["rsp"].words - 1] \in Sites
        /\ \A k \in 3 .. 10 : tcb[t][Slot(k)] = reg[Slot(k)]
    BY <1>1 DEF Inv, Saves, TypeOK
  <2>2. tcb[t]["rsp"] = reg["rsp"]
    BY <2>1, SlotNames
  <2>3. reg["rsp"].words \in 1 .. Len(stack[t])
    BY <2>1 DEF Inv, OnStack
  <2>4. reg["rsp"].words \in Nat
    BY <2>1 DEF Addresses
  <2> QED BY <2>1, <2>2, <2>3, <2>4 DEF Ready
<1>2. CASE ~(Saving /\ t = reg["rdi"])
  BY <1>2 DEF Inv, OthersReady
<1> QED BY <1>1, <1>2

LEMMA loadsKeeps == ASSUME Inv, loads PROVE Inv'
<1> DEFINE head == readyQueueHead
           p == Position
<1>1. TypeOK /\ Steps /\ OnStack /\ Switching /\ step \in Nat /\ Continues
  BY DEF Inv, TypeOK, loads, Executes
<1>2. /\ p \in 11 .. 18
      /\ reg' = [reg EXCEPT ![Slot(p)] = tcb[reg["rsi"]][Slot(p)]]
      /\ UNCHANGED <<stack, tcb, heap, alive, readyQueueHead, waitingForCleanup>>
  BY <1>1, Positions DEF loads, threadVars
<1>3. reg["rsi"] = head /\ head \in alive /\ head \in TCB
  BY <1>1, <1>2 DEF Inv, Loads, TypeOK
<1>4. /\ Steps' /\ Switching' /\ step' \in Nat /\ ip' = ip
      /\ p' = p + 1
  BY <1>1, <1>2, Advance
<1>5. Slot(p) \in Slots /\ Slot(p) \in Registers
  BY <1>2, SlotNames DEF Slots
<1>6. /\ reg' \in [Registers -> Contents]
      /\ reg'[Slot(p)] = tcb[head][Slot(p)]
      /\ \A r \in Registers : r # Slot(p) => reg'[r] = reg[r]
  BY <1>1, <1>2, <1>3, <1>5 DEF TypeOK
<1>7. "rsp" \in Registers /\ "rdi" \in Registers /\ "rsi" \in Registers
  BY DEF Registers
<1> HIDE DEF p
<1>8. /\ ~Saving' /\ (Saving => p = 11)
      /\ Position = p /\ Position' = p + 1
  BY <1>2, <1>4 DEF Saving, p
<1>9. \A u \in alive : Ready(u)
  BY <1>1, <1>2, <1>8, SavedIsReady
<1>10. \A u \in alive : Ready(u)'
  BY <1>2, <1>9, ReadyStays
<1>11. reg'["rsp"] = tcb[head]["rsp"]
  <2>1. CASE p = 11
    BY <1>6, <2>1, SlotNames
  <2>2. CASE p \in 12 .. 18
    <3>1. reg["rsp"] = tcb[head]["rsp"]
      BY <1>1, <1>8, <2>2 DEF Inv, Loads
    <3>2. Slot(p) # "rsp"
      BY <2>2, SlotNames
    <3> QED BY <1>6, <1>7, <3>1, <3>2
  <2> QED BY <1>2, <2>1, <2>2
<1>12. /\ reg'["rsp"] \in Addresses /\ reg'["rsp"].of = head
       /\ reg'["rsp"].words \in 3 .. Len(stack[head])
  BY <1>3, <1>9, <1>11 DEF Ready
<1>13. TypeOK'
  BY <1>1, <1>2, <1>4, <1>6, <1>12 DEF TypeOK
<1>14. OnStack'
  BY <1>2, <1>12 DEF OnStack
<1>15. OthersReady'
  BY <1>2, <1>10 DEF OthersReady
<1>16. ClientRuns'
  BY <1>4 DEF ClientRuns
<1>17. Saves'
  BY <1>8 DEF Saves
<1>18. Leaves'
  BY <1>2, <1>8 DEF Leaves
<1>19. Loads'
  <2>1. p + 1 <= 18 => reg'["rsi"] = head
    <3> HAVE p + 1 <= 18
    <3>1. Slot(p) # "rsi"
      BY <1>2, SlotNames
    <3> QED BY <1>3, <1>6, <1>7, <3>1
  <2>2. ASSUME NEW k \in 12 .. 18, k < p + 1
        PROVE  reg'[Slot(k)] = tcb[head][Slot(k)]
    <3>1. Slot(k) \in Registers
      BY SlotNames DEF Slots
    <3>2. CASE k = p
      BY <1>6, <3>2
    <3>3. CASE k < p
      <4>1. reg[Slot(k)] = tcb[head][Slot(k)]
        BY <1>1, <1>8, <3>3 DEF Inv, Loads
      <4> QED BY <1>6, <3>1, <4>1
    <3> QED BY <1>2, <2>2, <3>2, <3>3
  <2> QED BY <1>2, <1>8, <1>11, <2>1, <2>2 DEF Loads
<1> QED BY <1>4, <1>13, <1>14, <1>15, <1>16, <1>17, <1>18, <1>19 DEF Inv

LEMMA popqKeeps == ASSUME Inv, popq PROVE Inv'
<1> DEFINE head == readyQueueHead
           n == tcb[head]["rsp"].words
<1>1. TypeOK /\ Steps /\ OnStack /\ Switching /\ step \in Nat /\ Continues
  BY DEF Inv, TypeOK, popq, Executes
<1>2. /\ Position = 19
      /\ reg' = [reg EXCEPT !["rbp"] = Top, !["rsp"] = Below]
      /\ UNCHANGED <<stack, tcb, heap, alive, readyQueueHead, waitingForCleanup>>
  BY <1>1, Positions DEF popq, threadVars
<1>3. Steps' /\ Switching' /\ step' \in Nat /\ ip' = ip /\ Position' = 20
  BY <1>1, <1>2, Advance
<1> HIDE DEF Position
<1>4. ~Saving /\ ~Saving'
  BY <1>2, <1>3 DEF Saving
<1>5. \A u \in alive : Ready(u)
  BY <1>1, <1>2, <1>4, SavedIsReady
<1>6. /\ head \in alive /\ head \in TCB /\ reg["rsp"] = tcb[head]["rsp"]
      /\ stack[head] \in Seq(Contents)
  BY <1>1, <1>2 DEF Inv, Loads, TypeOK
<1>7. /\ reg["rsp"] \in Addresses /\ reg["rsp"].of = head /\ reg["rsp"].words = n
      /\ n \in 3 .. Len(stack[head]) /\ n \in Nat
  BY <1>5, <1>6 DEF Ready, Addresses
<1>8. Top = stack[head][n] /\ Top \in Contents
  BY <1>6, <1>7, ElementOfSeq DEF Top
<1>9. Below \in Addresses /\ Below.of = head /\ Below.words = n - 1
  BY <1>7 DEF Below, Addresses
<1>10. /\ reg' \in [Registers -> Contents]
       /\ reg'["rsp"] = Below /\ reg'["rbp"] = Top
       /\ \A r \in Registers \ {"rbp", "rsp"} : reg'[r] = reg[r]
  BY <1>1, <1>2, <1>8, <1>9 DEF TypeOK, Registers, Preserved, Contents
<1> HIDE DEF n, head
<1>11. TypeOK'
  BY <1>1, <1>2, <1>3, <1>9, <1>10 DEF TypeOK
<1>12. OnStack'
  BY <1>2, <1>7, <1>9, <1>10, LenProperties, <1>6 DEF OnStack
<1>13. OthersReady'
  BY <1>2, <1>5, ReadyStays DEF OthersReady
<1>14. ClientRuns'
  BY <1>3 DEF ClientRuns
<1>15. Saves'
  BY <1>4 DEF Saves
<1>16. Leaves'
  BY <1>3 DEF Leaves
<1>17. Loads'
  <2>1. reg'["rsp"] = [tcb[head]["rsp"] EXCEPT !.words = @ - 1]
    BY <1>6, <1>10 DEF Below
  <2>2. ASSUME NEW k \in 12 .. 18
        PROVE  reg'[Slot(k)] = tcb[head][Slot(k)]
    <3>1. reg[Slot(k)] = tcb[head][Slot(k)]
      BY <1>1, <1>2 DEF Inv, Loads, head
    <3>2. Slot(k) \in Registers \ {"rbp", "rsp"}
      BY SlotNames DEF Slots
    <3> QED BY <1>10, <3>1, <3>2
  <2>3. reg'["rbp"] = stack[head][tcb[head]["rsp"].words]
    BY <1>8, <1>10 DEF n
  <2>4. tcb' = tcb /\ stack' = stack /\ readyQueueHead' = head
    BY <1>2 DEF head
  <2> QED BY <1>3, <2>1, <2>2, <2>3, <2>4 DEF Loads
<1> QED BY <1>3, <1>11, <1>12, <1>13, <1>14, <1>15, <1>16, <1>17 DEF Inv

LEMMA retKeeps == ASSUME Inv, ret PROVE Inv'
<1> DEFINE head == readyQueueHead
           n == tcb[head]["rsp"].words
<1>1. TypeOK /\ Steps /\ OnStack /\ Switching /\ step \in Nat
  BY DEF Inv, TypeOK, ret, Executes
<1>2. /\ Position = 20 /\ ip' = Top /\ step' = 0
      /\ reg' = [reg EXCEPT !["rsp"] = Below]
      /\ UNCHANGED <<stack, tcb, heap, alive, readyQueueHead, waitingForCleanup>>
  BY <1>1, Positions DEF ret, threadVars
<1> HIDE DEF Position
<1>3. ~Saving
  BY <1>2 DEF Saving
<1>4. \A u \in alive : Ready(u)
  BY <1>1, <1>2, <1>3, SavedIsReady
<1>5. /\ head \in alive /\ head \in TCB
      /\ reg["rsp"] = [tcb[head]["rsp"] EXCEPT !.words = @ - 1]
      /\ \A k \in 12 .. 18 : reg[Slot(k)] = tcb[head][Slot(k)]
  BY <1>1, <1>2 DEF Inv, Loads, TypeOK
<1>6. /\ tcb[head]["rsp"] \in Addresses /\ tcb[head]["rsp"].of = head
      /\ n \in 3 .. Len(stack[head]) /\ n \in Nat
      /\ \/ stack[head][n - 1] \in Sites
         \/ /\ stack[head][n - 1] = threadStart /\ n = 3
            /\ tcb[head]["rdi"] \in Functions /\ tcb[head]["rsi"] \in Args
  BY <1>4, <1>5 DEF Ready, Addresses
<1>7. reg["rsp"] \in Addresses /\ reg["rsp"].of = head /\ reg["rsp"].words = n - 1
  BY <1>1, <1>5, <1>6 DEF Addresses
<1>8. Top = stack[head][n - 1]
  BY <1>7 DEF Top
<1>9. Below \in Addresses /\ Below.of = head /\ Below.words = n - 2
  BY <1>6, <1>7 DEF Below, Addresses
<1>10. /\ reg' \in [Registers -> Contents] /\ reg'["rsp"] = Below
       /\ reg'["rdi"] = tcb[head]["rdi"] /\ reg'["rsi"] = tcb[head]["rsi"]
  <2>1. /\ reg' \in [Registers -> Contents] /\ reg'["rsp"] = Below
        /\ reg'["rdi"] = reg["rdi"] /\ reg'["rsi"] = reg["rsi"]
    BY <1>1, <1>2, <1>9 DEF TypeOK, Registers, Contents
  <2> QED BY <1>5, <2>1, SlotNames
<1> HIDE DEF n, head
<1>11. ip' \in Sites \cup {threadStart} /\ ~Switching'
  BY <1>2, <1>6, <1>8, CodeApart DEF Switching
<1>12. Steps'
  BY <1>11, CodeApart DEF Steps
<1>13. TypeOK'
  BY <1>1, <1>2, <1>9, <1>10 DEF TypeOK
<1>14. OnStack'
  <2>1. Len(stack[head]) \in Nat
    BY <1>1, <1>5, LenProperties DEF TypeOK
  <2> QED BY <1>2, <1>6, <1>9, <1>10, <2>1 DEF OnStack
<1>15. OthersReady'
  BY <1>2, <1>4, ReadyStays DEF OthersReady
<1>16. ClientRuns'
  <2>1. ip' = threadStart => n = 3 /\ tcb[head]["rdi"] \in Functions /\ tcb[head]["rsi"] \in Args
    BY <1>2, <1>6, <1>8, CodeApart
  <2> QED BY <1>2, <1>9, <1>10, <2>1 DEF ClientRuns, head
<1>17. Saves'
  BY <1>11 DEF Saves, Saving, Switching
<1>18. Leaves' /\ Loads'
  BY <1>11 DEF Leaves, Loads, Switching
<1> QED BY <1>12, <1>13, <1>14, <1>15, <1>16, <1>17, <1>18 DEF Inv

LEMMA Client ==
  ASSUME Inv, InClient
  PROVE  /\ ~Switching /\ ~Saving /\ ip # threadStart
         /\ reg["rsp"].of = readyQueueHead
         /\ \A t \in alive \ {readyQueueHead} : Ready(t)
<1>1. ~Switching /\ ip # threadStart
  BY CodeApart DEF InClient, Switching
<1>2. ~Saving
  BY <1>1 DEF Switching, Saving
<1> QED BY <1>1, <1>2 DEF Inv, ClientRuns, OthersReady

\* The client goes on as a client.
LEMMA StaysClient ==
  ASSUME Inv, ip' \in Functions \cup Sites,
         TypeOK', OnStack', reg'["rsp"].of = readyQueueHead',
         \A t \in alive' : t # readyQueueHead' => Ready(t)'
  PROVE  Inv'
<1>1. ~Switching' /\ ip' # threadStart
  BY CodeApart DEF Switching
<1>2. Steps' /\ ClientRuns' /\ OthersReady'
  BY <1>1, CodeApart DEF Steps, ClientRuns, OthersReady
<1>3. Saves' /\ Leaves' /\ Loads'
  BY <1>1 DEF Saves, Saving, Leaves, Loads, Switching
<1> QED BY <1>2, <1>3 DEF Inv

LEMMA CallWorkKeeps == ASSUME Inv, CallWork PROVE Inv'
<1>1. TypeOK /\ ~Switching /\ ~Saving
  BY CodeApart DEF Inv, CallWork, Switching, Saving
<1>2. /\ reg["rsp"].of = readyQueueHead /\ reg["rdi"] \in Functions
      /\ \A t \in alive : t # readyQueueHead => Ready(t)
  BY <1>1 DEF Inv, CallWork, ClientRuns, OthersReady
<1>3. /\ ip' \in Functions /\ reg' = [reg EXCEPT !["rdi"] = reg["rsi"]]
      /\ UNCHANGED <<step, stack, tcb, heap, alive, readyQueueHead, waitingForCleanup>>
  BY <1>2 DEF CallWork, threadVars
<1>4. reg' \in [Registers -> Contents] /\ reg'["rsp"] = reg["rsp"]
  BY <1>1, <1>3 DEF TypeOK, Registers
<1>5. TypeOK' /\ OnStack'
  BY <1>1, <1>3, <1>4 DEF Inv, TypeOK, OnStack
<1>6. \A t \in alive' : t # readyQueueHead' => Ready(t)'
  BY <1>2, <1>3, ReadyStays
<1> QED BY <1>2, <1>3, <1>4, <1>5, <1>6, StaysClient

LEMMA ComputeKeeps == ASSUME Inv, Compute PROVE Inv'
<1>1. TypeOK /\ OnStack /\ InClient
  BY DEF Inv, Compute
<1>2. PICK file \in Files :
          reg' = [r \in Registers |-> IF r \in Preserved THEN file[r] ELSE reg[r]]
  BY DEF Compute
<1>3. UNCHANGED <<ip, step, stack, tcb, heap, alive, readyQueueHead, waitingForCleanup>>
  BY DEF Compute, threadVars
<1>4. \A r \in Preserved : file[r] \in Contents
  BY DEF Contents
<1>5. reg' \in [Registers -> Contents] /\ reg'["rsp"] = reg["rsp"]
  BY <1>1, <1>2, <1>4 DEF TypeOK, Registers, Preserved
<1>6. TypeOK' /\ OnStack'
  BY <1>1, <1>3, <1>5 DEF TypeOK, OnStack
<1>7. \A t \in alive' : t # readyQueueHead' => Ready(t)'
  BY <1>1, <1>3, Client, ReadyStays
<1> QED BY <1>1, <1>3, <1>5, <1>6, <1>7, Client, StaysClient DEF InClient

LEMMA PushKeeps == ASSUME Inv, Push PROVE Inv'
<1>1. TypeOK /\ OnStack /\ InClient
  BY DEF Inv, Push
<1>2. PICK w \in Words : stack' = Pushed(w)
  BY DEF Push
<1>3. /\ reg' = [reg EXCEPT !["rsp"] = Above]
      /\ UNCHANGED <<ip, step, tcb, heap, alive, readyQueueHead, waitingForCleanup>>
  BY DEF Push, threadVars
<1> DEFINE head == readyQueueHead
           n == reg["rsp"].words
<1>4. reg["rsp"].of = head /\ \A t \in alive \ {head} : Ready(t)
  BY <1>1, Client
<1>5. /\ stack' \in [TCB -> Seq(Contents)]
      /\ \A t \in TCB : t # head => stack'[t] = stack[t]
      /\ n \in Nat /\ Len(stack'[head]) = n + 1
      /\ Above \in Addresses /\ Above.of = head /\ Above.words = n + 1
  BY <1>1, <1>2, <1>4, Pushing DEF Contents
<1>6. reg' \in [Registers -> Contents] /\ reg'["rsp"] = Above
  BY <1>1, <1>3, <1>5 DEF TypeOK, Registers, Contents
<1>7. TypeOK'
  BY <1>1, <1>3, <1>5, <1>6 DEF TypeOK
<1>8. OnStack'
  BY <1>5, <1>6 DEF OnStack
<1>9. \A t \in alive' : t # head' => Ready(t)'
  BY <1>1, <1>3, <1>4, <1>5, ReadyStays DEF TypeOK
<1> QED BY <1>1, <1>3, <1>5, <1>6, <1>7, <1>8, <1>9, StaysClient DEF InClient

LEMMA PopKeeps == ASSUME Inv, Pop PROVE Inv'
<1>1. TypeOK /\ OnStack /\ InClient /\ reg["rsp"].words > 1
  BY DEF Inv, Pop
<1>2. /\ reg' = [reg EXCEPT !["rsp"] = Below]
      /\ UNCHANGED <<ip, step, stack, tcb, heap, alive, readyQueueHead, waitingForCleanup>>
  BY DEF Pop, threadVars
<1>3. /\ reg["rsp"].of \in TCB /\ reg["rsp"].words \in Nat
      /\ Below \in Addresses /\ Below.of = reg["rsp"].of
      /\ Below.words = reg["rsp"].words - 1
  <2>1. reg["rsp"] \in Addresses
    BY <1>1 DEF TypeOK
  <2>2. reg["rsp"].of \in TCB /\ reg["rsp"].words \in Nat
    BY <2>1 DEF Addresses
  <2>3. reg["rsp"].words - 1 \in Nat
    BY <1>1, <2>2
  <2> QED BY <2>1, <2>2, <2>3 DEF Below, Addresses
<1>4. reg' \in [Registers -> Contents] /\ reg'["rsp"] = Below
  BY <1>1, <1>2, <1>3 DEF TypeOK, Registers, Contents
<1>5. TypeOK'
  BY <1>1, <1>2, <1>3, <1>4 DEF TypeOK
<1>6. OnStack'
  <2>1. Len(stack[reg["rsp"].of]) \in Nat
    BY <1>1, <1>3, LenProperties DEF TypeOK
  <2> QED BY <1>1, <1>2, <1>3, <1>4, <2>1 DEF OnStack
<1>7. \A t \in alive' : t # readyQueueHead' => Ready(t)'
  BY <1>1, <1>2, Client, ReadyStays
<1> QED BY <1>1, <1>2, <1>3, <1>4, <1>5, <1>6, <1>7, Client, StaysClient DEF InClient

LEMMA NewThread ==
  ASSUME NEW t \in TCB, NEW f \in Functions, NEW a \in Args
  PROVE  /\ NewStack \in Seq(Contents) /\ Len(NewStack) = 3
         /\ NewStack[1] = zero /\ NewStack[2] = threadStart /\ NewStack[3] = zero
         /\ NewTCB(t, f, a) \in [Slots -> Contents]
         /\ NewTCB(t, f, a)["rsp"] = [of |-> t, words |-> 3]
         /\ NewTCB(t, f, a)["rdi"] = f /\ NewTCB(t, f, a)["rsi"] = a
         /\ \A r \in Slots \ {"rsp", "rdi", "rsi"} : NewTCB(t, f, a)[r] = zero
<1>1. zero \in Contents /\ threadStart \in Contents /\ f \in Contents /\ a \in Contents
  BY DEF Contents, Code
<1>2. /\ NewStack \in Seq(Contents) /\ Len(NewStack) = 3
      /\ NewStack[1] = zero /\ NewStack[2] = threadStart /\ NewStack[3] = zero
  BY <1>1 DEF NewStack
<1>3. Address(t, Len(NewStack)) = [of |-> t, words |-> 3]
  BY <1>2 DEF Address
<1>4. [of |-> t, words |-> 3] \in Contents
  BY DEF Contents, Addresses
<1> QED BY <1>1, <1>2, <1>3, <1>4 DEF NewTCB, Slots, Registers, Preserved

LEMMA thread_createKeeps == ASSUME Inv, thread_create PROVE Inv'
<1>1. TypeOK /\ OnStack /\ InClient
  BY DEF Inv, thread_create
<1>2. PICK t \in TCB \ heap, f \in Functions, a \in Args :
          /\ stack' = [stack EXCEPT ![t] = NewStack]
          /\ tcb' = [tcb EXCEPT ![t] = NewTCB(t, f, a)]
          /\ heap' = heap \cup {t}
          /\ alive' = alive \cup {t}
  BY DEF thread_create
<1>3. UNCHANGED <<reg, ip, step, readyQueueHead, waitingForCleanup>>
  BY DEF thread_create
<1>4. /\ reg["rsp"].of = readyQueueHead /\ readyQueueHead \in alive
      /\ t # readyQueueHead /\ t \notin alive
      /\ t # waitingForCleanup
  BY <1>1, <1>2, Client, ContextAssumption DEF TypeOK
<1>5. /\ stack' \in [TCB -> Seq(Contents)] /\ tcb' \in [TCB -> [Slots -> Contents]]
      /\ stack'[t] = NewStack /\ tcb'[t] = NewTCB(t, f, a)
      /\ \A u \in TCB : u # t => stack'[u] = stack[u] /\ tcb'[u] = tcb[u]
  BY <1>1, <1>2, NewThread DEF TypeOK
<1>6. TypeOK'
  BY <1>1, <1>2, <1>3, <1>4, <1>5 DEF TypeOK
<1>7. OnStack'
  BY <1>1, <1>3, <1>4, <1>5 DEF OnStack, TypeOK
<1>8. Ready(t)'
  <2> DEFINE new == NewTCB(t, f, a)
  <2>1. /\ new["rsp"] = [of |-> t, words |-> 3] /\ new["rdi"] = f /\ new["rsi"] = a
        /\ Len(NewStack) = 3 /\ NewStack[2] = threadStart
    BY <1>2, NewThread
  <2> HIDE DEF new
  <2>2. new["rsp"] \in Addresses /\ new["rsp"].of = t /\ new["rsp"].words = 3
    BY <1>2, <2>1 DEF Addresses
  <2>3. tcb'[t] = new /\ stack'[t] = NewStack
    BY <1>5 DEF new
  <2>4. /\ new["rsp"].words \in 3 .. Len(NewStack)
        /\ NewStack[new["rsp"].words - 1] = threadStart
    BY <2>1, <2>2
  <2> QED BY <2>1, <2>2, <2>3, <2>4 DEF Ready
<1>9. \A u \in alive' : u # readyQueueHead' => Ready(u)'
  <2> SUFFICES ASSUME NEW u \in alive, u # readyQueueHead PROVE Ready(u)'
    BY <1>2, <1>3, <1>8
  <2> QED BY <1>1, <1>4, <1>5, Client, ReadyStays DEF TypeOK
<1> QED BY <1>1, <1>3, <1>4, <1>6, <1>7, <1>9, StaysClient DEF InClient

\* The call of either function, from the client.
LEMMA Calling ==
  ASSUME Inv, InClient, NEW asm \in {asm_yield, asm_yield_cleanup},
         NEW from \in Code, NEW first \in TCB \cup {NULL}, NEW second \in alive,
         CallAsm(asm, from, first, second), tcb' = tcb
  PROVE  /\ ip' = asm /\ step' = 1 /\ Position' = 1 /\ Steps' /\ Switching'
         /\ reg' \in [Registers -> Contents] /\ reg'["rsp"] \in Addresses
         /\ reg'["rdi"] = first /\ reg'["rsi"] = second
         /\ \A r \in Preserved : reg'[r] = reg[r]
         /\ stack' \in [TCB -> Seq(Contents)]
         /\ reg'["rsp"].of = readyQueueHead
         /\ reg'["rsp"].words = reg["rsp"].words + 1
         /\ OnStack' /\ reg'["rsp"].words >= 2 /\ Top' = from
         /\ \A k \in 1 .. reg["rsp"].words :
                stack'[readyQueueHead][k] = stack[readyQueueHead][k]
         /\ \A t \in alive \ {readyQueueHead} : Ready(t)' /\ stack'[t] = stack[t]
<1> DEFINE head == readyQueueHead
           n == reg["rsp"].words
<1>1. /\ TypeOK /\ OnStack /\ reg["rsp"].of = head
      /\ \A t \in alive \ {head} : Ready(t)
  BY Client DEF Inv
<1>2. /\ ip' = asm /\ step' = 1 /\ stack' = Pushed(from)
      /\ reg' = [reg EXCEPT !["rsp"] = Above, !["rdi"] = first, !["rsi"] = second]
  BY DEF CallAsm
<1>3. from \in Contents /\ first \in Contents /\ second \in Contents
  BY <1>1 DEF Contents, TypeOK
<1>4. /\ stack' \in [TCB -> Seq(Contents)]
      /\ \A t \in TCB : t # head => stack'[t] = stack[t]
      /\ n \in Nat \ {0} /\ Len(stack'[head]) = n + 1 /\ stack'[head][n + 1] = from
      /\ \A k \in 1 .. n : stack'[head][k] = stack[head][k]
      /\ Above \in Addresses /\ Above.of = head /\ Above.words = n + 1
  BY <1>1, <1>2, <1>3, Pushing
<1>5. /\ reg' \in [Registers -> Contents] /\ reg'["rsp"] = Above
      /\ reg'["rdi"] = first /\ reg'["rsi"] = second
      /\ \A r \in Preserved : reg'[r] = reg[r]
  BY <1>1, <1>2, <1>3, <1>4 DEF TypeOK, Registers, Preserved, Contents
<1>6. Position' = 1 /\ Steps' /\ Switching'
  BY <1>2, CodeApart DEF Position, Steps, Switching
<1>7. OnStack' /\ Top' = from
  BY <1>4, <1>5 DEF OnStack, Top
<1>8. \A t \in alive \ {head} : Ready(t)' /\ stack'[t] = stack[t]
  BY <1>1, <1>4, ReadyStays DEF TypeOK
<1>9. /\ reg'["rsp"] \in Addresses /\ reg'["rsp"].of = head
      /\ reg'["rsp"].words = n + 1 /\ reg'["rsp"].words >= 2
  BY <1>4, <1>5
<1> QED BY <1>2, <1>4, <1>5, <1>6, <1>7, <1>8, <1>9

LEMMA YieldsKeeps == ASSUME Inv, Yields PROVE Inv'
<1>1. TypeOK /\ InClient
  BY DEF Inv, Yields
<1>2. PICK next \in alive \ {readyQueueHead}, site \in Sites :
          /\ readyQueueHead' = next
          /\ CallAsm(asm_yield, site, readyQueueHead, next)
  BY DEF Yields
<1>3. UNCHANGED <<tcb, heap, alive, waitingForCleanup>>
  BY DEF Yields
<1> DEFINE old == readyQueueHead
<1>4. /\ site \in Code /\ old \in TCB \cup {NULL} /\ old \in alive
  BY <1>1, <1>2 DEF TypeOK, Code
<1>5. /\ ip' = asm_yield /\ step' = 1 /\ Position' = 1 /\ Steps' /\ Switching'
      /\ reg' \in [Registers -> Contents] /\ reg'["rsp"] \in Addresses
      /\ reg'["rdi"] = old /\ reg'["rsi"] = next
      /\ stack' \in [TCB -> Seq(Contents)]
      /\ reg'["rsp"].of = old /\ OnStack' /\ reg'["rsp"].words >= 2 /\ Top' = site
      /\ \A t \in alive \ {old} : Ready(t)'
  BY <1>1, <1>2, <1>3, <1>4, Calling
<1>6. Saving'
  BY <1>5 DEF Saving
<1>7. TypeOK'
  BY <1>1, <1>2, <1>3, <1>5 DEF TypeOK
<1>8. OthersReady'
  BY <1>3, <1>5, <1>6 DEF OthersReady
<1>9. ClientRuns' /\ Leaves' /\ Loads'
  BY <1>2, <1>5, CodeApart DEF ClientRuns, Leaves, Loads
<1>10. Saves'
  BY <1>2, <1>3, <1>4, <1>5 DEF Saves
<1> QED BY <1>5, <1>7, <1>8, <1>9, <1>10 DEF Inv

LEMMA cleanupKeeps == ASSUME Inv, cleanup PROVE Inv'
<1>1. TypeOK /\ InClient
  BY DEF Inv, cleanup
<1>2. PICK next \in alive \ {readyQueueHead} :
          /\ readyQueueHead' = next
          /\ CallAsm(asm_yield_cleanup, inCleanup, NULL, next)
  BY DEF cleanup
<1> DEFINE old == readyQueueHead
<1>3. /\ heap' = heap \ {waitingForCleanup} /\ alive' = alive \ {old}
      /\ waitingForCleanup' = old /\ tcb' = tcb
  BY DEF cleanup, Freed
<1>4. inCleanup \in Code
  BY DEF Code
<1>5. /\ ip' = asm_yield_cleanup /\ step' = 1 /\ Position' = 1 /\ Steps' /\ Switching'
      /\ reg' \in [Registers -> Contents] /\ reg'["rsp"] \in Addresses
      /\ reg'["rsi"] = next
      /\ stack' \in [TCB -> Seq(Contents)]
      /\ reg'["rsp"].of = old /\ OnStack'
      /\ \A t \in alive \ {old} : Ready(t)'
  BY <1>1, <1>2, <1>3, <1>4, Calling
<1>6. ~Saving'
  BY <1>5, CodeApart DEF Saving
<1>7. waitingForCleanup \notin alive /\ old \in heap
  BY <1>1, ContextAssumption DEF TypeOK
<1>8. TypeOK'
  BY <1>1, <1>2, <1>3, <1>5, <1>7 DEF TypeOK
<1>9. OthersReady'
  BY <1>3, <1>5 DEF OthersReady
<1>10. ClientRuns' /\ Saves' /\ Leaves' /\ Loads'
  BY <1>2, <1>3, <1>5, <1>6 DEF ClientRuns, Saves, Leaves, Loads
<1> QED BY <1>5, <1>8, <1>9, <1>10 DEF Inv

-----------------------------------------------------------------------------
(* Theorems *)

LEMMA InitHolds == Init => Inv
<1> SUFFICES ASSUME Init PROVE Inv
  OBVIOUS
<1>1. ~Switching /\ ip # threadStart /\ Steps
  BY CodeApart DEF Init, Switching, Steps
<1>2. Address(Main, 1) \in Addresses /\ zero \in Contents /\ Main \in TCB
  BY ContextAssumption DEF Addresses, Address, Contents
<1>3. /\ reg \in [Registers -> Contents] /\ reg["rsp"] = Address(Main, 1)
  BY <1>2 DEF Init, Registers, Contents
<1>4. /\ stack \in [TCB -> Seq(Contents)] /\ stack[Main] = <<zero>> /\ Len(stack[Main]) = 1
  BY <1>2 DEF Init
<1>5. tcb \in [TCB -> [Slots -> Contents]]
  BY <1>2 DEF Init
<1>6. TypeOK
  BY <1>2, <1>3, <1>4, <1>5 DEF Init, TypeOK
<1>7. OnStack
  <2>1. reg["rsp"].of = Main /\ reg["rsp"].words = 1
    BY <1>3 DEF Address
  <2>2. Len(stack[reg["rsp"].of]) = 1
    BY <1>4, <2>1
  <2>3. reg["rsp"].words \in 1 .. 1
    BY <2>1
  <2> QED BY <2>2, <2>3 DEF OnStack
<1>8. OthersReady /\ ClientRuns
  BY <1>1, <1>3 DEF Init, OthersReady, ClientRuns, Address
<1>9. Saves /\ Leaves /\ Loads
  BY <1>1 DEF Saves, Saving, Leaves, Loads, Switching
<1> QED BY <1>1, <1>6, <1>7, <1>8, <1>9 DEF Inv

LEMMA NextKeeps == Inv /\ [Next]_vars => Inv'
<1> SUFFICES ASSUME Inv, [Next]_vars PROVE Inv'
  OBVIOUS
<1>1. CASE UNCHANGED vars
  BY <1>1 DEF vars, Inv, TypeOK, Steps, OnStack, OthersReady, Ready, ClientRuns, Saves,
      Leaves, Loads, Position, Saving, Switching, Top
<1>2. CASE Next
  BY <1>2, pushqKeeps, movqKeeps, savesKeeps, loadsKeeps, popqKeeps, retKeeps,
      CallWorkKeeps, ComputeKeeps, PushKeeps, PopKeeps, thread_createKeeps,
      YieldsKeeps, cleanupKeeps DEF Next
<1> QED BY <1>1, <1>2

LEMMA Invariance == Spec => []Inv
BY InitHolds, NextKeeps, PTL DEF Spec

LEMMA InvIsSound == Inv => StacksSound
<1> SUFFICES ASSUME Inv PROVE StacksSound
  OBVIOUS
<1>1. TypeOK /\ alive \subseteq heap /\ readyQueueHead \in alive
  BY DEF Inv, TypeOK
<1>2. reg["rsp"].of \in TCB
  BY <1>1 DEF TypeOK, Addresses
<1>3. CASE ~Switching
  BY <1>1, <1>3 DEF Inv, ClientRuns, StacksSound
<1>4. CASE Switching
  <2>1. ip # threadStart
    BY <1>4, CodeApart DEF Switching
  <2>2. Position \in 1 .. 20
    BY <1>1, <1>4, SameCode DEF Inv, TypeOK
  <2>3. CASE Saving
    BY <1>1, <1>4, <2>1, <2>3 DEF Inv, Saves, StacksSound
  <2>4. CASE ~Saving /\ Position <= 11
    <3>1. reg["rsp"].of = waitingForCleanup
      BY <1>4, <2>4 DEF Inv, Leaves, Saving, Switching
    <3> QED BY <1>1, <1>2, <1>4, <2>1, <3>1, ContextAssumption DEF TypeOK, StacksSound
  <2>5. CASE Position > 11
    <3>1. Ready(readyQueueHead)
      BY <1>1, <1>4, <2>2, <2>5, SavedIsReady DEF Saving
    <3>2. tcb[readyQueueHead]["rsp"].of = readyQueueHead /\ tcb[readyQueueHead]["rsp"] \in Addresses
      BY <3>1 DEF Ready
    <3>3. reg["rsp"].of = readyQueueHead
      BY <1>4, <2>2, <2>5, <3>2 DEF Inv, Loads, Addresses
    <3> QED BY <1>1, <1>4, <2>1, <3>3 DEF StacksSound
  <2> QED BY <2>2, <2>3, <2>4, <2>5
<1> QED BY <1>3, <1>4

\* A switch never touches the memory of a thread that has been freed, and every
\* thread begins on an aligned stack (thread.c:208-217, 257-271, thread_asm.s:38-56):
\* at any depth of stacks, with any number of threads.
THEOREM StacksAlwaysSound == Spec => []StacksSound
BY Invariance, InvIsSound, PTL

-----------------------------------------------------------------------------
(* Threads are coroutines *)

LEMMA SamePrefix ==
  ASSUME NEW S, NEW s \in Seq(S), NEW r \in Seq(S), NEW m \in 0 .. Len(s), m <= Len(r),
         \A k \in 1 .. m : r[k] = s[k]
  PROVE  /\ SubSeq(r, 1, m) = SubSeq(s, 1, m)
         /\ SubSeq(s, 1, m) \in Seq(S) /\ Len(SubSeq(s, 1, m)) = m
         /\ \A k \in 1 .. m : SubSeq(s, 1, m)[k] = s[k]
<1> DEFINE b == SubSeq(s, 1, m)
           c == SubSeq(r, 1, m)
<1>1. b \in Seq(S) /\ Len(b) = m /\ \A k \in 1 .. m : b[k] = s[k]
  BY SubSeqProperties
<1>2. c \in Seq(S) /\ Len(c) = m /\ \A k \in 1 .. m : c[k] = r[k]
  BY SubSeqProperties
<1> HIDE DEF b, c
<1>3. b = c
  BY <1>1, <1>2, SeqEqual
<1> QED BY <1>1, <1>3 DEF b, c

LEMMA FirstOnly ==
  ASSUME NEW S, NEW s \in Seq(S), Len(s) >= 1, NEW x \in S, s[1] = x
  PROVE  SubSeq(s, 1, 1) = <<x>>
<1> DEFINE b == SubSeq(s, 1, 1)
<1>1. 1 \in 0 .. Len(s) /\ 1 <= Len(s)
  BY LenProperties
<1>2. b \in Seq(S) /\ Len(b) = 1 /\ \A k \in 1 .. 1 : b[k] = s[k]
  BY <1>1, SamePrefix
<1> HIDE DEF b
<1>3. <<x>> \in Seq(S) /\ Len(<<x>>) = 1 /\ <<x>>[1] = x
  OBVIOUS
<1>4. \A k \in 1 .. Len(b) : b[k] = <<x>>[k]
  BY <1>2, <1>3
<1>5. b = <<x>>
  BY <1>2, <1>3, <1>4, SeqEqual
<1> QED BY <1>5 DEF b

\* The contexts of the three kinds of threads, before and after a step.
LEMMA Contexts ==
  ASSUME Inv, NEW t \in alive
  PROVE  /\ Saving /\ t = reg["rdi"] =>
                Context(t) = IF Position = 1
                             THEN Has(t, reg["rsp"].words - 1, stack[t][reg["rsp"].words])
                             ELSE Resumes(t, reg, reg["rsp"].words)
         /\ ~Switching /\ t = readyQueueHead => Context(t) = Has(t, reg["rsp"].words, ip)
         /\ ~(Saving /\ t = reg["rdi"]) /\ ~(~Switching /\ t = readyQueueHead) =>
                Context(t) = Resumes(t, tcb[t], tcb[t]["rsp"].words)
<1>1. ip = asm_yield => Position = step
  BY DEF Position
<1>2. BeingSaved(t) <=> Saving /\ t = reg["rdi"]
  BY <1>1 DEF BeingSaved, Saving
<1>3. Saving => Position = step /\ Switching
  BY <1>1 DEF Saving, Switching
<1> QED BY <1>2, <1>3 DEF Context

LEMMA ContextsAfter ==
  ASSUME Inv', NEW t \in alive'
  PROVE  /\ Saving' /\ t = reg'["rdi"] =>
                Context(t)' = IF Position' = 1
                              THEN Has(t, reg["rsp"].words - 1, stack[t][reg["rsp"].words])'
                              ELSE Resumes(t, reg, reg["rsp"].words)'
         /\ ~Switching' /\ t = readyQueueHead' => Context(t)' = Has(t, reg["rsp"].words, ip)'
         /\ ~(Saving' /\ t = reg'["rdi"]) /\ ~(~Switching' /\ t = readyQueueHead') =>
                Context(t)' = Resumes(t, tcb[t], tcb[t]["rsp"].words)'
<1>1. ip' = asm_yield => Position' = step'
  BY DEF Position
<1>2. BeingSaved(t)' <=> Saving' /\ t = reg'["rdi"]
  BY <1>1 DEF BeingSaved, Saving
<1>3. Saving' => Position' = step' /\ Switching'
  BY <1>1 DEF Saving, Switching
<1> QED BY <1>2, <1>3 DEF Context

\* A thread that does not run, and whose memory stays as it is, stays as it is.
LEMMA Sleeps ==
  ASSUME Inv, Inv', NEW t \in alive, t \in alive',
         tcb'[t] = tcb[t], stack'[t] = stack[t],
         ~(Saving /\ t = reg["rdi"]), ~(~Switching /\ t = readyQueueHead),
         ~(Saving' /\ t = reg'["rdi"]), ~(~Switching' /\ t = readyQueueHead')
  PROVE  Context(t)' = Context(t)
<1>1. Context(t) = Resumes(t, tcb[t], tcb[t]["rsp"].words)
  BY Contexts
<1>2. Context(t)' = Resumes(t, tcb[t], tcb[t]["rsp"].words)'
  BY ContextsAfter
<1> QED BY <1>1, <1>2 DEF Resumes

LEMMA pushqStutters == ASSUME Inv, pushq, NEW t \in alive PROVE Context(t)' = Context(t)
<1> DEFINE n == reg["rsp"].words
<1>1. TypeOK /\ Steps /\ OnStack /\ Switching /\ step \in Nat /\ Continues /\ Inv'
  BY pushqKeeps DEF Inv, TypeOK, pushq, Executes
<1>2. /\ Position = 1 /\ stack' = Pushed(reg["rbp"]) /\ reg' = [reg EXCEPT !["rsp"] = Above]
      /\ UNCHANGED <<tcb, heap, alive, readyQueueHead, waitingForCleanup>>
  BY <1>1, Positions DEF pushq, threadVars
<1>3. Switching' /\ ip' = ip /\ Position' = 2
  BY <1>1, <1>2, Advance
<1>4. reg["rbp"] \in Contents
  BY <1>1 DEF TypeOK, Registers, Preserved
<1>5. /\ \A u \in TCB : u # reg["rsp"].of => stack'[u] = stack[u]
      /\ LET o == reg["rsp"].of
         IN  /\ o \in TCB /\ n \in Nat \ {0}
             /\ Len(stack'[o]) = n + 1 /\ stack'[o][n + 1] = reg["rbp"]
             /\ \A k \in 1 .. n : stack'[o][k] = stack[o][k]
      /\ Above \in Addresses /\ Above.words = n + 1
      /\ stack' \in [TCB -> Seq(Contents)]
  BY <1>1, <1>2, <1>4, Pushing
<1>6. /\ reg'["rsp"] = Above
      /\ \A r \in Registers \ {"rsp"} : reg'[r] = reg[r]
  BY <1>1, <1>2, <1>5 DEF TypeOK, Registers
<1>7. /\ reg'["rdi"] = reg["rdi"] /\ reg'["rsi"] = reg["rsi"] /\ reg'["rbp"] = reg["rbp"]
      /\ \A r \in Preserved : reg'[r] = reg[r]
  BY <1>6 DEF Registers, Preserved
<1>8. Saving' <=> Saving
  BY <1>2, <1>3 DEF Saving
<1> HIDE DEF Position
<1>9. CASE Saving /\ t = reg["rdi"]
  <2>1. reg["rsp"].of = t /\ t \in TCB
    BY <1>1, <1>9 DEF Inv, Saves, TypeOK
  <2>2. /\ Context(t) = Has(t, n - 1, stack[t][n])
        /\ Context(t)' = Resumes(t, reg, reg["rsp"].words)'
    <3>1. Context(t) = Has(t, n - 1, stack[t][n])
      BY <1>2, <1>9, Contexts
    <3>2. t \in alive' /\ Saving' /\ t = reg'["rdi"] /\ Position' # 1
      BY <1>2, <1>3, <1>7, <1>8, <1>9
    <3>3. Context(t)' = Resumes(t, reg, reg["rsp"].words)'
      BY <1>1, <3>2, ContextsAfter
    <3> QED BY <3>1, <3>3
  <2>3. reg'["rsp"].words = n + 1 /\ n \in Nat \ {0}
    BY <1>5, <1>6
  <2>4. /\ stack'[t][n + 1] = reg["rbp"] /\ stack'[t][n] = stack[t][n]
    BY <1>5, <2>1
  <2>5. SubSeq(stack'[t], 1, n - 1) = SubSeq(stack[t], 1, n - 1)
    <3>1. stack[t] \in Seq(Contents) /\ stack'[t] \in Seq(Contents)
      BY <1>1, <1>5, <2>1 DEF TypeOK
    <3>2. n - 1 \in 0 .. Len(stack[t]) /\ n - 1 <= Len(stack'[t])
      BY <1>1, <1>5, <2>1, <3>1, LenProperties DEF OnStack
    <3>3. \A k \in 1 .. n - 1 : stack'[t][k] = stack[t][k]
      BY <1>5, <2>1
    <3> HIDE DEF n
    <3> QED BY <3>1, <3>2, <3>3, SamePrefix
  <2> HIDE DEF n
  <2>6. n + 1 - 2 = n - 1 /\ n + 1 - 1 = n
    BY <2>3
  <2>7. Resumes(t, reg, reg["rsp"].words)' =
            [regs |-> [r \in Preserved |-> IF r = "rbp" THEN stack'[t][n + 1] ELSE reg'[r]],
             frames |-> SubSeq(stack'[t], 1, n - 1),
             pc |-> Place(stack'[t][n], reg'["rdi"], reg'["rsi"])]
    BY <2>3, <2>6 DEF Resumes
  <2>8. [r \in Preserved |-> IF r = "rbp" THEN stack'[t][n + 1] ELSE reg'[r]]
            = [r \in Preserved |-> reg[r]]
    BY <1>7, <2>4
  <2> QED BY <1>7, <2>2, <2>4, <2>5, <2>7, <2>8 DEF Has
<1>10. CASE ~(Saving /\ t = reg["rdi"])
  <2>1. t # reg["rsp"].of
    BY <1>1, <1>2, <1>10, OwnStack
  <2>2. stack'[t] = stack[t] /\ tcb'[t] = tcb[t]
    BY <1>1, <1>2, <1>5, <2>1 DEF TypeOK
  <2> QED BY <1>1, <1>2, <1>3, <1>7, <1>8, <1>10, <2>2, Sleeps
<1> QED BY <1>9, <1>10

\* While asm_yield runs on after its first instruction: what the old thread will
\* resume with depends on its registers, but for rbp, and its stack.
LEMMA StillSaving ==
  ASSUME Inv, Inv', NEW t \in alive, t \in alive', Saving, Saving',
         Position \in 2 .. 11, Position' # 1,
         t = reg["rdi"], stack'[t] = stack[t],
         \A r \in Registers \ {"rbp"} : reg'[r] = reg[r]
  PROVE  Context(t)' = Context(t)
<1>1. reg'["rdi"] = reg["rdi"] /\ reg'["rsi"] = reg["rsi"] /\ reg'["rsp"] = reg["rsp"]
  BY DEF Registers
<1>2. \A r \in Preserved \ {"rbp"} : reg'[r] = reg[r]
  BY DEF Registers, Preserved
<1>3. Context(t) = Resumes(t, reg, reg["rsp"].words)
  BY Contexts
<1>4. Context(t)' = Resumes(t, reg, reg["rsp"].words)'
  BY <1>1, ContextsAfter
<1> DEFINE n == reg["rsp"].words
<1>5. [r \in Preserved |-> IF r = "rbp" THEN stack'[t][n] ELSE reg'[r]]
        = [r \in Preserved |-> IF r = "rbp" THEN stack[t][n] ELSE reg[r]]
  BY <1>2
<1> QED BY <1>1, <1>3, <1>4, <1>5 DEF Resumes

LEMMA movqStutters == ASSUME Inv, movq, NEW t \in alive PROVE Context(t)' = Context(t)
<1>1. TypeOK /\ Steps /\ Switching /\ step \in Nat /\ Continues /\ Inv'
  BY movqKeeps DEF Inv, TypeOK, movq, Executes
<1>2. /\ Position = 2 /\ reg' = [reg EXCEPT !["rbp"] = reg["rsp"]]
      /\ UNCHANGED <<stack, tcb, heap, alive, readyQueueHead, waitingForCleanup>>
  BY <1>1, Positions DEF movq, threadVars
<1>3. /\ Switching' /\ ip' = ip /\ (ip = asm_yield => Position' = 3) /\ Position' # 1
  BY <1>1, <1>2, Advance
<1>4. \A r \in Registers \ {"rbp"} : reg'[r] = reg[r]
  BY <1>1, <1>2 DEF TypeOK, Registers
<1>5. reg'["rdi"] = reg["rdi"]
  BY <1>4 DEF Registers
<1> HIDE DEF Position
<1>6. Saving' <=> Saving
  BY <1>1, <1>2, <1>3 DEF Saving, Switching, Inv, Steps, Position
<1>7. CASE Saving /\ t = reg["rdi"]
  BY <1>1, <1>2, <1>3, <1>4, <1>6, <1>7, StillSaving
<1>8. CASE ~(Saving /\ t = reg["rdi"])
  BY <1>1, <1>2, <1>3, <1>5, <1>6, <1>8, Sleeps
<1> QED BY <1>7, <1>8

LEMMA savesStutters == ASSUME Inv, saves, NEW t \in alive PROVE Context(t)' = Context(t)
<1>1. TypeOK /\ Steps /\ Switching /\ step \in Nat /\ Continues /\ Inv'
  BY savesKeeps DEF Inv, TypeOK, saves, Executes
<1>2. /\ Position \in 3 .. 10
      /\ tcb' = [tcb EXCEPT ![reg["rdi"]][Slot(Position)] = reg[Slot(Position)]]
      /\ UNCHANGED <<reg, stack, heap, alive, readyQueueHead, waitingForCleanup>>
  BY <1>1, Positions DEF saves, threadVars
<1>3. ip = asm_yield
  BY <1>1, <1>2, SameCode
<1>4. Switching' /\ ip' = ip /\ Position' = Position + 1
  BY <1>1, <1>2, <1>3, Advance
<1> HIDE DEF Position
<1>5. Saving /\ Saving'
  BY <1>2, <1>3, <1>4 DEF Saving
<1>6. CASE t = reg["rdi"]
  BY <1>1, <1>2, <1>4, <1>5, <1>6, StillSaving
<1>7. CASE t # reg["rdi"]
  <2>1. tcb'[t] = tcb[t]
    BY <1>1, <1>2, <1>7 DEF TypeOK
  <2> QED BY <1>1, <1>2, <1>4, <1>7, <2>1, Sleeps
<1> QED BY <1>6, <1>7

LEMMA PreservedSlots ==
  /\ \A r \in Preserved \ {"rbp"} : \E k \in 3 .. 10 : r = Slot(k)
  /\ \A r \in Preserved \ {"rbp"} : \E k \in 12 .. 18 : r = Slot(k)
<1>1. /\ Slot(6) = "rbx" /\ Slot(7) = "r12" /\ Slot(8) = "r13" /\ Slot(9) = "r14"
      /\ Slot(10) = "r15"
      /\ Slot(13) = "rbx" /\ Slot(14) = "r12" /\ Slot(15) = "r13" /\ Slot(16) = "r14"
      /\ Slot(17) = "r15"
  BY YieldCode DEF Slot
<1> HIDE DEF Slot
<1>2. 6 \in 3 .. 10 /\ 7 \in 3 .. 10 /\ 8 \in 3 .. 10 /\ 9 \in 3 .. 10 /\ 10 \in 3 .. 10
  OBVIOUS
<1>3. /\ 13 \in 12 .. 18 /\ 14 \in 12 .. 18 /\ 15 \in 12 .. 18 /\ 16 \in 12 .. 18
      /\ 17 \in 12 .. 18
  OBVIOUS
<1> QED BY <1>1, <1>2, <1>3 DEF Preserved

\* When the new thread's rsp is loaded, the old thread's block holds all of it.
LEMMA SavedIsAll ==
  ASSUME Inv, Saving, Position = 11, NEW t \in alive, t = reg["rdi"]
  PROVE  Resumes(t, reg, reg["rsp"].words) = Resumes(t, tcb[t], tcb[t]["rsp"].words)
<1> DEFINE n == reg["rsp"].words
<1>1. /\ \A k \in 3 .. 10 : tcb[t][Slot(k)] = reg[Slot(k)]
      /\ stack[t][n - 1] \in Sites
  BY DEF Inv, Saves
<1>2. tcb[t]["rsp"] = reg["rsp"]
  BY <1>1, SlotNames
<1>3. [r \in Preserved |-> IF r = "rbp" THEN stack[t][n] ELSE reg[r]]
        = [r \in Preserved |-> IF r = "rbp" THEN stack[t][n] ELSE tcb[t][r]]
  BY <1>1, PreservedSlots
<1>4. \A x, y : Place(stack[t][n - 1], x, y) = stack[t][n - 1]
  BY <1>1, CodeApart DEF Place
<1>5. /\ Resumes(t, reg, n)
           = [regs |-> [r \in Preserved |-> IF r = "rbp" THEN stack[t][n] ELSE reg[r]],
              frames |-> SubSeq(stack[t], 1, n - 2), pc |-> stack[t][n - 1]]
      /\ Resumes(t, tcb[t], n)
           = [regs |-> [r \in Preserved |-> IF r = "rbp" THEN stack[t][n] ELSE tcb[t][r]],
              frames |-> SubSeq(stack[t], 1, n - 2), pc |-> stack[t][n - 1]]
  BY <1>4 DEF Resumes
<1> QED BY <1>2, <1>3, <1>5

LEMMA loadsStutters == ASSUME Inv, loads, NEW t \in alive PROVE Context(t)' = Context(t)
<1>1. TypeOK /\ Steps /\ Switching /\ step \in Nat /\ Continues /\ Inv'
  BY loadsKeeps DEF Inv, TypeOK, loads, Executes
<1>2. /\ Position \in 11 .. 18
      /\ UNCHANGED <<stack, tcb, heap, alive, readyQueueHead, waitingForCleanup>>
  BY <1>1, Positions DEF loads, threadVars
<1>3. Switching' /\ Position' = Position + 1
  BY <1>1, <1>2, Advance
<1> HIDE DEF Position
<1>4. ~Saving'
  BY <1>2, <1>3 DEF Saving
<1>5. CASE Saving /\ t = reg["rdi"]
  <2>1. Position = 11
    BY <1>2, <1>5 DEF Saving
  <2>2. Context(t) = Resumes(t, tcb[t], tcb[t]["rsp"].words)
    BY <1>5, <2>1, Contexts, SavedIsAll
  <2>3. Context(t)' = Resumes(t, tcb[t], tcb[t]["rsp"].words)'
    BY <1>1, <1>2, <1>3, <1>4, ContextsAfter
  <2> QED BY <1>2, <2>2, <2>3 DEF Resumes
<1>6. CASE ~(Saving /\ t = reg["rdi"])
  BY <1>1, <1>2, <1>3, <1>4, <1>6, Sleeps
<1> QED BY <1>5, <1>6

LEMMA popqStutters == ASSUME Inv, popq, NEW t \in alive PROVE Context(t)' = Context(t)
<1>1. TypeOK /\ Steps /\ Switching /\ step \in Nat /\ Continues /\ Inv'
  BY popqKeeps DEF Inv, TypeOK, popq, Executes
<1>2. /\ Position = 19
      /\ UNCHANGED <<stack, tcb, heap, alive, readyQueueHead, waitingForCleanup>>
  BY <1>1, Positions DEF popq, threadVars
<1>3. Switching' /\ Position' = 20
  BY <1>1, <1>2, Advance
<1> HIDE DEF Position
<1>4. ~Saving /\ ~Saving'
  BY <1>2, <1>3 DEF Saving
<1> QED BY <1>1, <1>2, <1>3, <1>4, Sleeps

LEMMA retStutters == ASSUME Inv, ret, NEW t \in alive PROVE Context(t)' = Context(t)
<1> DEFINE n == tcb[t]["rsp"].words
<1>1. TypeOK /\ Steps /\ Switching /\ step \in Nat /\ Inv'
  BY retKeeps DEF Inv, TypeOK, ret, Executes
<1>2. /\ Position = 20 /\ ip' = Top /\ reg' = [reg EXCEPT !["rsp"] = Below]
      /\ UNCHANGED <<stack, tcb, heap, alive, readyQueueHead, waitingForCleanup>>
  BY <1>1, Positions DEF ret, threadVars
<1> HIDE DEF Position
<1>3. ~Saving
  BY <1>2 DEF Saving
<1>4. Ready(t)
  BY <1>1, <1>2, <1>3, SavedIsReady
<1>5. /\ tcb[t]["rsp"] \in Addresses /\ tcb[t]["rsp"].of = t /\ n \in Nat /\ n >= 3
      /\ stack[t][n - 1] \in Sites \cup {threadStart}
  <2>1. n \in Nat /\ tcb[t]["rsp"] \in Addresses
    BY <1>4 DEF Ready, Addresses
  <2> QED BY <1>4, <2>1 DEF Ready
<1>6. CASE t = readyQueueHead
  <2>1. /\ reg["rsp"] = [tcb[t]["rsp"] EXCEPT !.words = @ - 1]
        /\ reg["rbp"] = stack[t][n]
        /\ \A k \in 12 .. 18 : reg[Slot(k)] = tcb[t][Slot(k)]
    BY <1>1, <1>2, <1>6 DEF Inv, Loads
  <2>2. reg["rsp"].of = t /\ reg["rsp"].words = n - 1 /\ reg["rsp"] \in Addresses
    BY <1>5, <2>1 DEF Addresses
  <2>3. Top = stack[t][n - 1] /\ Below.words = n - 2
    BY <1>5, <2>2 DEF Top, Below, Addresses
  <2>4. /\ reg'["rsp"] = Below
        /\ \A r \in Registers \ {"rsp"} : reg'[r] = reg[r]
    BY <1>1, <1>2 DEF TypeOK, Registers
  <2>5. /\ reg'["rdi"] = tcb[t]["rdi"] /\ reg'["rsi"] = tcb[t]["rsi"]
        /\ reg'["rbp"] = stack[t][n]
        /\ \A r \in Preserved \ {"rbp"} : reg'[r] = tcb[t][r]
    <3>1. \A r \in {"rdi", "rsi", "rbp"} \cup Preserved : reg'[r] = reg[r]
      BY <2>4 DEF Registers, Preserved
    <3>2. reg["rdi"] = tcb[t]["rdi"] /\ reg["rsi"] = tcb[t]["rsi"]
      BY <2>1, SlotNames
    <3>3. \A r \in Preserved \ {"rbp"} : reg[r] = tcb[t][r]
      BY <2>1, PreservedSlots
    <3> QED BY <2>1, <3>1, <3>2, <3>3
  <2>6. ~Switching' /\ ip' = stack[t][n - 1]
    BY <1>2, <1>5, <2>3, CodeApart DEF Switching
  <2>7. Context(t)' = Has(t, reg["rsp"].words, ip)'
    BY <1>1, <1>2, <1>6, <2>6, ContextsAfter
  <2>8. Context(t) = Resumes(t, tcb[t], n)
    BY <1>1, <1>3, Contexts
  <2>9. [r \in Preserved |-> reg'[r]]
          = [r \in Preserved |-> IF r = "rbp" THEN stack[t][n] ELSE tcb[t][r]]
    BY <2>5
  <2> HIDE DEF n
  <2>10. Has(t, reg["rsp"].words, ip)' =
            [regs |-> [r \in Preserved |-> reg'[r]], frames |-> SubSeq(stack[t], 1, n - 2),
             pc |-> Place(stack[t][n - 1], tcb[t]["rdi"], tcb[t]["rsi"])]
    BY <1>2, <2>3, <2>4, <2>5, <2>6 DEF Has
  <2> QED BY <2>7, <2>8, <2>9, <2>10 DEF Resumes
<1>7. CASE t # readyQueueHead
  <2>1. ~Saving'
    BY <1>1 DEF Inv, Steps, Saving, ret
  <2> QED BY <1>1, <1>2, <1>3, <1>7, <2>1, Sleeps
<1> QED BY <1>6, <1>7

contexts == [t \in alive |-> Context(t)]

\* The running client has its context.
LEMMA Running ==
  ASSUME Inv, ~Switching
  PROVE  /\ Context(readyQueueHead) = Has(readyQueueHead, reg["rsp"].words, ip)
         /\ contexts[readyQueueHead] = Context(readyQueueHead)
         /\ Len(Context(readyQueueHead).frames) = reg["rsp"].words
         /\ InClient => C!InClient
         /\ readyQueueHead \in alive /\ readyQueueHead \in TCB
         /\ stack[readyQueueHead] \in Seq(Contents)
         /\ reg["rsp"].words \in Nat \ {0}
         /\ reg["rsp"].words <= Len(stack[readyQueueHead])
         /\ Len(stack[readyQueueHead]) \in Nat
<1> DEFINE head == readyQueueHead
           n == reg["rsp"].words
<1>1. /\ head \in alive /\ head \in TCB /\ stack[head] \in Seq(Contents)
      /\ reg["rsp"].of = head
  BY DEF Inv, TypeOK, ClientRuns
<1>2. Context(head) = Has(head, n, ip)
  BY <1>1, Contexts
<1>3. contexts[head] = Context(head)
  BY <1>1 DEF contexts
<1>4. Len(stack[head]) \in Nat /\ n \in 1 .. Len(stack[head])
  BY <1>1, LenProperties DEF Inv, OnStack
<1>5. Len(SubSeq(stack[head], 1, n)) = n
  <2> HIDE DEF n, head
  <2> QED BY <1>1, <1>4, SamePrefix
<1>6. Len(Context(head).frames) = n
  <2>1. Context(head).frames = SubSeq(stack[head], 1, n)
    <3> DEFINE regs == [r \in Preserved |-> reg[r]]
               frames == SubSeq(stack[head], 1, n)
               pc == Place(ip, reg["rdi"], reg["rsi"])
    <3>1. Context(head) = [regs |-> regs, frames |-> frames, pc |-> pc]
      BY <1>2 DEF Has
    <3> HIDE DEF regs, frames, pc
    <3>2. Context(head).frames = frames
      BY <3>1
    <3> QED BY <3>2 DEF frames
  <2> QED BY <1>5, <2>1
<1>7. InClient => C!InClient
  <2> HAVE InClient
  <2>1. Context(head).pc = ip
    BY <1>2, CodeApart DEF Has, Place, InClient
  <2> QED BY <1>3, <2>1 DEF C!InClient, InClient, contexts
<1> QED BY <1>1, <1>2, <1>3, <1>4, <1>6, <1>7

\* Only the running client's context changes.
LEMMA OneChanges ==
  ASSUME readyQueueHead \in alive, alive' = alive, readyQueueHead' = readyQueueHead,
         \A t \in alive : t # readyQueueHead => Context(t)' = Context(t)
  PROVE  contexts' = [contexts EXCEPT ![readyQueueHead] = Context(readyQueueHead)']
BY DEF contexts

LEMMA ClientSleeps ==
  ASSUME Inv, Inv', ~Switching, ~Switching', NEW t \in alive, t \in alive',
         t # readyQueueHead, readyQueueHead' = readyQueueHead,
         tcb'[t] = tcb[t], stack'[t] = stack[t]
  PROVE  Context(t)' = Context(t)
BY Sleeps DEF Saving, Switching

LEMMA CallWorkBegins == ASSUME Inv, CallWork PROVE C!Begin
<1> DEFINE head == readyQueueHead
           n == reg["rsp"].words
<1>1. ~Switching /\ Inv'
  BY CallWorkKeeps, CodeApart DEF CallWork, Switching
<1>2. /\ ip = threadStart /\ ip' = reg["rdi"] /\ reg["rdi"] \in Functions /\ reg["rsi"] \in Args
      /\ reg' = [reg EXCEPT !["rdi"] = reg["rsi"]]
      /\ UNCHANGED <<step, stack, tcb, heap, alive, readyQueueHead, waitingForCleanup>>
  BY <1>1 DEF CallWork, threadVars, Inv, ClientRuns
<1>3. ~Switching' /\ ip' # threadStart
  BY <1>2, CodeApart DEF Switching
<1>4. /\ Context(head) = Has(head, n, ip) /\ contexts[head] = Context(head)
      /\ head \in alive
  BY <1>1, Running
<1>5. Context(head)' = Has(head, reg["rsp"].words, ip)'
  BY <1>1, <1>2, <1>3, <1>4, ContextsAfter
<1>6. /\ reg'["rsp"] = reg["rsp"]
      /\ \A r \in Preserved : reg'[r] = reg[r]
  BY <1>2 DEF Inv, TypeOK, Registers, Preserved
<1> DEFINE regs == [r \in Preserved |-> reg[r]]
           frames == SubSeq(stack[head], 1, n)
           pc == <<reg["rdi"], reg["rsi"]>>
<1>7. Context(head) = [regs |-> regs, frames |-> frames, pc |-> pc]
  BY <1>2, <1>4 DEF Has, Place
<1>8. Context(head)' = [regs |-> regs, frames |-> frames, pc |-> reg["rdi"]]
  <2>1. Place(ip', reg'["rdi"], reg'["rsi"]) = reg["rdi"]
    BY <1>2, <1>3 DEF Place
  <2>2. [r \in Preserved |-> reg'[r]] = regs
    BY <1>6
  <2> QED BY <1>2, <1>5, <1>6, <2>1, <2>2 DEF Has
<1> HIDE DEF regs, frames, pc
<1>9. \A t \in alive : t # head => Context(t)' = Context(t)
  BY <1>1, <1>2, <1>3, ClientSleeps
<1>10. contexts' = [contexts EXCEPT ![head].pc = reg["rdi"]]
  <2>1. contexts' = [contexts EXCEPT ![head] = Context(head)']
    BY <1>2, <1>4, <1>9, OneChanges
  <2>2. [contexts[head] EXCEPT !.pc = reg["rdi"]] = Context(head)'
    BY <1>4, <1>7, <1>8
  <2> QED BY <2>1, <2>2
<1>11. contexts[head].pc = <<reg["rdi"], reg["rsi"]>>
  BY <1>4, <1>7 DEF pc
<1> QED BY <1>2, <1>10, <1>11 DEF C!Begin, C!Begins, contexts

\* The context of the running client, in the parts that its own steps replace.
LEMMA ClientContext ==
  ASSUME Inv, InClient
  PROVE  contexts[readyQueueHead] =
             [regs |-> [r \in Preserved |-> reg[r]],
              frames |-> SubSeq(stack[readyQueueHead], 1, reg["rsp"].words),
              pc |-> ip]
<1>1. ~Switching /\ Place(ip, reg["rdi"], reg["rsi"]) = ip
  BY CodeApart DEF InClient, Switching, Place
<1> QED BY <1>1, Running DEF Has

LEMMA ClientContextAfter ==
  ASSUME Inv', InClient'
  PROVE  Context(readyQueueHead)' =
             [regs |-> [r \in Preserved |-> reg'[r]],
              frames |-> SubSeq(stack'[readyQueueHead'], 1, reg'["rsp"].words),
              pc |-> ip']
<1>1. ~Switching' /\ Place(ip', reg'["rdi"], reg'["rsi"]) = ip'
  BY CodeApart DEF InClient, Switching, Place
<1>2. readyQueueHead' \in alive'
  BY DEF Inv, TypeOK
<1>3. Context(readyQueueHead)' = Has(readyQueueHead, reg["rsp"].words, ip)'
  BY <1>1, <1>2, ContextsAfter
<1> QED BY <1>1, <1>3 DEF Has

LEMMA ComputeComputes == ASSUME Inv, Compute PROVE C!Compute
<1> DEFINE head == readyQueueHead
           n == reg["rsp"].words
           frames == SubSeq(stack[head], 1, n)
<1>1. InClient /\ ~Switching /\ Inv' /\ TypeOK
  BY ComputeKeeps, Client DEF Compute, Inv
<1>2. PICK file \in Files :
          reg' = [r \in Registers |-> IF r \in Preserved THEN file[r] ELSE reg[r]]
  BY DEF Compute
<1>3. UNCHANGED <<ip, step, stack, tcb, heap, alive, readyQueueHead, waitingForCleanup>>
  BY DEF Compute, threadVars
<1>4. InClient' /\ ~Switching' /\ C!InClient /\ head \in alive
  BY <1>1, <1>3, Running DEF InClient, Switching
<1>5. reg'["rsp"] = reg["rsp"] /\ [r \in Preserved |-> reg'[r]] = file
  <2>1. file = [r \in Preserved |-> file[r]]
    BY ContextAssumption
  <2>2. \A r \in Preserved : reg'[r] = file[r]
    BY <1>2 DEF Registers
  <2>3. reg'["rsp"] = reg["rsp"]
    BY <1>2 DEF Registers, Preserved
  <2> QED BY <2>1, <2>2, <2>3
<1>6. Context(head)' = [regs |-> file, frames |-> frames, pc |-> ip]
  BY <1>1, <1>3, <1>4, <1>5, ClientContextAfter
<1> DEFINE regs == [r \in Preserved |-> reg[r]]
<1>7. contexts[head] = [regs |-> regs, frames |-> frames, pc |-> ip]
  BY <1>1, ClientContext
<1> HIDE DEF regs, frames
<1>8. contexts' = [contexts EXCEPT ![head].regs = file]
  <2>1. \A t \in alive : t # head => Context(t)' = Context(t)
    BY <1>1, <1>3, <1>4, ClientSleeps
  <2>2. contexts' = [contexts EXCEPT ![head] = Context(head)']
    BY <1>3, <1>4, <2>1, OneChanges
  <2>3. [contexts[head] EXCEPT !.regs = file] = Context(head)'
    BY <1>6, <1>7
  <2> QED BY <2>2, <2>3
<1> QED BY <1>3, <1>4, <1>8 DEF C!Compute, contexts

LEMMA PushPushes == ASSUME Inv, Push PROVE C!Push
<1> DEFINE head == readyQueueHead
           n == reg["rsp"].words
           frames == SubSeq(stack[head], 1, n)
<1>1. InClient /\ ~Switching /\ Inv' /\ TypeOK /\ OnStack /\ n <= MaxDepth
  BY PushKeeps, Client DEF Push, Inv
<1>2. PICK w \in Words : stack' = Pushed(w)
  BY DEF Push
<1>3. /\ reg' = [reg EXCEPT !["rsp"] = Above]
      /\ UNCHANGED <<ip, step, tcb, heap, alive, readyQueueHead, waitingForCleanup>>
  BY DEF Push, threadVars
<1>4. /\ InClient' /\ ~Switching' /\ C!InClient /\ head \in alive /\ head \in TCB
      /\ contexts[head] = Context(head) /\ Len(Context(head).frames) = n
      /\ stack[head] \in Seq(Contents)
  BY <1>1, <1>3, Running DEF InClient, Switching
<1>5. reg["rsp"].of = head
  BY <1>1, Client
<1>6. /\ stack' \in [TCB -> Seq(Contents)]
      /\ \A t \in TCB : t # head => stack'[t] = stack[t]
      /\ Len(stack'[head]) = n + 1
      /\ Above \in Addresses /\ Above.words = n + 1
  BY <1>1, <1>2, <1>5, Pushing DEF Contents
<1>7. /\ reg'["rsp"] = Above
      /\ \A r \in Preserved : reg'[r] = reg[r]
  BY <1>1, <1>3, <1>6 DEF TypeOK, Registers, Preserved
<1>8. SubSeq(stack'[head], 1, n + 1) = Append(frames, w)
  <2>1. stack'[head] = Append(SubSeq(stack[head], 1, n), w)
    BY <1>1, <1>2, <1>4, <1>5 DEF Pushed, TypeOK
  <2>2. SubSeq(stack'[head], 1, Len(stack'[head])) = stack'[head]
    BY <1>4, <1>6, SubSeqFull
  <2> QED BY <1>6, <2>1, <2>2
<1> DEFINE regs == [r \in Preserved |-> reg[r]]
<1>9. Context(head)' = [regs |-> regs, frames |-> Append(frames, w), pc |-> ip]
  <2>1. [r \in Preserved |-> reg'[r]] = regs
    BY <1>7
  <2>2. reg'["rsp"].words = n + 1
    BY <1>6, <1>7
  <2> HIDE DEF regs, frames
  <2> QED BY <1>1, <1>3, <1>4, <1>8, <2>1, <2>2, ClientContextAfter
<1>10. contexts[head] = [regs |-> regs, frames |-> frames, pc |-> ip]
  BY <1>1, ClientContext
<1> HIDE DEF regs, frames
<1>11. contexts' = [contexts EXCEPT ![head].frames = Append(@, w)]
  <2>1. \A t \in alive : t # head => Context(t)' = Context(t)
    BY <1>1, <1>3, <1>4, <1>6, ClientSleeps DEF TypeOK
  <2>2. contexts' = [contexts EXCEPT ![head] = Context(head)']
    BY <1>3, <1>4, <2>1, OneChanges
  <2>3. contexts[head].frames = frames
    BY <1>10
  <2>4. [contexts[head] EXCEPT !.frames = Append(frames, w)] = Context(head)'
    <3> DEFINE new == Append(frames, w)
    <3>1. Context(head)' = [regs |-> regs, frames |-> new, pc |-> ip]
      BY <1>9
    <3> HIDE DEF new
    <3>2. [contexts[head] EXCEPT !.frames = new] = Context(head)'
      BY <1>10, <3>1
    <3> QED BY <3>2 DEF new
  <2> QED BY <2>2, <2>3, <2>4
<1> QED BY <1>1, <1>3, <1>4, <1>11 DEF C!Push, contexts

LEMMA PopPops == ASSUME Inv, Pop PROVE C!Pop
<1> DEFINE head == readyQueueHead
           n == reg["rsp"].words
           frames == SubSeq(stack[head], 1, n)
<1>1. InClient /\ ~Switching /\ Inv' /\ TypeOK /\ n > 1
  BY PopKeeps, Client DEF Pop, Inv
<1>2. /\ reg' = [reg EXCEPT !["rsp"] = Below]
      /\ UNCHANGED <<ip, step, stack, tcb, heap, alive, readyQueueHead, waitingForCleanup>>
  BY DEF Pop, threadVars
<1>3. /\ InClient' /\ ~Switching' /\ C!InClient /\ head \in alive
      /\ contexts[head] = Context(head) /\ Len(Context(head).frames) = n
      /\ stack[head] \in Seq(Contents)
      /\ n \in Nat \ {0} /\ n <= Len(stack[head]) /\ Len(stack[head]) \in Nat
  BY <1>1, <1>2, Running DEF InClient, Switching
<1>4. /\ reg'["rsp"].words = n - 1
      /\ \A r \in Preserved : reg'[r] = reg[r]
  BY <1>1, <1>2 DEF TypeOK, Registers, Preserved, Below, Addresses
<1> DEFINE regs == [r \in Preserved |-> reg[r]]
<1>5. contexts[head] = [regs |-> regs, frames |-> frames, pc |-> ip]
  BY <1>1, ClientContext
<1>6. SubSeq(stack[head], 1, n - 1) = SubSeq(frames, 1, n - 1) /\ Len(frames) = n
  <2> HIDE DEF n, head
  <2>1. /\ frames \in Seq(Contents) /\ Len(frames) = n
        /\ \A k \in 1 .. n : frames[k] = stack[head][k]
    BY <1>3, SamePrefix
  <2> HIDE DEF frames
  <2>2. n - 1 \in 0 .. Len(frames) /\ n - 1 <= Len(stack[head])
    BY <1>3, <2>1
  <2>3. \A k \in 1 .. n - 1 : stack[head][k] = frames[k]
    BY <1>3, <2>1
  <2> QED BY <1>3, <2>1, <2>2, <2>3, SamePrefix
<1>7. Context(head)' = [regs |-> regs, frames |-> SubSeq(frames, 1, n - 1), pc |-> ip]
  <2>1. [r \in Preserved |-> reg'[r]] = regs
    BY <1>4
  <2> HIDE DEF regs, frames
  <2> QED BY <1>1, <1>2, <1>3, <1>4, <1>6, <2>1, ClientContextAfter
<1> HIDE DEF regs, frames
<1>8. contexts' = [contexts EXCEPT ![head].frames = SubSeq(@, 1, Len(@) - 1)]
  <2>1. \A t \in alive : t # head => Context(t)' = Context(t)
    BY <1>1, <1>2, <1>3, ClientSleeps
  <2>2. contexts' = [contexts EXCEPT ![head] = Context(head)']
    BY <1>2, <1>3, <2>1, OneChanges
  <2>3. contexts[head].frames = frames
    BY <1>5
  <2>4. SubSeq(contexts[head].frames, 1, Len(contexts[head].frames) - 1) = SubSeq(frames, 1, n - 1)
    BY <1>6, <2>3
  <2>5. [contexts[head] EXCEPT !.frames = SubSeq(frames, 1, n - 1)] = Context(head)'
    <3> DEFINE new == SubSeq(frames, 1, n - 1)
    <3>1. Context(head)' = [regs |-> regs, frames |-> new, pc |-> ip]
      BY <1>7
    <3> HIDE DEF new
    <3>2. [contexts[head] EXCEPT !.frames = new] = Context(head)'
      BY <1>5, <3>1
    <3> QED BY <3>2 DEF new
  <2> QED BY <2>2, <2>4, <2>5
<1> QED BY <1>1, <1>2, <1>3, <1>8 DEF C!Pop, contexts

LEMMA thread_createCreates == ASSUME Inv, thread_create PROVE C!Create
<1>1. InClient /\ ~Switching /\ Inv' /\ TypeOK
  BY thread_createKeeps, Client DEF thread_create, Inv
<1>2. PICK t \in TCB \ heap, f \in Functions, a \in Args :
          /\ stack' = [stack EXCEPT ![t] = NewStack]
          /\ tcb' = [tcb EXCEPT ![t] = NewTCB(t, f, a)]
          /\ heap' = heap \cup {t}
          /\ alive' = alive \cup {t}
  BY DEF thread_create
<1>3. UNCHANGED <<reg, ip, step, readyQueueHead, waitingForCleanup>>
  BY DEF thread_create
<1>4. /\ t \notin alive /\ t # readyQueueHead
      /\ InClient' /\ ~Switching' /\ C!InClient /\ ~Saving'
  BY <1>1, <1>2, <1>3, Running DEF InClient, Switching, Saving, TypeOK
<1>5. /\ stack'[t] = NewStack /\ tcb'[t] = NewTCB(t, f, a)
      /\ \A u \in TCB : u # t => stack'[u] = stack[u] /\ tcb'[u] = tcb[u]
  BY <1>1, <1>2 DEF TypeOK
<1>6. \A u \in alive : u # readyQueueHead => Context(u)' = Context(u)
  BY <1>1, <1>2, <1>3, <1>4, <1>5, ClientSleeps DEF TypeOK
<1>7. Context(readyQueueHead)' = Context(readyQueueHead)
  <2> DEFINE head == readyQueueHead
  <2>1. Context(head)' = [regs |-> [r \in Preserved |-> reg[r]],
                          frames |-> SubSeq(stack'[head], 1, reg["rsp"].words), pc |-> ip]
    BY <1>1, <1>3, <1>4, ClientContextAfter
  <2>2. stack'[head] = stack[head]
    BY <1>1, <1>4, <1>5 DEF TypeOK
  <2>3. Context(head) = [regs |-> [r \in Preserved |-> reg[r]],
                         frames |-> SubSeq(stack[head], 1, reg["rsp"].words), pc |-> ip]
    BY <1>1, ClientContext, Running
  <2> QED BY <2>1, <2>2, <2>3
<1>8. Context(t)' = C!New(f, a)
  <2> DEFINE new == NewTCB(t, f, a)
  <2>1. /\ new["rsp"] = [of |-> t, words |-> 3] /\ new["rdi"] = f /\ new["rsi"] = a
        /\ \A r \in Slots \ {"rsp", "rdi", "rsi"} : new[r] = zero
        /\ NewStack \in Seq(Contents) /\ Len(NewStack) = 3 /\ NewStack[1] = zero
        /\ NewStack[2] = threadStart /\ NewStack[3] = zero
    BY <1>2, NewThread
  <2> HIDE DEF new
  <2>2. Context(t)' = Resumes(t, tcb[t], tcb[t]["rsp"].words)'
    BY <1>1, <1>2, <1>3, <1>4, ContextsAfter
  <2>3. /\ new["rsp"].words = 3 /\ tcb'[t] = new /\ stack'[t] = NewStack
    BY <1>5, <2>1 DEF new
  <2>4. SubSeq(NewStack, 1, 1) = <<zero>>
    BY <2>1, FirstOnly
  <2>5. Place(threadStart, f, a) = <<f, a>>
    BY DEF Place
  <2>6. [r \in Preserved |-> IF r = "rbp" THEN NewStack[3] ELSE new[r]]
          = [r \in Preserved |-> zero]
    <3>1. \A r \in Preserved \ {"rbp"} : new[r] = zero
      BY <2>1 DEF Slots, Registers, Preserved
    <3> QED BY <2>1, <3>1
  <2> HIDE DEF NewStack
  <2>7. Resumes(t, tcb[t], tcb[t]["rsp"].words)' =
            [regs |-> [r \in Preserved |-> IF r = "rbp" THEN NewStack[3] ELSE new[r]],
             frames |-> SubSeq(NewStack, 1, 1), pc |-> Place(NewStack[2], new["rdi"], new["rsi"])]
    <3>1. 3 - 2 = 1 /\ 3 - 1 = 2
      OBVIOUS
    <3> QED BY <2>3, <3>1 DEF Resumes
  <2> QED BY <2>1, <2>2, <2>4, <2>5, <2>6, <2>7 DEF C!New, C!Begins
<1>9. contexts' = [u \in DOMAIN contexts \cup {t} |->
                       IF u = t THEN C!New(f, a) ELSE contexts[u]]
  <2>1. \A u \in alive : Context(u)' = contexts[u]
    <3> SUFFICES ASSUME NEW u \in alive PROVE Context(u)' = Context(u)
      BY DEF contexts
    <3> QED BY <1>3, <1>6, <1>7
  <2>2. DOMAIN contexts = alive
    BY DEF contexts
  <2> QED BY <1>2, <1>4, <1>8, <2>1, <2>2 DEF contexts
<1>10. t \in TCB \ DOMAIN contexts
  BY <1>2, <1>4 DEF contexts
<1> QED BY <1>2, <1>3, <1>4, <1>9, <1>10 DEF C!Create, contexts

LEMMA YieldsSwitches == ASSUME Inv, Yields PROVE C!Switch
<1>0. PICK old \in alive : old = readyQueueHead
  BY DEF Inv, TypeOK
<1> DEFINE n == reg["rsp"].words
           regs == [r \in Preserved |-> reg[r]]
           frames == SubSeq(stack[old], 1, n)
<1>1. InClient /\ ~Switching /\ ~Saving /\ Inv' /\ TypeOK
  BY <1>0, YieldsKeeps, Client DEF Yields, Inv
<1>2. PICK next \in alive \ {readyQueueHead}, site \in Sites :
          /\ readyQueueHead' = next
          /\ CallAsm(asm_yield, site, readyQueueHead, next)
  BY DEF Yields
<1>3. UNCHANGED <<tcb, heap, alive, waitingForCleanup>>
  BY DEF Yields
<1>4. /\ site \in Code /\ old \in TCB \cup {NULL} /\ old \in alive
      /\ C!InClient /\ stack[old] \in Seq(Contents) /\ old \in TCB
      /\ n \in Nat \ {0} /\ n <= Len(stack[old]) /\ Len(stack[old]) \in Nat
  BY <1>0, <1>1, <1>2, Running DEF Code
<1>5. /\ ip' = asm_yield /\ step' = 1 /\ Position' = 1 /\ Switching'
      /\ reg'["rdi"] = old
      /\ \A r \in Preserved : reg'[r] = reg[r]
      /\ stack' \in [TCB -> Seq(Contents)]
      /\ reg'["rsp"].of = old /\ reg'["rsp"].words = n + 1
      /\ OnStack' /\ Top' = site
      /\ \A k \in 1 .. n : stack'[old][k] = stack[old][k]
      /\ \A t \in alive \ {old} : stack'[t] = stack[t]
  BY <1>0, <1>1, <1>2, <1>3, <1>4, Calling
<1>6. Saving'
  BY <1>0, <1>5 DEF Saving
<1>7. \A t \in alive : t # old => Context(t)' = Context(t)
  <2> SUFFICES ASSUME NEW t \in alive, t # old PROVE Context(t)' = Context(t)
    OBVIOUS
  <2> QED BY <1>0, <1>1, <1>2, <1>3, <1>5, Sleeps
<1>8. Context(old)' = [regs |-> regs, frames |-> frames, pc |-> site]
  <2>1. Context(old)' = Has(old, reg["rsp"].words - 1, stack[old][reg["rsp"].words])'
    BY <1>0, <1>1, <1>3, <1>4, <1>5, <1>6, ContextsAfter
  <2>2. stack'[old][reg'["rsp"].words] = site /\ reg'["rsp"].words - 1 = n
    BY <1>0, <1>4, <1>5 DEF Top
  <2>3. SubSeq(stack'[old], 1, n) = frames
    <3>1. stack'[old] \in Seq(Contents) /\ n <= Len(stack'[old]) /\ n \in 0 .. Len(stack[old])
      BY <1>0, <1>4, <1>5, LenProperties DEF OnStack
    <3> HIDE DEF n
    <3> QED BY <1>0, <1>4, <1>5, <3>1, SamePrefix
  <2>4. [r \in Preserved |-> reg'[r]] = regs
    BY <1>0, <1>5
  <2>5. Place(site, reg'["rdi"], reg'["rsi"]) = site
    BY <1>0, <1>2, CodeApart DEF Place
  <2> HIDE DEF regs, frames, n
  <2> QED BY <2>1, <2>2, <2>3, <2>4, <2>5 DEF Has
<1>9. contexts[old] = [regs |-> regs, frames |-> frames, pc |-> ip]
  BY <1>0, <1>1, ClientContext
<1> HIDE DEF regs, frames
<1>10. contexts' = [contexts EXCEPT ![old].pc = site]
  <2>1. contexts' = [contexts EXCEPT ![old] = Context(old)']
    BY <1>0, <1>3, <1>4, <1>7 DEF contexts
  <2>2. [contexts[old] EXCEPT !.pc = site] = Context(old)'
    BY <1>0, <1>8, <1>9
  <2> QED BY <2>1, <2>2
<1>11. DOMAIN contexts = alive
  BY DEF contexts
<1> QED BY <1>0, <1>2, <1>4, <1>10, <1>11 DEF C!Switch, contexts

LEMMA cleanupEnds == ASSUME Inv, cleanup PROVE C!End
<1>0. PICK old \in alive : old = readyQueueHead
  BY DEF Inv, TypeOK
<1>1. InClient /\ ~Switching /\ ~Saving /\ Inv' /\ TypeOK /\ old # Main /\ C!InClient
  BY <1>0, cleanupKeeps, Client, Running DEF cleanup, Inv
<1>2. PICK next \in alive \ {readyQueueHead} :
          /\ readyQueueHead' = next
          /\ CallAsm(asm_yield_cleanup, inCleanup, NULL, next)
  BY DEF cleanup
<1>3. alive' = alive \ {old} /\ tcb' = tcb
  BY <1>0 DEF cleanup
<1>4. inCleanup \in Code
  BY DEF Code
<1>5. /\ ip' = asm_yield_cleanup /\ Switching'
      /\ \A t \in alive \ {old} : stack'[t] = stack[t]
  BY <1>0, <1>1, <1>2, <1>3, <1>4, Calling
<1>6. ~Saving'
  BY <1>0, <1>5, CodeApart DEF Saving
<1>7. \A t \in alive' : Context(t)' = Context(t)
  <2> SUFFICES ASSUME NEW t \in alive, t # old PROVE Context(t)' = Context(t)
    BY <1>0, <1>3
  <2> QED BY <1>0, <1>1, <1>3, <1>5, <1>6, Sleeps
<1>8. contexts' = [t \in DOMAIN contexts \ {old} |-> contexts[t]]
  BY <1>0, <1>3, <1>7 DEF contexts
<1>9. DOMAIN contexts = alive
  BY DEF contexts
<1> QED BY <1>0, <1>1, <1>2, <1>8, <1>9 DEF C!End, contexts

LEMMA InstructionsStutter ==
  ASSUME Inv, pushq \/ movq \/ saves \/ loads \/ popq \/ ret
  PROVE  UNCHANGED C!vars
<1>1. \A t \in alive : Context(t)' = Context(t)
  BY pushqStutters, movqStutters, savesStutters, loadsStutters, popqStutters, retStutters
<1>2. alive' = alive /\ readyQueueHead' = readyQueueHead
  BY DEF pushq, movq, saves, loads, popq, ret, threadVars
<1>3. contexts' = contexts
  BY <1>1, <1>2 DEF contexts
<1> QED BY <1>2, <1>3 DEF C!vars, contexts

LEMMA InitRefines == Init => C!Init
<1> SUFFICES ASSUME Init PROVE C!Init
  OBVIOUS
<1>1. Inv /\ InClient
  BY InitHolds DEF Init, InClient
<1>2. /\ readyQueueHead = Main /\ alive = {Main} /\ ip \in Sites
      /\ reg["rsp"].words = 1 /\ stack[Main] = <<zero>>
      /\ \A r \in Preserved : reg[r] = zero
  BY ContextAssumption DEF Init, Address, Registers, Preserved
<1>3. contexts[Main] = [regs |-> [r \in Preserved |-> reg[r]],
                        frames |-> SubSeq(stack[Main], 1, 1), pc |-> ip]
  BY <1>1, <1>2, ClientContext
<1>4. SubSeq(stack[Main], 1, 1) = <<zero>>
  <2>1. zero \in Contents
    BY DEF Contents
  <2> DEFINE s == <<zero>>
  <2>2. s \in Seq(Contents) /\ Len(s) >= 1 /\ s[1] = zero
    BY <2>1
  <2> HIDE DEF s
  <2>3. SubSeq(s, 1, 1) = <<zero>>
    BY <2>1, <2>2, FirstOnly
  <2> QED BY <1>2, <2>3 DEF s
<1>5. [r \in Preserved |-> reg[r]] = [r \in Preserved |-> zero]
  BY <1>2
<1>6. contexts[Main] = [regs |-> [r \in Preserved |-> zero], frames |-> <<zero>>, pc |-> ip]
  BY <1>3, <1>4, <1>5
<1>7. contexts = [t \in {Main} |->
                      [regs |-> [r \in Preserved |-> zero], frames |-> <<zero>>, pc |-> ip]]
  <2>1. contexts = [t \in {Main} |-> contexts[t]]
    BY <1>2 DEF contexts
  <2> QED BY <1>6, <2>1
<1> QED BY <1>2, <1>7 DEF C!Init, contexts

LEMMA NextRefines == Inv /\ [Next]_vars => [C!Next]_(C!vars)
<1> SUFFICES ASSUME Inv, [Next]_vars PROVE C!Next \/ UNCHANGED C!vars
  OBVIOUS
<1>1. CASE UNCHANGED vars
  <2>1. \A t \in alive : Context(t)' = Context(t)
    BY <1>1 DEF vars, Context, BeingSaved, Has, Resumes, Switching
  <2> QED BY <1>1, <2>1 DEF vars, C!vars
<1>2. CASE Next
  BY <1>2, InstructionsStutter, CallWorkBegins, ComputeComputes, PushPushes, PopPops,
      thread_createCreates, YieldsSwitches, cleanupEnds DEF Next, C!Next
<1> QED BY <1>1, <1>2

\* Threads are coroutines, with any number of threads, functions, places in the
\* client, register contents and depths of stacks: whatever the others do, each
\* goes on as it was when it gave up the processor (thread_asm.s:7-56,
\* thread.c:249-271).
THEOREM Implements == Spec => ImplementsCoroutines
<1>1. Inv /\ [Next]_vars => [C!Next]_(C!vars)
  BY NextRefines
<1> QED BY InitRefines, Invariance, <1>1, PTL DEF Spec, ImplementsCoroutines, C!Spec
=============================================================================
