# Verification of cs820

`src/` holds five assignments of a systems programming course, all in C with
some x86-64 assembly. This project models four of them in TLA+: the linker and
the disassembler of Assignment2, the multi-processor virtual machine of
Assignment3, the thread library of Assignment4 down to the instructions of its
context switch, and the memory allocator with its garbage collector of
Assignment5. The ELF dumper of Assignment1 only prints. The models are checked
with TLC on small instances and, where the modules allow it, proved with TLAPS
for every value of the constants.

## Inventory

| Part | Source | State | Operations | Status |
| --- | --- | --- | --- | --- |
| Thread library | `Assignment4/thread.c`, `thread.h` | TCBs strung on a ready queue, a joining list and the wait lists of mutexes and condition variables by one `next` field; existence records; the TCB to free next; registries of mutexes and condition variables | `thread_create`, `_yield`, `_join`, `_mutex_init/lock/unlock`, `_cond_init/wait/signal`, the end of a thread | modelled twice, on sequences and on pointers; proved on both |
| Context switch | `Assignment4/thread_asm.s`, `thread.c:197-286` | registers, stacks, the registers saved in TCBs | `asm_yield`, `asm_yield_cleanup`, the stack `thread_create` lays out | modelled by instruction, proved |
| Allocator and collector | `Assignment5/alloc.c`, `asmAlloc.s` | the words of the heap, whose headers describe a row of chunks; `initializedSpace`, `heapBasePtr`, `inFinalizeCall` | `memInitialize`, `memAllocate`, mark, sweep (which calls finalizers), consolidate | modelled, proved |
| Virtual machine | `Assignment3/vmx20.c`, `opHandlers.c` | a memory shared by up to 16 processors, each a pthread with 16 registers and a termination status | `execute`, `putWord`, the fetch loop, 26 instructions, `disassemble` | modelled; its types and its spin lock proved |
| Loader | `vmx20.c:21-75`, `vmx20FileReaderUtils.c` | the current executable | `loadExecutableFile`, `parseObjFile`, `getAddress` | modelled, its reading proved |
| Linker | `Assignment2/linkx20.c` | the object files, their offsets, `mainx20Exists` | load, check symbols, resolve and relocate, write | modelled, proved |
| Disassembler | `Assignment2/dsx20.c` | which words are code | recursive walk, a line for each word | modelled, its listing proved |
| ELF dumper | `Assignment1/binary_info.c`, `lookup_tables.h` | none | prints tables of a file | not modelled |
| Test harnesses | `*/testHarness.c`, `*.asm` | | clients of the libraries | external; programs of Assignment3 transcribed |

**Interactions.** The thread library's API functions run on the stack of the
calling thread and end in a context switch; a thread that returns runs
`cleanup` on its own stack, which is why its memory is freed by the next thread
that ends. The allocator is called by its client, and sweep calls the client's
finalizers back. The machine's processors share memory under the mutex
`memMut`, taken once per access; the caller of `execute` touches the memory
before and after. The linker writes files that the machine loads and the
disassembler prints; the three have tables of the instructions of their own and
must mean the same by a file.

**What is hard.**

* Threads: a thread is on one list at a time because there is one `next` field;
  memory freed by somebody else's end; ids that are reused addresses; hand-over
  of mutexes through condition variables; joins that wait on each other.
* Context switch: registers saved and loaded one by one, half of it on the stack
  of either thread, through a register that is itself switched.
* Allocator: the boundaries of the last chunk, stale headers left in memory by
  merges, conservative pointers into and behind blocks, circles of pointers,
  registers read after they have been used, finalizers in the middle of a sweep.
* Machine: read-modify-write by several processors, calls whose memory accesses
  interleave with other processors', code rewritten while it is executed,
  wrap-around of addresses, failures to start a thread.
* Linker and disassembler: widths of address fields and the PC they are relative
  to; where the sections of a file begin; names defined twice; jumps backwards
  and calls that a recursive walk must not follow for ever.

Each hazard is listed at its line, with the properties that watch it or the
reason why none does, in `PROJECT.json`.

## Modules

| Module | What it is |
| --- | --- |
| `Threads` | every API call of `thread.c` as one action; lists are sequences |
| `MCThreads` | symmetry and fair specifications for TLC |
| `ThreadsProofs` | the inductive invariant of `Threads` and what follows from it |
| `ThreadLists` | the same calls on `next` fields, assignment by assignment; implements `Threads` |
| `MCThreadLists` | symmetry for TLC |
| `ThreadListsProofs` | the pointers implement the sequences, proved |
| `Coroutines` | abstract: threads with registers and stacks of their own |
| `ContextSwitch` | the instructions of `thread_asm.s`; implements `Coroutines` |
| `MCContextSwitch` | contents of registers, symmetry |
| `ContextSwitchProofs` | the invariant of `ContextSwitch`, and the refinement proved |
| `HeapChunks` | abstract: the heap as a row of allocated and free chunks |
| `HeapChunksProofs` | its invariants and block stability, proved |
| `Alloc` | `alloc.c` word by word: heap, roots, marking, sweep, consolidation; implements `HeapChunks` |
| `MCAlloc` | symmetry and the fair specification for TLC |
| `AllocProofs` | what the walk from header to header finds; the invariants of `Alloc`, the refinement, that the collector loses nothing the program can reach, and what it frees |
| `ObjectFile` | words of code and object files, how they are laid out and read |
| `ObjectFileProofs` | what is laid out is read back, proved |
| `Linker` | `linkx20.c`: loading, checks, relocation, writing |
| `Disassembler` | `dsx20.c`: the walk and the listing |
| `MachineDisassembler` | `disassemble` of `vmx20.c`, with a table and format handlers of its own |
| `Toolchain` | files linked and disassembled: `Linker`, `Disassembler` and `MachineDisassembler` composed |
| `ToolchainProofs` | the invariant of the linker, and that what it writes means what its files mean |
| `MCLinker`, `MCToolchain` | command lines of object files, programs |
| `VM` | the processors of the machine, one step per access to memory |
| `MCVM` | an assembler in a few operators, programs, and what they must compute |
| `VMProofs` | registers and memory hold words whatever runs; the spin lock excludes any number of processors |

A definition `Name_what` before the definition `Name` (after a comment `Bug:`,
or, in `Threads`, after one at the head of its section) is a faulty variant of
`Name`. The specification does not use it: it is there to show that a property
notices the fault.

### Threads

The library is cooperative: the running thread is the head of the ready queue
and nothing preempts it. An API call up to the context switch that ends it is
therefore one action of the running thread; what follows the switch (return
values) changes nothing. Calls that fail and leave the state as it was are
stuttering steps, and the conditions under which they fail appear as guards.

* `list[h]` is the list of TCBs that starts at head pointer `h`;
  `Push`, `Pop`, `Move` and `Unlink` are the pointer manipulations of the code.
* `ter[t]` is what `isThreadAlive` finds in the newest existence record for an
  address; `heap` and `waitingForCleanup` describe the deferred `free`.
* `mutexList` and `condList` are the registries along `nextMutex`/`nextCond`,
  including the loop that a second initialisation makes.
* `owner` of an uninitialised mutex is arbitrary, as its memory is. `malloc` is
  external: `thread_create` may get any address not in use, also one freed
  before; it does not fail in the model.
* `ExitHolding` and `Reinit` say what the client may do: end while it owns a
  mutex; initialise an idle mutex again (as test 11 of the harness does).
* `createMainThreadIfNeeded` acts once, before the initial state; by
  `ReadyNonEmpty` (proved) it never acts again.
* The process may end: `exited` by main's return, `crashed` when `cleanup`
  switches to NULL, `hung` in a walk along a looped registry.

### ThreadLists

The same calls with the pointers themselves: `next[t]` is a field, `first[h]` a
head pointer, a tail is found by a walk (`TailOf`), and where the code assigns
twice the model updates twice, in its order: in `wakeupThread` (thread.c:173-195)
a TCB at the head of `joiningList` is appended to the ready queue *before* it is
taken off, one in the middle after. `terList` is the list of existence records,
of which an address may have several. Uninitialised head pointers hold
`Garbage`. `ImplementsThreads` maps chains to sequences by walking them.
A `Walk` stops at NULL or before a node it has met; a chain that does not end in
NULL is `Endless`, and the code, which looks for NULL only, stays in it.
`MaxRecords` bounds the records, which the code never frees; with it, a
reinitialised registry is left to `Threads_core`.

### ContextSwitch and Coroutines

`Coroutines` says what a thread is to rely on: it has registers, a stack and a
place in the code of its own; a switch changes who runs and the place only.
`ContextSwitch` has one set of registers and a memory. The two functions of
`thread_asm.s` are sequences of instructions, executed one step each: `pushq`
and `popq` on the stack `rsp` points into, `saves` to the TCB `rdi` points to,
`loads` from that `rsi` points to, `ret` to whatever the stack says.
`thread_create` leaves the three words on a new stack from which `ret` enters
`threadStart`, which takes function and argument from `rdi` and `rsi`.

* Clients compute with the registers that functions preserve, push and pop words
  of their own, and call into the library; `Sites` are the places such calls
  return to. Who is next is the affair of `Threads`: here it is any other thread.
* What compiled C code does between a client and `asm_yield` keeps the calling
  conventions and is left out, as is main's creation.
* What a freed stack holds is not erased; `StacksSound` says nothing runs there.
  `cleanup` frees the previous thread's memory and runs on its own, which the
  next one frees.

### HeapChunks and Alloc

`HeapChunks` has one variable, the map from header addresses to what the
headers say. Its steps split, free and merge chunks. `Alloc` has the words
themselves: `mem[a]` is a word with its two highest bits apart, and `Chunks`
finds the headers as the code's loops do, so that a stale header is just a
word. Addresses count words and pointers are word-aligned: the code's
comparisons of byte addresses come to the same for these.

* A call of `memAllocate` that finds room is one action. One that collects runs
  through phases, since sweep calls back into the program: `MarkRoots`,
  `checkAndMarkRegisters`, the marking of the heap, then one step for each chunk
  of `sweep` and `consolidate`, then the second `findSpace`.
* The heap is marked step by step: a turn of the loop of `traverseAndMarkHeap`,
  a block marked and the call of `recurseAndMarkHeap` for it, the return of a
  call. `frames` is the C stack of these calls: the chunk of each and the word
  it has come to. Words that point to no unmarked block are passed by in the
  same step (`Ahead`).
* The program is external: it has words of global data, stack words and `rbx`
  (`Holders` says which of them it keeps pointers in), copies pointers, moves
  them within a block (`Interior`), and reads pointers from blocks it points to
  and writes into them (`Accessible`).
* `Registers` is what the three registers hold when they are read, in the
  unoptimised build the Makefile makes: the program's `rbx`; in `rsi` and `rdi`
  what the preceding functions left there.
* `before` and `live` are history: the heap and the reachable blocks when the
  collection began. They appear in no guard.
* Not modelled: the stack frames of the collector itself, which may hold
  pointers to headers and so keep a block alive by chance; the third highest
  bit of a header, which no size reaches; non-zero initial contents of what
  `malloc` returns; a bottom of the stack that is not found
  (`alloc.c:126-135`), for programs built without frame pointers.

### VM

A processor fetches without the lock, then executes; `call` takes the lock
three times and `ret` four times, each time in a step of its own, and so other
processors run in between. Work on a processor's own registers goes with the
access before it, which no other processor can tell.

* The machine's word (`ObjectFile`) has 16 bits for opcode and registers and a
  field of `Offsets` values for the rest (2^16 in the code, 2^8 in the instance,
  so that TLC's integers can hold products); all arithmetic is modulo the word, and signed
  where the code reads the union member `i`.
* `Fault` stands for an access outside the memory, or the division that the
  hardware traps. The process is at the mercy of what is there; the model stops.
* Float arithmetic is the parameter `Float`; the instance uses whole numbers.
* `frames` is history: for each call not returned from, the registers before it.
* A file that is refused becomes the current one all the same, with a memory of
  its code's size instead of `MAX_ADDR` words; `loaded` remembers whether the
  last load succeeded, and the caller writes and executes only then.
* `execute` starts any subset of the threads if `StartsFail`, and all otherwise.
  To join a thread that was not started is undefined in C: `executeReturns`
  returns or faults. Before it executes again the caller loads or writes
  something; its statuses are zero at the start, as the harness has them.
* The model has at most 16 processors (`VMX20_MAX_PROCESSORS`). Tracing is
  output only.

### ObjectFile

A file is a sequence of words: three lengths, five words for each symbol that is
defined and each that is imported (four for its name, of which the model keeps
the first), and the code. `Assembled` lays a program out as the assembler does,
which is external; `writeSymbols` and the linker's `Header` are what
`linkx20.c` writes; `parseObjFile` is what it and the machine read, in words
where they count bytes (the order of the bytes in a word, which all programs
agree on, is left out).

### Linker

One pass over the files on the command line, a step for each turn of the outer
loops of `main`; a file that cannot be opened is `Missing`, and the output may
not be openable. The properties compare the output with the command line
alone: where a word belongs is computed from the lengths of the files
(`Start`), not from the offsets the linker keeps, and the address an
instruction reaches is decoded by opcode names and field widths as in `VM`.
`OneMeaning` speaks of both programs: the linker's search for a definition and
the machine's `getAddress` on the file it wrote find the same one, also for a
name that slipped through the check for duplicates. The option `-o` is left
out; every imported symbol is inside the code of its file, as an assembler
writes it.

### Disassembler and Toolchain

`activations` is the C stack of `recursiveDisassembler`: the `pc` of every
activation. A step is a turn of its loop, and a call that is walked into pushes
an activation; `MaxDepth` activations are what the stack has room for, and one
more is an `overflow`. The second pass appends a line for each word; of a line
the model keeps the instruction and the address it refers to. A word marked as
code whose opcode has no handler ends in a `fault`.

`Toolchain` is what a user does: one of the object files is disassembled before
linking, or the linker's output after.

The machine has a disassembler of its own, which answers for one address.
`MachineDisassembler` shares nothing with `Disassembler` but the fields of a word:
each has its table of handlers and its names, translated from its own source, and
each handler computes its operand. `disassemble` has no state and is an operator;
it refuses an address above `MAX_ADDR` and an opcode above 25. `ListingAgrees`
compares what `dsx20` prints for each word of every linked program with what
`disassemble` answers for its place in the memory, where a refused opcode
corresponds to a line UNKNOWN. It also demands the address from the symbol section
of every instruction that has an address and refers to an imported symbol; which
instructions these are it knows by name, not from either table.

`WalkBounds` measures the walk with a yardstick that is not the walk's: `Machine`
gives the words the machine may execute after each word, both ways of a branch
and jumps in every direction. The marks must contain what is reached without a
branch taken or a jump backwards, and may contain no more than what `Machine`
reaches if a jump backwards or a word that is no instruction might also do
nothing. So the property does not say that the walk finds all code and no data:
it does not, and the two bounds are where it errs (see Findings). It says that it
errs nowhere else, that it loses its stack for recursive functions only and for
all of these, and that it faults only on a word or a call that is there.

## Runs

All instances are small enough for TLC to enumerate completely. One run has
`CHECK_DEADLOCK FALSE`: in `Alloc_finalizers` the process may really stop, by a
fault. The other instances of `Alloc`, and `HeapChunks`, never stop. In the other
modules the end of the process is a step (`Ended`, `Over`) that stutters, so that
every other stop is reported.

| Run | Shows |
| --- | --- |
| `Threads_core` | three addresses that are reused, two mutexes and two condition variables that are initialised again, owners that may end: every order of calls; lists, joins, waiters and hand-over are sound |
| `Threads_live` | four addresses, one mutex and one condition variable, owners that release before they end or join: no mutex owned by a dead thread, no freed memory in use; liveness: mutex waiters are served, ready threads run, and joiners come back, except those that wait for a circle of joins, which occurs in this run |
| `Threads_joincycle` | finding: a circle of three joins |
| `ThreadLists` | four addresses, up to four existence records, a mutex and a condition variable: no thread follows two others or is on two lists (`NextUnique`), and the chains implement the sequences of `Threads` |
| `ContextSwitch` | main and two threads that use every register and push words: stacks in use are allocated and aligned, and the instructions implement `Coroutines` |
| `HeapChunks` | the tiling of the heap and the stability of blocks, up to five blocks |
| `Alloc_graphs` | four blocks with pointers between them in every way: no dangling pointer, and a collection leaves exactly the reachable blocks and what the first block leads to, unmarked and with no two free neighbours |
| `Alloc_interior` | pointers into and behind blocks keep them, unchanged; `memAllocate` gives up only if there is no large enough gap between the blocks that words, taken for pointers, lead to; `Alloc` implements `HeapChunks` |
| `Alloc_finalizers` | two blocks that may point to themselves and to each other, finalizers that save their argument or allocate: no block with a finalizer is freed before it has run; liveness: collections end, on circles of pointers, too |
| `Alloc_rbx` | finding: a block that only `rbx` points to is freed |
| `VM_programs` | six programs and two refused files, loaded and executed in any order: a spin lock of three processors, `MultiProcessorTest.asm`, nested calls on two stacks, branches and arithmetic around the sign, three processors that fail differently, and one that waits until another rewrites its code |
| `Toolchain` | up to three files with combinations of definitions and imports, some further apart than a branch reaches, linked and disassembled; eight programs with loops, data and recursion: references reach the definitions, all other bits are kept, files are refused for a reason, the marks of the walk lie between what runs straight on and what the machine may execute, and both disassemblers agree with what was linked; liveness: the disassembler ends |

The `Alloc` runs that pass keep pointers in memory only: `Alloc_rbx` shows what
happens to those in `rbx`.

**Why the bounds are enough.** The thread library's operations touch a list's
head, its tail and one element in between: three threads exhibit an owner, a
first and a last waiter, and a fourth lets a circle of three joins form beside a
ready thread and a joiner be unlinked from the middle of three. `Threads_live`
has four for the circle; to stay small it has one mutex and one condition
variable, initialised once, and `NextReleased` has main initialise them before it
creates others (`Threads_core` has them initialised at any time). A context switch
has an old and a new thread, and a third whose registers must stay as they are;
one word besides the frame tells stacks apart. The allocator's operations touch
a chunk and its neighbour; three blocks give free neighbours on both sides, and
four give every kind of chain (forwards, backwards, circles) relative to the
order of addresses. In `Alloc_finalizers` two words of the program and a heap of
eight words give two blocks at once, enough for the shortest circle that is not a
pointer to itself; the faulty variant `recurseAndMarkHeap_chase`, for which the run
fails, loops on such circles only. The machine's interleavings are between pairs of
processors; a third one tells "some other" from "all others". The linker treats
files one by one: a reference, a definition and a file between or before them
are all there is to a relocation, and sixteen values of an offset let distances
overflow. The codes that are disassembled have at most 15 words, so that a walk
that needs more than 30 activations recurses (`ToolchainAssumption`), and they
fit the 16 words of memory that `MAX_ADDR` gives the machine. What
remains of the doubt about sizes is removed by proof for `Threads`,
`ThreadLists`, `ContextSwitch`, `HeapChunks`, `Alloc`, the spin lock, the layout
of files, the linker and the listing.

**Fairness.** `Threads`: the library never preempts, so liveness rests on
clients. Each formula is one promise of theirs: `ThreadsYield` (a running
thread yields, blocks or ends when it could), `OwnersUnlock` (a thread that
runs again and again and owns a mutex unlocks one), `ThreadsReturn` (a thread
that runs again and again returns). The last two are strong fairness, since a
thread that has yielded is not enabled until it is its turn. `LiveSpec` leaves
out joins by owners, because a joining owner keeps its mutex. `ThreadsReturn`
is assumed by `JoinReturns` only, so that the others hold for threads that
never return. `JoinReturns` excepts `InCircle`, the joiners that wait for each
other in a circle or for one who does: finding 1 is that `thread_join` lets such
circles pass, and without the exception TLC finds `JoinReturns` violated by one.
`Alloc`: weak
fairness of the collector's steps says that the process keeps running; the
collector takes no lock and waits for nothing but finalizers. `VM`: weak
fairness of each pthread and of the joining caller; `memMut` is held for one
access only, so a thread that keeps trying gets it under any scheduler that
does not starve threads. `Toolchain`: weak fairness of the disassembler, a
sequential program that keeps running.

## Proofs

* `ThreadsProofs` proves, for all sets of addresses, mutexes and condition
  variables and all kinds of clients, every safety property of `Threads_core`
  and `Threads_live`: `TypeOK`, `Placement`, `HeapExact`, `JoinersListed` (with
  `NoMutualJoin`), `Waiters`, `OwnerAlive`, `FreeIsSafe`, `JoinExact`,
  `ReadyInOrder`, `HandOver`, `SignalHandsMutex`; and `ReadyNonEmpty`, which no
  run checks any more. None of the invariants is inductive alone: a step keeps
  `Placement` only if the joiner it wakes is on the joining list
  (`JoinersListed`), which holds only while no listed thread is freed or ends,
  which holds because only the running thread ends, which is on the ready queue
  and, by `Placement`, on no other. `Inv` is their conjunction. The list
  operators are characterised once by what they do to the sets of elements
  (`PushLemma`, `PopLemma`, `UnlinkLemma`, `MoveLemma`), and only those lemmas
  look into sequences; then one lemma for each action shows that it keeps `Inv`.
  Action properties follow from `Inv` and the same lemmas. The only assumption
  is `ThreadsAssumption`: that lists, mutexes, condition variables and NULL are
  different things.
* `ThreadListsProofs` proves, for any number of addresses, mutexes, condition
  variables and records, that the pointers implement the sequences
  (`Implements`), so that everything proved of `Threads` holds of them
  (`PointersInvariance`), and that no `next` field is shared (`NextIsUnique`).
  `Represents` says that a list's head pointer is the first of a sequence
  without repetitions, that each of its elements leads to the next and the last
  to NULL. A walk along such a chain returns that sequence (a walk is a
  recursive function; that it exists is shown by the least number of steps a
  walk still has to go). What is left is one lemma for each manipulation:
  appending behind the tail, taking off the head, unlinking from the middle,
  and `wakeupThread` in both its orders. Each says which sequences the chains
  represent after it, and that a chain none of whose nodes is assigned to stays,
  which needs the lists to be disjoint: that is `Placement` of `Threads`. So
  neither invariant suffices alone, and `PInv` joins the chains
  (`ListsSound`) to the invariant of `Threads`, taken under the mapping. A
  registry that is closed on itself is a chain whose last node leads back to a
  node met before; the record found first is the newest.
* `ContextSwitchProofs` proves, for any number of threads, functions, arguments,
  register contents and depths of stacks, that memory in use is allocated
  (`StacksAlwaysSound`) and that the instructions implement `Coroutines`
  (`Implements`). `asm_yield_cleanup` is the code of `asm_yield` without the
  saving, and one `Position` counts through both. The invariant says, for every
  position, which registers have been saved (`Saves`) or loaded (`Loads`), which
  thread's stack `rsp` is on (`Saves`, `Leaves`), and that every thread that is
  neither running nor being saved can be switched to (`OthersReady`): its TCB
  points to three words or more of its own stack, below the top a return address
  into the client or to `threadStart`. `TypeOK` keeps the thread that waits to be
  freed out of `alive`. Then every instruction leaves the `Context` of every
  thread as it is, so that it stutters, also while half of the registers are
  those of one thread and half those of the other; and every step of C code is
  one step of `Coroutines`. The assumption `ContextAssumption` says that
  addresses of code differ and what contents of registers are.
* `HeapChunksProofs` proves for every size of the heap and of blocks that the
  chunks tile the heap and the last one is free and not empty
  (`RowAlwaysSound`), and that blocks stay (`BlocksStay`). That chunks tile the
  heap needs the strict inequality in `Fits`, and that the last is free needs the
  tiling to know which chunk a split leaves last; `Inv` joins them. The
  assumption `HeapAssumption` says that sizes are natural numbers and the heap
  not empty. `Implements` of `AllocProofs` carries these facts over to the words.
* `AllocProofs` proves, for every size of the heap and of blocks and every
  program, that the collector is right, in four layers.

  *The heap is always a row of chunks* (`TypeCorrect`, `Implements`,
  `FinalizersFirst`). The row of headers that a loop meets is characterised in
  the first part: it starts at the base, leads from each member to the next, and
  ends at the end of the heap; two rows of the same words are the same. As
  induction over data is out of reach, uniqueness is shown by the least element
  in which two rows differ. Every step that writes headers takes, frees or joins
  chunks, or leaves them (`HeapStep`). `Sound` adds to this where `at` and the
  calls of `recurseAndMarkHeap` stand; it is inductive without any hypothesis
  but `AllocAssumption`: addresses are above all sizes, so that no header or
  rest of a chunk is taken for a pointer, and what the sets of places are.

  *What is live stays* (`LiveBlocksUntouched`). The core is `Scanned`: a marked
  block is still ahead of the loop of `traverseAndMarkHeap`, or each of its words
  points to no unmarked block or is still ahead of a pending call of
  `recurseAndMarkHeap`. When the loop is over and no call is left, the marked
  blocks are therefore closed under pointers; they contain those of the roots
  (`RootsMarked`) and so contain `live`, the smallest such set. Sweep and
  consolidation keep them to the last word (`SweepSound`, `LiveKept`). This needs
  the hypothesis `InMemory`: no pointer is held in `rbx`, which is finding 2, and
  none in the stack word scanned last, whose value is still in `rdi` when the
  registers are looked at, so that a bit of the data it points to is set. Without
  it the theorem is false.

  *Nothing dangles* (`NothingDangles`). Between collections every place in which
  the program keeps pointers leads to an allocated block, and during one to a
  block of `live` (`PointersSound`). The hypothesis `NoSaves` says that no
  finalizer saves its argument, as sweep frees that block in the next step.

  *What a collection leaves* (`SurvivorsBetween`, `GivesUpOnlyIfFull`,
  `CollectsTheRest`). The blocks left lie between two sets: `Must`, what pointers
  lead to from `live` and the first block, and `May`, what words lead to that may
  be pointers, from the places that are scanned (`Suspected`). Marks are set on
  members of `May` only, each call of `recurseAndMarkHeap` scans one, and it never
  looks at a header again (`MayMark`); behind sweep only such blocks are left
  (`MaySurvive`). On the other side, marks are closed under pointers when marking
  ends (`MustMarked`), and sweep clears them one by one (`MustSurvive`). Behind the
  chunk that consolidate stands on, no two free chunks are neighbours
  (`FreeApart`). `NullMeansFull` follows: a free chunk is too small and ends at a
  block of `May`. That the two sets are the same, `Collected`, has the hypothesis
  `NoChance`: the program keeps pointers to the beginning of data only, and the
  sizes of blocks with their headers are multiples of one stride above two
  words. All pointers there ever were then lie behind places where headers can be
  (`AlignedSound`). Without it the property is false: the data of a block are not
  cleared when it is allocated, and an old pointer in them may by chance point to
  the header of a newer block, which it keeps alive. `Alloc_graphs` has the
  hypothesis.
* `VMProofs` proves of the machine, for every memory, number of processors and
  width of offsets:

  *Everything is a word* (`TypeCorrect`): whatever words the programs are made
  of and however the processors interleave, registers and memory hold words,
  a processor is at a place the handlers know, and `ret` has popped as many words
  as its place says (`TempSound`, without which the words it stores could be
  missing). It needs of the parameters only that float arithmetic yields words
  (`FloatsAreWords`), as a register can hold nothing else. Each of the 26
  instructions has its lemma; an address that is not in the memory ends in
  `Fault`, so that no access is left to chance.

  *The spin lock excludes* (`SpinLockExcludes`): the program `LockFile` of `MCVM`,
  run by any number of processors, of which any subset may have been started,
  never has two of them between the `cmpxchg` that takes the lock and the
  `store` that gives it back. The invariant `LockInv` is about the machine code:
  the words 2 to 11 are those of the assembled program, which is decoded
  in `LockCode`; a processor's PC is on one of its lines, and it executes the word
  of its line; register 3 is 0, register 2 is 1 from line 3 on, and register 1 is
  0 before the `cmpxchg`; word 0 is 1 exactly when some processor holds the lock,
  and at most one does. A processor holds it from the exchange on (at line 5 with
  0 in register 1, then at lines 7 to 10), which is why `MutualExclusion` alone is
  not inductive. `LockRuns` asks for offsets wide enough for a program of 12 lines
  and that the caller pokes no words into this program.
* `ObjectFileProofs` proves `ReadAsWritten`: for any numbers of symbols and
  words, `parseObjFile` reads from a file that is laid out as the assembler does
  the program it was made of.
* `ToolchainProofs` proves of the linker, for any number of files and symbols:
  its types (`TypeCorrect`), that all bits but those of address fields are kept
  (`CodeIsKept`), that a reference reaches the one definition its name has, for
  the linker and for the machine (`NamesHaveOneMeaning`), and that a failure has a
  reason and only sound command lines are written (`WritesWhatIsSound`). The
  invariant `LInv` says how far each loop of `main` has come: the files before
  `i` are loaded where the sum of the lengths before them says (`Files`); of
  those already resolved, and of the symbols of the current file that are, each
  field is filled in with the distance to the definition, and the symbols still
  to come leave a word as it was (`Progress`); what is written so far is a
  beginning of header, symbols and code (`Output`); and no failure is reported
  without one (`Justified`). Sums of lengths are recursive functions
  (`SumOfFirst`); that they grow is shown by the least counterexample.
  `NamesHaveOneMeaning` has a hypothesis, `Addressable`: no symbol of the output
  lies above the largest 32-bit address. Without it addresses wrap and the
  property is false. TLC checks that the instance has it.

  Of both programs together: `Toolchain` runs the linker (`RunsTheLinker`), the
  disassembler reads what was written (`DisassemblerReads`), and so `dsx20` says
  of every word what `disassemble` of the machine says of it, and of a reference
  the address of its definition (`ListingsAgree`). `Listed` says what has been
  printed so far, in terms of `dsx20` alone; that the tables of the two programs
  are the same (`SameTables`) and that handlers of the same name print the same
  address (`SameOperands`) is proved from the two definitions, opcode by opcode.

**Only model-checked**: liveness (outside the prover's reach, as is
`ENABLED`): `CollectionEnds` and that of threads, machine and disassembler. Of the
machine, `CallsReturn` and `ResultsRight`: they hold for programs that keep their
stacks apart and do not overwrite them, such as those of the instance. Of the
disassembler, `WalkBounds`: that a recursive walk marks what can be reached needs
an induction over the paths of the code.

## Findings

Each is a run that TLC must find violated.

1. **Circle of joins** (`Threads_joincycle`, `thread.c:325`): the checks of
   `thread_join` exclude circles of two and a joiner that is alone, not three
   threads that join each other while a fourth is ready. When that one ends,
   `cleanup` switches to a NULL TCB.
2. **Registers** (`Alloc_rbx`, `alloc.c:155`): the word a register points to is
   marked instead of the block's header; a block held by `rbx` only is freed.

Seen while modelling, and part of the models, but not runs of their own:

* initialising a listed mutex again drops those behind it from the registry and
  closes the list on itself (`thread.c:353`); the next initialisation does not
  end;
* by the same lines as 2, bit 62 of a block's first data word is set when the
  last stack word scanned points there (`alloc.c:161`);
* the first block is never collected, as `heapBasePtr` is among the words
  scanned (`alloc.c:113`; the property `Collected` allows for it);
* after a failing `malloc`, `memAllocate` reads through NULL (`alloc.c:31`);
* `ret` writes at `FP - 1` before it checks FP, so with FP 0, its initial value,
  outside the memory (`opHandlers.c:373`);
* `execute` returns 1 although `pthread_create` failed (`vmx20.c:176`);
* the checks of addresses accept `MAX_ADDR` itself, and negative ones relative
  to a register (`opHandlers.c`): the models end in a fault there;
* two definitions of a name are noticed only if both their files and their
  positions in the symbol sections differ (`linkx20.c:180`);
* `dsx20 -r` passes over jumps backwards, so that data behind a loop are walked
  as code, and a word there with an opcode above 25 indexes behind the table of
  handlers (`dsx20.c:257`, `:332`); words that only a conditional branch leads
  to are left as data (`dsx20.c:253-271`); recursive functions overflow the
  stack (`dsx20.c:266`). The comment that the first pass "marks each word as data
  or code" (`dsx20.c:326`) is to be read with these limits; `WalkBounds` accepts
  them and says that there are no others.

## Not modelled

* The ELF dumper: every option reads through a file once and prints; there is no
  state, and nothing but wording and layout to be right or wrong.
* The test harnesses, as programs: they are the external clients of the models.
  The programs of Assignment3 that exercise several processors, calls, branches
  and arithmetic are transcribed in `MCVM`.
* Output: tracing, the `print*` functions of the thread library, `memDump`, the
  layout of disassembled lines.
* The bytes of words and the characters of names; the order of bytes is the same
  in all programs.
* `malloc` failing in the thread library, which does not look at its result.
