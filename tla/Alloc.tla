-------------------------------- MODULE Alloc --------------------------------
(***************************************************************************)
(* Assignment5/alloc.c: a memory allocator with a conservative mark and    *)
(* sweep collector, word by word: the heap it gets from malloc, and the    *)
(* words in which the program keeps pointers (global data, stack,          *)
(* registers), which the collector scans.                                  *)
(*                                                                         *)
(* The program is external: it calls memInitialize and memAllocate, moves  *)
(* pointers about, and writes only into the data of blocks it points to.   *)
(* A call of memAllocate that collects runs through the phases of          *)
(* collectGarbage; sweep calls the program's finalizers.                   *)
(***************************************************************************)
EXTENDS Integers, Sequences, FiniteSets, FiniteSetsExt

CONSTANTS
    Base, Space,        \* what malloc returns, and the size asked for
    Sizes,              \* the sizes given to memAllocate
    Globals, Stack,     \* words of the global data and of the stack
    lastStack,          \* the stack word scanned last
    rbx,                \* the register of that name
    Discard,            \* no place at all, for a result nobody keeps
    Holders,            \* the places in which the program keeps pointers
    Interior,           \* whether it keeps pointers into and behind blocks, too
    Finalizers,         \* the finalizers it gives to memAllocate
    MayFail             \* whether malloc may return NULL

ASSUME AllocAssumption ==
    /\ Base \in Nat /\ Space \in Nat \ {0}
    /\ Base > Space + 2         \* no size is taken for an address
    /\ Sizes \subseteq Nat
    /\ lastStack \in Stack
    /\ Holders \subseteq Globals \cup Stack \cup {rbx}
    /\ Interior \in BOOLEAN /\ MayFail \in BOOLEAN

NULL == 0

\* Addresses of functions, outside the heap: a finalizer that only prints, one
\* that saves its argument in a global word, one that calls memAllocate.
prints == 1
saves == 2
allocates == 3

ASSUME FinalizerAssumption == Finalizers \subseteq {NULL, prints, saves, allocates}

VARIABLES
    initializedSpace, heapBasePtr, inFinalizeCall,
    mem,        \* the words malloc returned
    place,      \* the words of the program
    phase,      \* "user", a phase of collectGarbage, or an end of the process
    at,         \* startingPoint in traverseAndMarkHeap, sweep and consolidate
    frames,     \* the calls of recurseAndMarkHeap, the innermost last
    request,    \* the arguments of memAllocate and where the result goes
    before,     \* the heap when the collection began
    live        \* the blocks the program could reach then

vars == <<initializedSpace, heapBasePtr, inFinalizeCall, mem, place, phase, at,
          frames, request, before, live>>

heapVars == <<initializedSpace, heapBasePtr>>
calls == <<frames, request>>
history == <<before, live>>

Places == Globals \cup Stack \cup {rbx}
Addr == Base .. Base + Space + 1
End == Base + Space + 2

\* A word: its two highest bits and the rest.
Word == [alloc : BOOLEAN, mark : BOOLEAN, val : Nat]
Plain(v) == [alloc |-> FALSE, mark |-> FALSE, val |-> v]
Header(n) == [alloc |-> TRUE, mark |-> FALSE, val |-> n]

-----------------------------------------------------------------------------
(* The chunks, as the headers in the heap m describe them *)

NextChunk(m, s) == s + m[s].val + 2

\* The headers a loop from heapBasePtr meets up to the address last.
Chunks(m, last) ==
    LET from[s \in Nat \ 0 .. Base - 1] ==
            IF s > last THEN {} ELSE {s} \cup from[NextChunk(m, s)]
    IN  from[Base]

\* Those the loops over the heap visit, which end before base + space.
Visited(m) == Chunks(m, Base + Space - 1)

First(S) == IF S = {} THEN NULL ELSE Min(S)

\* Bug: the last word of a block and the one behind it not counted.
checkIfValueIsAllocatedBlockAddr_shy(m, v) ==
    First({s \in Visited(m) : m[s].alloc /\ s <= v /\ v < NextChunk(m, s) - 1})

\* The header of the block that v points into or right behind, or NULL.
checkIfValueIsAllocatedBlockAddr(m, v) ==
    IF v < Base \/ v > End THEN NULL
    ELSE First({s \in Visited(m) : m[s].alloc /\ s <= v /\ v <= NextChunk(m, s)})

\* A word whose high bits are set is no address of the heap.
BlockOf(m, w) ==
    IF w.alloc \/ w.mark THEN NULL ELSE checkIfValueIsAllocatedBlockAddr(m, w.val)

\* Bug: room for one more word asked for.
findSpace_greedy(m, n) ==
    First({s \in Chunks(m, Base + Space) : ~m[s].alloc /\ m[s].val > n + 3})

\* The first chunk for n words, of those found before the walk passes
\* base + space, or NULL.
findSpace(m, n) ==
    First({s \in Chunks(m, Base + Space) : ~m[s].alloc /\ m[s].val > n + 2})

\* Bug: the header of what is left of the chunk not written.
Allocated_noRest(m, s, n, f) == [m EXCEPT ![s] = Header(n), ![s + 1] = Plain(f)]

\* Bug: the header of what is left subtracted twice.
Allocated_short(m, s, n, f) ==
    [m EXCEPT ![s] = Header(n), ![s + n + 2] = Plain(m[s].val - n - 4), ![s + 1] = Plain(f)]

\* The block made of the chunk at s, its finalizer, and what is left.
Allocated(m, s, n, f) ==
    LET rest == m[s].val - n - 2
        split == [m EXCEPT ![s] = Header(n)]
        whole == IF n + 1 < m[s].val THEN [split EXCEPT ![s + n + 2] = Plain(rest)] ELSE split
    IN  [whole EXCEPT ![s + 1] = Plain(f)]

-----------------------------------------------------------------------------
(* What a program can reach *)

Blocks(m) == {s \in Visited(m) : m[s].alloc}

\* The data of the block at s, and its end.
Data(m, s) == s + 2 .. NextChunk(m, s) - 1

\* The blocks v is a pointer into, or right behind, the data of.
Owner(m, v) == {s \in Blocks(m) : s + 2 <= v /\ v <= NextChunk(m, s)}

Pointees(m, w) == IF w.alloc \/ w.mark THEN {} ELSE Owner(m, w.val)

\* The smallest set of blocks that holds those in start and those to which
\* the data of its members point.
Closure(m, start) ==
    LET closed == {B \in SUBSET Blocks(m) :
                       /\ start \subseteq B
                       /\ \A s \in B : \A a \in Data(m, s) : Pointees(m, m[a]) \subseteq B}
    IN  CHOOSE B \in closed : \A C \in closed : B \subseteq C

Reachable(m, p) == Closure(m, UNION {Owner(m, p[r]) : r \in Places})

\* heapBasePtr is itself a word of the global data and points to the first
\* chunk, which the collector therefore takes for reachable.
Pinned(m) == {Base} \cap Blocks(m)

-----------------------------------------------------------------------------
Init ==
    /\ initializedSpace = 0
    /\ heapBasePtr = NULL
    /\ inFinalizeCall = 0
    /\ mem = [a \in Addr |-> Plain(0)]
    /\ place = [r \in Places |-> NULL]
    /\ phase = "user"
    /\ at = NULL
    /\ frames = <<>>
    /\ request = <<>>
    /\ before = <<>>
    /\ live = {}

\* The size is recorded before malloc is asked, and whatever it answers.
memInitialize ==
    /\ phase = "user"
    /\ initializedSpace = 0
    /\ initializedSpace' = Space
    /\ \/ heapBasePtr' = Base /\ mem' = [mem EXCEPT ![Base] = Plain(Space)]
       \/ MayFail /\ UNCHANGED <<heapBasePtr, mem>>
    /\ UNCHANGED <<inFinalizeCall, place, phase, at, calls, history>>

\* The result v of memAllocate, put where the caller wants it.
Returns(d, v) == place' = IF d = Discard THEN place ELSE [place EXCEPT ![d] = v]

AllocateUninitialized(d) ==
    /\ phase = "user"
    /\ initializedSpace = 0
    /\ Returns(d, NULL)
    /\ UNCHANGED <<heapVars, inFinalizeCall, mem, phase, at, calls, history>>

\* findSpace reads the header at heapBasePtr without a look at the pointer.
AllocateAtNull ==
    /\ phase = "user"
    /\ initializedSpace # 0
    /\ heapBasePtr = NULL
    /\ phase' = "fault"
    /\ UNCHANGED <<heapVars, inFinalizeCall, mem, place, at, calls, history>>

AllocateFits(n, f, d) ==
    /\ phase = "user"
    /\ heapBasePtr # NULL
    /\ LET s == findSpace(mem, n)
       IN  /\ s # NULL
           /\ mem' = Allocated(mem, s, n, f)
           /\ Returns(d, s + 2)
    /\ UNCHANGED <<heapVars, inFinalizeCall, phase, at, calls, history>>

AllocateCollects(n, f, d) ==
    /\ phase = "user"
    /\ heapBasePtr # NULL
    /\ findSpace(mem, n) = NULL
    /\ phase' = "roots"
    /\ request' = [size |-> n, fin |-> f, dest |-> d]
    /\ before' = mem
    /\ live' = Reachable(mem, place)
    /\ UNCHANGED <<heapVars, inFinalizeCall, mem, place, at, frames>>

-----------------------------------------------------------------------------
(* The program between two calls *)

\* The words it can read and write: the data of the blocks it points to.
Accessible == UNION {Data(mem, s) : s \in UNION {Owner(mem, place[r]) : r \in Holders}}

\* What it may copy: a pointer it has or reads, a pointer it has moved by a
\* word within the block or to its end, or NULL.
Values ==
    {NULL} \cup {place[r] : r \in Holders}
    \cup {mem[a].val : a \in {b \in Accessible : Pointees(mem, mem[b]) # {}}}
    \cup {v \in {place[r] + 1 : r \in Holders} : Interior /\ Owner(mem, v - 1) \cap Owner(mem, v) # {}}

Assign(r, v) ==
    /\ phase = "user"
    /\ place' = [place EXCEPT ![r] = v]
    /\ UNCHANGED <<heapVars, inFinalizeCall, mem, phase, at, calls, history>>

Store(a, v) ==
    /\ phase = "user"
    /\ a \in Accessible
    /\ mem' = [mem EXCEPT ![a] = Plain(v)]
    /\ UNCHANGED <<heapVars, inFinalizeCall, place, phase, at, calls, history>>

-----------------------------------------------------------------------------
(* collectGarbage *)

Collect(from, to) == phase = from /\ phase' = to

Marked(m, S) == [a \in DOMAIN m |-> IF a \in S THEN [m[a] EXCEPT !.mark = TRUE] ELSE m[a]]

\* Bug: the global data not scanned, apart from heapBasePtr.
RootValues_stack(p) == {heapBasePtr} \cup {p[r] : r \in Stack}

\* The words of the global data, heapBasePtr among them, and of the stack.
RootValues(p) == {heapBasePtr} \cup {p[r] : r \in Globals \cup Stack}

\* traverseAndMarkGlobalMem, traverseAndMarkStack.
MarkRoots ==
    /\ Collect("roots", "registers")
    /\ LET found == {checkIfValueIsAllocatedBlockAddr(mem, v) : v \in RootValues(place)}
       IN  mem' = Marked(mem, found \ {NULL})
    /\ UNCHANGED <<heapVars, inFinalizeCall, place, at, calls, history>>

\* What the registers hold by then: rbx is the program's; in rsi is the last
\* chunk that findSpace looked at, and in rdi the last word of the stack scan.
Registers == {place[rbx], Max(Visited(mem)), place[lastStack]}

\* The word a register points to is marked, not the header of its block.
checkAndMarkRegisters ==
    /\ Collect("registers", "heap")
    /\ LET used == {v \in Registers : checkIfValueIsAllocatedBlockAddr(mem, v) # NULL}
       IN  mem' = Marked(mem, used)
    /\ at' = heapBasePtr
    /\ UNCHANGED <<heapVars, inFinalizeCall, place, calls, history>>

InHeap == at < Base + Space

\* The words from a on of the chunk at s that point to an unmarked block.
Unfollowed(m, s, a) ==
    {w \in a .. NextChunk(m, s) - 1 :
        BlockOf(m, m[w]) # NULL /\ ~m[BlockOf(m, m[w])].mark}

Call(s) == [chunk |-> s, word |-> s]

\* A turn of the loop of traverseAndMarkHeap: marked blocks are scanned.
traverseAndMarkHeap ==
    /\ Collect("heap", "heap")
    /\ frames = <<>> /\ InHeap
    /\ frames' = IF mem[at].alloc /\ mem[at].mark THEN <<Call(at)>> ELSE <<>>
    /\ at' = NextChunk(mem, at)
    /\ UNCHANGED <<heapVars, inFinalizeCall, mem, place, request, history>>

Innermost == frames[Len(frames)]
Ahead == Unfollowed(mem, Innermost.chunk, Innermost.word)

\* Bug: blocks found in the heap are marked but not scanned themselves.
recurseAndMarkHeap_flat ==
    /\ Collect("heap", "heap")
    /\ frames # <<>> /\ Ahead # {}
    /\ mem' = Marked(mem, {BlockOf(mem, mem[Min(Ahead)])})
    /\ frames' = [frames EXCEPT ![Len(frames)].word = Min(Ahead) + 1]
    /\ UNCHANGED <<heapVars, inFinalizeCall, place, at, request, history>>

\* Bug: the recursion made a loop that follows a pointer to another block
\* whether that is marked or not.
recurseAndMarkHeap_chase ==
    /\ Collect("heap", "heap")
    /\ frames # <<>>
    /\ \E word \in Data(mem, Innermost.chunk) :
           LET block == BlockOf(mem, mem[word])
           IN  /\ block \notin {NULL, Innermost.chunk}
               /\ mem' = Marked(mem, {block})
               /\ frames' = [frames EXCEPT ![Len(frames)] = Call(block)]
    /\ UNCHANGED <<heapVars, inFinalizeCall, place, at, request, history>>

\* The innermost call goes on to a word that points to an unmarked block,
\* marks it, and calls itself for it.
recurseAndMarkHeap ==
    /\ Collect("heap", "heap")
    /\ frames # <<>> /\ Ahead # {}
    /\ LET block == BlockOf(mem, mem[Min(Ahead)])
       IN  /\ mem' = Marked(mem, {block})
           /\ frames' = Append([frames EXCEPT ![Len(frames)].word = Min(Ahead) + 1],
                               Call(block))
    /\ UNCHANGED <<heapVars, inFinalizeCall, place, at, request, history>>

RecursionReturns ==
    /\ Collect("heap", "heap")
    /\ frames # <<>> /\ Ahead = {}
    /\ frames' = SubSeq(frames, 1, Len(frames) - 1)
    /\ UNCHANGED <<heapVars, inFinalizeCall, mem, place, at, request, history>>

MarkingEnds ==
    /\ Collect("heap", "sweep")
    /\ frames = <<>> /\ ~InHeap
    /\ at' = heapBasePtr
    /\ UNCHANGED <<heapVars, inFinalizeCall, mem, place, calls, history>>

Unmarked(m, s) == [m EXCEPT ![s].mark = FALSE]
Freed(m, s) == [m EXCEPT ![s].alloc = FALSE]

\* One round of the loop of sweep that finds a free or a reachable chunk.
SweepKeeps ==
    /\ Collect("sweep", "sweep")
    /\ InHeap
    /\ ~mem[at].alloc \/ mem[at].mark
    /\ mem' = IF mem[at].alloc THEN Unmarked(mem, at) ELSE mem
    /\ at' = NextChunk(mem, at)
    /\ UNCHANGED <<heapVars, inFinalizeCall, place, calls, history>>

Unreachable == InHeap /\ mem[at].alloc /\ ~mem[at].mark

\* Bug: blocks with a finalizer freed without calling it.
SweepFrees_silently ==
    /\ Collect("sweep", "sweep")
    /\ Unreachable
    /\ mem' = Freed(mem, at)
    /\ at' = NextChunk(mem, at)
    /\ UNCHANGED <<heapVars, inFinalizeCall, place, calls, history>>

SweepFrees ==
    /\ Collect("sweep", "sweep")
    /\ Unreachable
    /\ mem[at + 1].val = NULL
    /\ mem' = Freed(mem, at)
    /\ at' = NextChunk(mem, at)
    /\ UNCHANGED <<heapVars, inFinalizeCall, place, calls, history>>

callDestructor ==
    /\ Collect("sweep", "finalizing")
    /\ Unreachable
    /\ mem[at + 1].val # NULL
    /\ inFinalizeCall' = 1
    /\ UNCHANGED <<heapVars, mem, place, at, calls, history>>

\* The finalizer returns, and sweep frees the block whatever it did.
FinalizerReturns ==
    /\ Collect("finalizing", "sweep")
    /\ mem[at + 1].val \in {prints, saves}
    /\ IF mem[at + 1].val = saves
       THEN \E g \in Globals \cap Holders : place' = [place EXCEPT ![g] = at + 2]
       ELSE UNCHANGED place
    /\ inFinalizeCall' = 0
    /\ mem' = Freed(mem, at)
    /\ at' = NextChunk(mem, at)
    /\ UNCHANGED <<heapVars, calls, history>>

\* memAllocate called by a finalizer ends the process.
AllocateInFinalizer ==
    /\ phase = "finalizing"
    /\ mem[at + 1].val = allocates
    /\ inFinalizeCall = 1
    /\ phase' = "exited"
    /\ UNCHANGED <<heapVars, inFinalizeCall, mem, place, at, calls, history>>

SweepEnds ==
    /\ Collect("sweep", "consolidate")
    /\ ~InHeap
    /\ at' = heapBasePtr
    /\ UNCHANGED <<heapVars, inFinalizeCall, mem, place, calls, history>>

LastChunk == NextChunk(mem, at) >= Base + Space

ConsolidateSkips ==
    /\ Collect("consolidate", "consolidate")
    /\ InHeap
    /\ mem[at].alloc \/ (~LastChunk /\ mem[NextChunk(mem, at)].alloc)
    /\ at' = NextChunk(mem, at)
    /\ UNCHANGED <<heapVars, inFinalizeCall, mem, place, calls, history>>

\* The chunk takes in the next one and is looked at again.
ConsolidateMerges ==
    /\ Collect("consolidate", "consolidate")
    /\ InHeap
    /\ ~mem[at].alloc /\ ~LastChunk
    /\ LET next == NextChunk(mem, at)
       IN  /\ ~mem[next].alloc
           /\ mem' = [mem EXCEPT ![at] = Plain(mem[at].val + mem[next].val + 2)]
    /\ UNCHANGED <<heapVars, inFinalizeCall, place, at, calls, history>>

ConsolidateEnds ==
    /\ Collect("consolidate", "retry")
    /\ ~InHeap \/ (~mem[at].alloc /\ LastChunk)
    /\ at' = NULL
    /\ UNCHANGED <<heapVars, inFinalizeCall, mem, place, calls, history>>

\* The rest of memAllocate: findSpace once more.
RetryAfterCollection ==
    /\ Collect("retry", "user")
    /\ LET s == findSpace(mem, request.size)
       IN  IF s # NULL
           THEN /\ mem' = Allocated(mem, s, request.size, request.fin)
                /\ Returns(request.dest, s + 2)
           ELSE Returns(request.dest, NULL) /\ UNCHANGED mem
    /\ request' = <<>>
    /\ before' = <<>>
    /\ live' = {}
    /\ UNCHANGED <<heapVars, inFinalizeCall, at, frames>>

collectGarbage ==
    \/ MarkRoots
    \/ checkAndMarkRegisters
    \/ traverseAndMarkHeap
    \/ recurseAndMarkHeap
    \/ RecursionReturns
    \/ MarkingEnds
    \/ SweepKeeps
    \/ SweepFrees
    \/ callDestructor
    \/ FinalizerReturns
    \/ AllocateInFinalizer
    \/ SweepEnds
    \/ ConsolidateSkips
    \/ ConsolidateMerges
    \/ ConsolidateEnds
    \/ RetryAfterCollection

Next ==
    \/ memInitialize
    \/ \E d \in Holders \cup {Discard} :
           \/ AllocateUninitialized(d)
           \/ \E n \in Sizes, f \in Finalizers :
                  AllocateFits(n, f, d) \/ AllocateCollects(n, f, d)
    \/ AllocateAtNull
    \/ \E r \in Holders, v \in Values : Assign(r, v)
    \/ \E a \in Addr, v \in Values : Store(a, v)
    \/ collectGarbage

Spec == Init /\ [][Next]_vars

-----------------------------------------------------------------------------
(* Properties *)

Phases == {"user", "roots", "registers", "heap", "sweep", "finalizing",
           "consolidate", "retry", "exited", "fault"}

Frame == [chunk : Addr, word : Base .. End]

TypeOK ==
    /\ initializedSpace \in {0, Space}
    /\ heapBasePtr \in {NULL, Base}
    /\ inFinalizeCall \in 0 .. 1
    /\ mem \in [Addr -> Word]
    /\ place \in [Places -> {NULL} \cup Base .. End]
    /\ phase \in Phases
    /\ at \in {NULL} \cup Base .. End
    /\ frames \in Seq(Frame)
    /\ live \subseteq Addr

\* What the headers in the heap say.
Headers ==
    [s \in IF heapBasePtr = NULL THEN {} ELSE Chunks(mem, End - 1) |->
        [alloc |-> mem[s].alloc, size |-> mem[s].val]]

HC == INSTANCE HeapChunks WITH chunk <- Headers

\* The headers in the heap always describe a row of chunks as in HeapChunks,
\* and every step of the code is one of its steps or leaves the row as it is.
ImplementsChunks == HC!Spec

\* A block the program could reach when the collection began is the same
\* afterwards, header, finalizer and data, up to the return of memAllocate
\* (alloc.c:278-304).
LiveStep ==
    \A s \in live :
        /\ mem'[s].alloc /\ mem'[s].val = before[s].val
        /\ \A a \in s + 1 .. NextChunk(before, s) - 1 : mem'[a] = before[a]

LiveUntouched == [][LiveStep]_vars

\* Whatever the program keeps a pointer to is allocated when memAllocate has
\* returned, however many collections there were.
NoDangling ==
    phase = "user" => \A r \in Holders : place[r] # NULL => Owner(mem, place[r]) # {}

\* After a collection only reachable blocks and what the first block leads to
\* are left, no mark is left on them, and no two free chunks are neighbours.
Collected ==
    phase = "retry" =>
        /\ Blocks(mem) = Closure(before, live \cup Pinned(before))
        /\ \A s \in Blocks(mem) : ~mem[s].mark
        /\ \A s \in Visited(mem) : ~mem[s].alloc /\ NextChunk(mem, s) # End =>
                                       mem[NextChunk(mem, s)].alloc

\* The blocks that v, if it is an address, leads a collector to that knows no
\* more than v: one that it points into, right behind, or to the header of.
Suspects(m, v) == {s \in Blocks(m) : s <= v /\ v <= NextChunk(m, s)}

\* The smallest set of blocks that holds those to which the values given lead
\* and those to which words in the data of its members do.
Suspected(m, values) ==
    LET closed == {B \in SUBSET Blocks(m) :
                       /\ \A v \in values : Suspects(m, v) \subseteq B
                       /\ \A s \in B : \A a \in Data(m, s) :
                              ~m[a].alloc /\ ~m[a].mark => Suspects(m, m[a].val) \subseteq B}
    IN  CHOOSE B \in closed : \A C \in closed : B \subseteq C

\* memAllocate gives up only if there is no room: between the blocks that any
\* collector must keep that cannot tell a pointer from another word, there are
\* nowhere words enough for two headers, the data and one word more in a row
\* (alloc.c:296-302).
NullMeansFull ==
    phase = "retry" /\ findSpace(mem, request.size) = NULL =>
        LET kept == Suspected(before, RootValues(place))
            taken == UNION {s .. NextChunk(before, s) - 1 : s \in kept}
        IN  \A a \in Addr : a + request.size + 4 \in Addr =>
                a .. a + request.size + 4 \cap taken # {}

\* A block is freed by sweep only, and if it has a finalizer, in the step in
\* which that returns; nobody allocates in between (alloc.c:103-107, 208-215).
FinalizedStep ==
    \A s \in Blocks(mem) \ Blocks(mem') :
        /\ s = at /\ phase \in {"sweep", "finalizing"}
        /\ mem[s + 1].val # NULL => inFinalizeCall = 1

FinalizedFirst == [][FinalizedStep]_vars

\* "step 3: check registers" (alloc.c:263): the block that rbx points to is
\* not collected.
RegistersKept ==
    phase = "consolidate" => Owner(before, place[rbx]) \subseteq Blocks(mem)

\* Every collection ends, on circles of pointers, too (testHarness.c:147).
CollectionEnds == phase = "roots" ~> phase \in {"user", "exited"}

\* The process keeps running.
CollectorRuns == WF_vars(collectGarbage)
=============================================================================
