----------------------------- MODULE HeapChunks -----------------------------
(***************************************************************************)
(* The heap of Assignment5/alloc.c as what its headers describe: a row of  *)
(* chunks, each of two header words and a number of data words, allocated  *)
(* or free.  This is what the allocator and the collector promise to keep; *)
(* Alloc, which works on the words themselves, implements it.              *)
(*                                                                         *)
(* Addresses count words.                                                  *)
(***************************************************************************)
EXTENDS Integers

CONSTANTS
    Base,       \* heapBasePtr
    Space,      \* initializedSpace, the size given to memInitialize
    Sizes       \* the sizes given to memAllocate

ASSUME HeapAssumption ==
    /\ Base \in Nat \ {0}
    /\ Space \in Nat \ {0}
    /\ Sizes \subseteq Nat

VARIABLE chunk  \* from the address of each header to what the header says

Addr == Base .. Base + Space + 1    \* the words malloc returned
End == Base + Space + 2             \* the address behind them

Chunk == [alloc : BOOLEAN, size : Nat]
Allocated(n) == [alloc |-> TRUE, size |-> n]
Free(n) == [alloc |-> FALSE, size |-> n]

NextChunk(s) == s + chunk[s].size + 2

Init == chunk = [s \in {} |-> Free(0)]

memInitialize ==
    /\ DOMAIN chunk = {}
    /\ chunk' = [s \in {Base} |-> Free(Space)]

\* Bug: a rest without a data word allowed.
Fits_header(s, n) == ~chunk[s].alloc /\ chunk[s].size > n + 1

\* Room for the block, for the header of what is left, and for one word more.
Fits(s, n) == ~chunk[s].alloc /\ chunk[s].size > n + 2

\* The chunk at s becomes a block of n words and a free chunk of what is left.
Split(s, n) ==
    [t \in DOMAIN chunk \cup {s + n + 2} |->
        IF t = s THEN Allocated(n)
        ELSE IF t = s + n + 2 THEN Free(chunk[s].size - n - 2)
        ELSE chunk[t]]

findSpace(n) ==
    \E s \in DOMAIN chunk :
        /\ Fits(s, n)
        /\ \A t \in DOMAIN chunk : Fits(t, n) => s <= t
        /\ chunk' = Split(s, n)

sweep(s) ==
    /\ chunk[s].alloc
    /\ chunk' = [chunk EXCEPT ![s].alloc = FALSE]

\* The chunk at s takes in the next one.
Merge(s) ==
    [t \in DOMAIN chunk \ {NextChunk(s)} |->
        IF t = s THEN Free(chunk[s].size + chunk[NextChunk(s)].size + 2)
        ELSE chunk[t]]

\* Bug: the next chunk not looked at.
consolidate_anyNext(s) ==
    /\ ~chunk[s].alloc
    /\ NextChunk(s) \in DOMAIN chunk
    /\ chunk' = Merge(s)

consolidate(s) ==
    /\ ~chunk[s].alloc
    /\ NextChunk(s) \in DOMAIN chunk
    /\ ~chunk[NextChunk(s)].alloc
    /\ chunk' = Merge(s)

Next ==
    \/ memInitialize
    \/ \E n \in Sizes : findSpace(n)
    \/ \E s \in DOMAIN chunk : sweep(s)
    \/ \E s \in DOMAIN chunk : consolidate(s)

vars == <<chunk>>

Spec == Init /\ [][Next]_vars

-----------------------------------------------------------------------------
(* Properties *)

\* Every header is in the heap and describes a chunk.
TypeOK ==
    /\ DOMAIN chunk \subseteq Addr
    /\ \A s \in DOMAIN chunk : chunk[s] \in Chunk

\* The chunks cover the heap without gap or overlap: the walk from header to
\* header that every loop of alloc.c makes meets each of them and ends at End.
Tiling ==
    DOMAIN chunk # {} =>
        /\ Base \in DOMAIN chunk
        /\ \A s \in DOMAIN chunk : NextChunk(s) \in DOMAIN chunk \cup {End}
        /\ \A s, t \in DOMAIN chunk : s < t => NextChunk(s) <= t

\* The last chunk is free and has a data word.  The loops end at
\* heapBasePtr + initializedSpace (alloc.c:53, 187, 203, 229), two words before
\* End, and would pass over a last chunk without data; and an allocated last
\* chunk would let the collector accept, and write through, a pointer to End.
LastFree ==
    \A s \in DOMAIN chunk : NextChunk(s) = End => ~chunk[s].alloc /\ chunk[s].size > 0

\* Every walk of alloc.c from header to header meets every chunk, and leaves the
\* loop behind the last one (alloc.c:53-62, 88-98, 187-253).
RowSound == TypeOK /\ Tiling /\ LastFree

\* A block keeps its place and size until it is freed, and what becomes a
\* block was free: no two blocks ever share a word (alloc.c:74-83, 238-250).
BlocksStep ==
    /\ \A s \in DOMAIN chunk : chunk[s].alloc =>
           s \in DOMAIN chunk' /\ chunk'[s].size = chunk[s].size
    /\ \A s \in DOMAIN chunk' : chunk'[s].alloc =>
           \/ s \in DOMAIN chunk /\ chunk[s] = chunk'[s]
           \/ \A t \in DOMAIN chunk :
                  chunk[t].alloc => NextChunk(t) <= s \/ s + chunk'[s].size + 2 <= t

BlocksKept == [][BlocksStep]_vars
=============================================================================
