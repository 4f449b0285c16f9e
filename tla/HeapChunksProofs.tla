-------------------------- MODULE HeapChunksProofs --------------------------
(***************************************************************************)
(* Proofs about HeapChunks: for every size of the heap and of the blocks,  *)
(* the chunks tile the heap and blocks stay apart.                         *)
(*                                                                         *)
(* The inductive invariant is the conjunction of the three invariants of   *)
(* HeapChunks; none is inductive alone.  Tiling needs TypeOK for the sizes *)
(* and tells where the header of a split chunk's rest lies; LastFree needs *)
(* the order of the headers that Tiling gives.                             *)
(***************************************************************************)
EXTENDS HeapChunks, TLAPS

Inv == TypeOK /\ Tiling /\ LastFree

\* A header's address and size are numbers, and its chunk ends in the heap.
LEMMA ChunkInHeap ==
    ASSUME TypeOK, Tiling, NEW s \in DOMAIN chunk
    PROVE  /\ s \in Int /\ Base <= s /\ s <= Base + Space + 1
           /\ chunk[s].size \in Nat /\ chunk[s].alloc \in BOOLEAN
           /\ NextChunk(s) \in Int /\ NextChunk(s) <= End
           /\ NextChunk(s) \in DOMAIN chunk \cup {End}
<1>1. s \in Addr /\ chunk[s] \in Chunk
  BY DEF TypeOK
<1>2. NextChunk(s) \in DOMAIN chunk \cup {End}
  BY DEF Tiling
<1>3. chunk[s].size \in Nat /\ chunk[s].alloc \in BOOLEAN
  BY <1>1 DEF Chunk
<1>4. \A t \in DOMAIN chunk : t \in Addr
  BY DEF TypeOK
<1> QED
  BY <1>1, <1>2, <1>3, <1>4, HeapAssumption DEF Addr, End, NextChunk

\* The first chunk begins at Base.
LEMMA NoChunkBeforeBase ==
    ASSUME Tiling, NEW s \in DOMAIN chunk
    PROVE  Base \in DOMAIN chunk
BY DEF Tiling

LEMMA InitInv == Init => Inv
<1> SUFFICES ASSUME Init PROVE Inv
  OBVIOUS
<1>1. DOMAIN chunk = {}
  BY DEF Init
<1> QED
  BY <1>1 DEF Inv, TypeOK, Tiling, LastFree

\* memInitialize lays one free chunk over the heap.
LEMMA InitializeKeeps == Inv /\ memInitialize => Inv'
<1> SUFFICES ASSUME Inv, memInitialize PROVE Inv'
  OBVIOUS
<1>1. DOMAIN chunk' = {Base} /\ chunk'[Base] = Free(Space)
  BY DEF memInitialize
<1>2. chunk'[Base].alloc = FALSE /\ chunk'[Base].size = Space
  BY <1>1 DEF Free
<1>3. TypeOK'
  <2>1. Base \in Addr
    BY HeapAssumption DEF Addr
  <2>2. chunk'[Base] \in Chunk
    BY <1>1, HeapAssumption DEF Free, Chunk
  <2> QED
    BY <1>1, <2>1, <2>2 DEF TypeOK
<1>4. Tiling'
  <2>1. Base + Space + 2 = End
    BY DEF End
  <2>2. NextChunk(Base)' = End
    BY <1>2, <2>1 DEF NextChunk
  <2>3. \A s, t \in DOMAIN chunk' : ~(s < t)
    BY <1>1, HeapAssumption
  <2> QED
    BY <1>1, <2>2, <2>3 DEF Tiling, End
<1>5. LastFree'
  BY <1>1, <1>2, HeapAssumption DEF LastFree
<1> QED
  BY <1>3, <1>4, <1>5 DEF Inv

\* A split leaves a block, a free rest of at least a word, and the rest.
LEMMA FindKeeps ==
    ASSUME Inv, NEW n \in Sizes, findSpace(n)
    PROVE  Inv'
<1>1. PICK s \in DOMAIN chunk : Fits(s, n) /\ chunk' = Split(s, n)
  BY DEF findSpace
<1> DEFINE r == s + n + 2
<1>2. TypeOK /\ Tiling /\ LastFree /\ n \in Nat
  BY HeapAssumption DEF Inv
<1>3. /\ s \in Int /\ Base <= s /\ chunk[s].size \in Nat /\ ~chunk[s].alloc
      /\ chunk[s].size > n + 2
      /\ NextChunk(s) = s + chunk[s].size + 2 /\ NextChunk(s) <= End
      /\ NextChunk(s) \in DOMAIN chunk \cup {End}
  BY <1>1, <1>2, ChunkInHeap DEF Fits, NextChunk
<1>4. r \in Addr /\ s < r /\ r + 2 < NextChunk(s)
  BY <1>2, <1>3, HeapAssumption DEF Addr, End
<1>5. r \notin DOMAIN chunk
  <2> SUFFICES ASSUME r \in DOMAIN chunk PROVE FALSE
    OBVIOUS
  <2>1. NextChunk(s) <= r
    BY <1>2, <1>4 DEF Tiling
  <2> QED
    BY <2>1, <1>2, <1>3, <1>4
<1>6. DOMAIN chunk' = DOMAIN chunk \cup {r}
  BY <1>1 DEF Split
<1>7. chunk'[s] = Allocated(n)
  BY <1>1 DEF Split
<1>8. chunk'[r] = Free(chunk[s].size - n - 2)
  BY <1>1, <1>4, <1>3, <1>2 DEF Split
<1>9. ASSUME NEW t \in DOMAIN chunk, t # s PROVE chunk'[t] = chunk[t]
  BY <1>1, <1>5, <1>9 DEF Split
<1>10. /\ NextChunk(s)' = r
       /\ NextChunk(r)' = NextChunk(s)
  <2>1. chunk'[s].size = n /\ chunk'[r].size = chunk[s].size - n - 2
    BY <1>7, <1>8 DEF Allocated, Free
  <2> QED
    BY <2>1, <1>2, <1>3 DEF NextChunk
<1>11. ASSUME NEW t \in DOMAIN chunk, t # s PROVE NextChunk(t)' = NextChunk(t)
  BY <1>9, <1>11 DEF NextChunk
<1>12. TypeOK'
  <2>1. DOMAIN chunk' \subseteq Addr
    BY <1>2, <1>4, <1>6 DEF TypeOK
  <2>2. ASSUME NEW t \in DOMAIN chunk' PROVE chunk'[t] \in Chunk
    <3>1. CASE t = s
      BY <3>1, <1>2, <1>7 DEF Allocated, Chunk
    <3>2. CASE t = r
      BY <3>2, <1>2, <1>3, <1>8 DEF Free, Chunk
    <3>3. CASE t # s /\ t # r
      BY <3>3, <1>2, <1>6, <1>9 DEF TypeOK
    <3> QED
      BY <3>1, <3>2, <3>3
  <2> QED
    BY <2>1, <2>2 DEF TypeOK
<1>13. Tiling'
  <2>1. Base \in DOMAIN chunk'
    BY <1>1, <1>2, <1>6, NoChunkBeforeBase
  <2>2. ASSUME NEW t \in DOMAIN chunk' PROVE NextChunk(t)' \in DOMAIN chunk' \cup {End}
    <3>1. CASE t = s
      BY <3>1, <1>6, <1>10
    <3>2. CASE t = r
      BY <3>2, <1>3, <1>6, <1>10
    <3>3. CASE t # s /\ t # r
      <4>1. t \in DOMAIN chunk
        BY <3>3, <1>6
      <4>2. NextChunk(t) \in DOMAIN chunk \cup {End}
        BY <4>1, <1>2 DEF Tiling
      <4> QED
        BY <4>1, <4>2, <3>3, <1>6, <1>11
    <3> QED
      BY <3>1, <3>2, <3>3
  <2>3. ASSUME NEW t \in DOMAIN chunk', NEW u \in DOMAIN chunk', t < u
        PROVE  NextChunk(t)' <= u
    <3>1. ASSUME NEW x \in DOMAIN chunk PROVE x \in Int /\ NextChunk(x) \in Int
      BY <1>2, <3>1, ChunkInHeap
    <3>2. ASSUME NEW x \in DOMAIN chunk, NEW y \in DOMAIN chunk, x < y
          PROVE  NextChunk(x) <= y
      BY <1>2, <3>2 DEF Tiling
    <3>3. r \in Int
      BY <1>2, <1>3
    <3>4. CASE t = s
      <4>1. CASE u = r
        BY <3>4, <4>1, <3>3, <1>10
      <4>2. CASE u # r
        <5>1. u \in DOMAIN chunk
          BY <4>2, <1>6
        <5>2. NextChunk(s) <= u
          BY <5>1, <3>2, <3>4, <2>3
        <5> QED
          BY <5>1, <5>2, <3>1, <3>3, <3>4, <1>4, <1>10
      <4> QED
        BY <4>1, <4>2
    <3>5. CASE t = r
      <4>1. u \in DOMAIN chunk /\ s < u
        BY <3>5, <2>3, <1>4, <1>6, <1>3, <3>3, <3>1
      <4> QED
        BY <4>1, <3>2, <3>5, <1>10
    <3>6. CASE t # s /\ t # r
      <4>1. t \in DOMAIN chunk /\ NextChunk(t)' = NextChunk(t)
        BY <3>6, <1>6, <1>11
      <4>2. CASE u = r
        <5>1. t < s
          <6> SUFFICES ASSUME s < t PROVE FALSE
            BY <3>1, <3>6, <4>1, <1>3
          <6>1. NextChunk(s) <= t
            BY <4>1, <3>2
          <6> QED
            BY <6>1, <4>1, <4>2, <2>3, <1>4, <3>1, <3>3
        <5>2. NextChunk(t) <= s
          BY <5>1, <4>1, <3>2
        <5> QED
          BY <5>2, <4>1, <4>2, <1>4, <1>3, <3>1, <3>3
      <4>3. CASE u # r
        BY <4>1, <4>3, <3>2, <2>3, <1>6
      <4> QED
        BY <4>2, <4>3
    <3> QED
      BY <3>4, <3>5, <3>6
  <2> QED
    BY <2>1, <2>2, <2>3 DEF Tiling
<1>14. LastFree'
  <2> SUFFICES ASSUME NEW t \in DOMAIN chunk', NextChunk(t)' = End
               PROVE  ~chunk'[t].alloc /\ chunk'[t].size > 0
    BY DEF LastFree, End
  <2>1. CASE t = s
    BY <2>1, <1>3, <1>4, <1>10, <1>2, HeapAssumption DEF End
  <2>2. CASE t = r
    BY <2>2, <1>2, <1>3, <1>8 DEF Free
  <2>3. CASE t # s /\ t # r
    BY <2>3, <1>2, <1>6, <1>9, <1>11 DEF LastFree
  <2> QED
    BY <2>1, <2>2, <2>3
<1> QED
  BY <1>12, <1>13, <1>14 DEF Inv

\* Freeing a block changes no size and no header's place.
LEMMA SweepKeeps ==
    ASSUME Inv, NEW s \in DOMAIN chunk, sweep(s)
    PROVE  Inv'
<1>1. chunk' = [chunk EXCEPT ![s].alloc = FALSE]
  BY DEF sweep
<1>2. TypeOK /\ Tiling /\ LastFree
  BY DEF Inv
<1>3. DOMAIN chunk' = DOMAIN chunk
  BY <1>1
<1>4. ASSUME NEW t \in DOMAIN chunk
      PROVE  /\ chunk'[t] \in Chunk
             /\ chunk'[t].size = chunk[t].size
             /\ ~chunk[t].alloc => ~chunk'[t].alloc
  BY <1>1, <1>2 DEF TypeOK, Chunk
<1>5. ASSUME NEW t \in DOMAIN chunk PROVE NextChunk(t)' = NextChunk(t)
  BY <1>4 DEF NextChunk
<1>6. TypeOK'
  BY <1>2, <1>3, <1>4 DEF TypeOK
<1>7. Tiling'
  BY <1>2, <1>3, <1>5 DEF Tiling, End
<1>8. LastFree'
  BY <1>2, <1>3, <1>4, <1>5 DEF LastFree, End
<1> QED
  BY <1>6, <1>7, <1>8 DEF Inv

\* A merged chunk ends where the second one did.
LEMMA MergeKeeps ==
    ASSUME Inv, NEW s \in DOMAIN chunk, consolidate(s)
    PROVE  Inv'
<1> DEFINE r == NextChunk(s)
<1>1. /\ ~chunk[s].alloc /\ r \in DOMAIN chunk /\ ~chunk[r].alloc
      /\ chunk' = Merge(s)
  BY DEF consolidate
<1>2. TypeOK /\ Tiling /\ LastFree
  BY DEF Inv
<1>3. ASSUME NEW x \in DOMAIN chunk
      PROVE  /\ x \in Int /\ chunk[x].size \in Nat
             /\ NextChunk(x) = x + chunk[x].size + 2
  BY <1>2, ChunkInHeap DEF NextChunk
<1>4. r \in Int /\ s < r /\ r = s + chunk[s].size + 2
  BY <1>1, <1>3
<1>5. DOMAIN chunk' = DOMAIN chunk \ {r}
  BY <1>1 DEF Merge
<1>6. s \in DOMAIN chunk' /\ chunk'[s] = Free(chunk[s].size + chunk[r].size + 2)
  BY <1>1, <1>3, <1>4 DEF Merge
<1>7. ASSUME NEW t \in DOMAIN chunk', t # s
      PROVE  t \in DOMAIN chunk /\ chunk'[t] = chunk[t] /\ NextChunk(t)' = NextChunk(t)
  BY <1>1, <1>7 DEF Merge, NextChunk
<1>8. NextChunk(s)' = NextChunk(r)
  <2>1. chunk'[s].size = chunk[s].size + chunk[r].size + 2
    BY <1>6 DEF Free
  <2> QED
    BY <2>1, <1>1, <1>3, <1>4 DEF NextChunk
<1>9. TypeOK'
  <2>1. chunk'[s] \in Chunk
    BY <1>1, <1>3, <1>6 DEF Free, Chunk
  <2>2. ASSUME NEW t \in DOMAIN chunk' PROVE chunk'[t] \in Chunk
    BY <2>1, <1>2, <1>7 DEF TypeOK
  <2> QED
    BY <2>2, <1>2, <1>5 DEF TypeOK
<1>10. Tiling'
  <2>1. Base \in DOMAIN chunk'
    <3>1. Base \in DOMAIN chunk
      BY <1>2, NoChunkBeforeBase
    <3>2. Base <= s /\ Base \in Int
      BY <1>2, ChunkInHeap, HeapAssumption
    <3> QED
      BY <3>1, <3>2, <1>3, <1>4, <1>5
  <2>2. ASSUME NEW t \in DOMAIN chunk' PROVE NextChunk(t)' \in DOMAIN chunk' \cup {End}
    <3>1. ASSUME NEW x \in DOMAIN chunk, NEW y \in DOMAIN chunk,
                 NextChunk(x) = NextChunk(y)
          PROVE  x = y
      <4>1. x < y => NextChunk(x) <= y
        BY <1>2 DEF Tiling
      <4>2. y < x => NextChunk(y) <= x
        BY <1>2 DEF Tiling
      <4> QED
        BY <3>1, <4>1, <4>2, <1>3
    <3>2. CASE t = s
      <4>1. NextChunk(r) \in DOMAIN chunk \cup {End}
        BY <1>1, <1>2 DEF Tiling
      <4>2. NextChunk(r) # r
        BY <1>1, <1>3
      <4> QED
        BY <4>1, <4>2, <3>2, <1>5, <1>8
    <3>3. CASE t # s
      <4>1. t \in DOMAIN chunk /\ NextChunk(t)' = NextChunk(t)
        BY <3>3, <1>7
      <4>2. NextChunk(t) # r
        BY <4>1, <3>1, <3>3
      <4>3. NextChunk(t) \in DOMAIN chunk \cup {End}
        BY <4>1, <1>2 DEF Tiling
      <4> QED
        BY <4>1, <4>2, <4>3, <1>5
    <3> QED
      BY <3>2, <3>3
  <2>3. ASSUME NEW t \in DOMAIN chunk', NEW u \in DOMAIN chunk', t < u
        PROVE  NextChunk(t)' <= u
    <3>1. ASSUME NEW x \in DOMAIN chunk, NEW y \in DOMAIN chunk, x < y
          PROVE  NextChunk(x) <= y
      BY <1>2, <3>1 DEF Tiling
    <3>2. u \in DOMAIN chunk /\ u # r
      BY <1>5
    <3>3. CASE t = s
      <4>1. r <= u
        BY <3>1, <3>2, <3>3, <2>3
      <4>2. r < u
        BY <4>1, <3>2, <1>3, <1>4
      <4> QED
        BY <4>2, <3>1, <3>2, <3>3, <1>1, <1>8
    <3>4. CASE t # s
      BY <3>1, <3>2, <3>4, <2>3, <1>7
    <3> QED
      BY <3>3, <3>4
  <2> QED
    BY <2>1, <2>2, <2>3 DEF Tiling, End
<1>11. LastFree'
  <2>1. chunk'[s].alloc = FALSE /\ chunk'[s].size > 0
    BY <1>1, <1>3, <1>6 DEF Free
  <2>2. ASSUME NEW t \in DOMAIN chunk', NextChunk(t)' = End, t # s
        PROVE  ~chunk'[t].alloc /\ chunk'[t].size > 0
    BY <2>2, <1>2, <1>7 DEF LastFree
  <2> QED
    BY <2>1, <2>2 DEF LastFree, End
<1> QED
  BY <1>9, <1>10, <1>11 DEF Inv

LEMMA NextInv == Inv /\ [Next]_vars => Inv'
<1> SUFFICES ASSUME Inv, [Next]_vars PROVE Inv'
  OBVIOUS
<1>1. CASE memInitialize
  BY <1>1, InitializeKeeps
<1>2. ASSUME NEW n \in Sizes, findSpace(n) PROVE Inv'
  BY <1>2, FindKeeps
<1>3. ASSUME NEW s \in DOMAIN chunk, sweep(s) PROVE Inv'
  BY <1>3, SweepKeeps
<1>4. ASSUME NEW s \in DOMAIN chunk, consolidate(s) PROVE Inv'
  BY <1>4, MergeKeeps
<1>5. CASE UNCHANGED vars
  BY <1>5 DEF vars, Inv, TypeOK, Tiling, LastFree, NextChunk, End, Addr
<1> QED
  BY <1>1, <1>2, <1>3, <1>4, <1>5 DEF Next

\* The three invariants hold in every reachable state, whatever the size of
\* the heap and of the blocks asked for (alloc.c:25-42, 69-101, 201-254).
THEOREM Invariance == Spec => []Inv
<1>1. Init => Inv
  BY InitInv
<1>2. Inv /\ [Next]_vars => Inv'
  BY NextInv
<1> QED
  BY <1>1, <1>2, PTL DEF Spec

\* The chunks always cover the heap without gap or overlap, and the last one is
\* free and never empty: every walk from header to header meets all of them and
\* ends at the end of the heap (RowSound; alloc.c:53-62, 88-98, 187-253).
THEOREM RowAlwaysSound == Spec => []RowSound
<1>1. Inv => RowSound
  BY DEF Inv, RowSound
<1> QED
  BY <1>1, Invariance, PTL

\* Only findSpace makes a block, of words that were in one free chunk, and no
\* step moves or resizes a block: two blocks never share a word.
LEMMA StepKeepsBlocks == Inv /\ [Next]_vars => [BlocksStep]_vars
<1> SUFFICES ASSUME Inv, Next PROVE BlocksStep
  OBVIOUS
<1>1. TypeOK /\ Tiling
  BY DEF Inv
<1>2. CASE memInitialize
  <2>1. DOMAIN chunk = {} /\ DOMAIN chunk' = {Base} /\ ~chunk'[Base].alloc
    BY <1>2 DEF memInitialize, Free
  <2> QED
    BY <2>1 DEF BlocksStep
<1>3. ASSUME NEW n \in Sizes, findSpace(n) PROVE BlocksStep
  <2>1. PICK s \in DOMAIN chunk : Fits(s, n) /\ chunk' = Split(s, n)
    BY <1>3 DEF findSpace
  <2> DEFINE r == s + n + 2
  <2>2. /\ s \in Int /\ n \in Nat /\ ~chunk[s].alloc /\ chunk[s].size \in Nat
        /\ chunk[s].size > n + 2 /\ NextChunk(s) = s + chunk[s].size + 2
    BY <2>1, <1>1, ChunkInHeap, HeapAssumption DEF Fits, NextChunk
  <2>3. r \notin DOMAIN chunk
    <3> SUFFICES ASSUME r \in DOMAIN chunk PROVE FALSE
      OBVIOUS
    <3>1. NextChunk(s) <= r
      BY <1>1, <2>2 DEF Tiling
    <3> QED
      BY <3>1, <2>2
  <2>4. /\ DOMAIN chunk' = DOMAIN chunk \cup {r}
        /\ chunk'[s] = Allocated(n) /\ chunk'[r] = Free(chunk[s].size - n - 2)
    BY <2>1, <2>2 DEF Split
  <2>5. ASSUME NEW t \in DOMAIN chunk, t # s PROVE chunk'[t] = chunk[t]
    BY <2>1, <2>3, <2>5 DEF Split
  <2>6. chunk'[s].size = n /\ ~chunk'[r].alloc
    BY <2>4 DEF Allocated, Free
  <2>7. ASSUME NEW t \in DOMAIN chunk, chunk[t].alloc
        PROVE  NextChunk(t) <= s \/ r <= t
    <3>1. t # s /\ t \in Int
      BY <2>2, <2>7, <1>1, ChunkInHeap
    <3>2. t < s => NextChunk(t) <= s
      BY <1>1 DEF Tiling
    <3>3. s < t => NextChunk(s) <= t
      BY <1>1 DEF Tiling
    <3> QED
      BY <3>1, <3>2, <3>3, <2>2
  <2>8. ASSUME NEW t \in DOMAIN chunk, chunk[t].alloc
        PROVE  t \in DOMAIN chunk' /\ chunk'[t].size = chunk[t].size
    BY <2>2, <2>4, <2>5, <2>8
  <2>9. ASSUME NEW u \in DOMAIN chunk', chunk'[u].alloc
        PROVE  \/ u \in DOMAIN chunk /\ chunk[u] = chunk'[u]
               \/ \A t \in DOMAIN chunk :
                      chunk[t].alloc => NextChunk(t) <= u \/ u + chunk'[u].size + 2 <= t
    <3>1. CASE u = s
      BY <3>1, <2>6, <2>7
    <3>2. CASE u # s
      BY <3>2, <2>4, <2>5, <2>6, <2>9
    <3> QED
      BY <3>1, <3>2
  <2> QED
    BY <2>8, <2>9 DEF BlocksStep
<1>4. ASSUME NEW s \in DOMAIN chunk, sweep(s) PROVE BlocksStep
  <2>1. ASSUME NEW t \in DOMAIN chunk
        PROVE  /\ t \in DOMAIN chunk' /\ chunk'[t].size = chunk[t].size
               /\ chunk'[t].alloc => chunk'[t] = chunk[t]
    <3>1. DOMAIN chunk' = DOMAIN chunk /\ chunk[t] \in Chunk
      BY <1>1, <1>4 DEF sweep, TypeOK
    <3>2. chunk'[t] = IF t = s THEN [chunk[t] EXCEPT !.alloc = FALSE] ELSE chunk[t]
      BY <1>4 DEF sweep
    <3>3. CASE t = s
      BY <3>1, <3>2, <3>3 DEF Chunk
    <3>4. CASE t # s
      BY <3>1, <3>2, <3>4
    <3> QED
      BY <3>3, <3>4
  <2>2. DOMAIN chunk' = DOMAIN chunk
    BY <1>4 DEF sweep
  <2> QED
    BY <2>1, <2>2 DEF BlocksStep
<1>5. ASSUME NEW s \in DOMAIN chunk, consolidate(s) PROVE BlocksStep
  <2> DEFINE r == NextChunk(s)
  <2>1. /\ ~chunk[s].alloc /\ r \in DOMAIN chunk /\ ~chunk[r].alloc
        /\ chunk' = Merge(s)
    BY <1>5 DEF consolidate
  <2>2. r # s
    BY <1>1, ChunkInHeap DEF NextChunk
  <2>3. /\ DOMAIN chunk' = DOMAIN chunk \ {r}
        /\ ~chunk'[s].alloc
    BY <2>1, <2>2 DEF Merge, Free
  <2>4. ASSUME NEW t \in DOMAIN chunk', t # s
        PROVE  t \in DOMAIN chunk /\ chunk'[t] = chunk[t]
    BY <2>1, <2>4 DEF Merge
  <2> QED
    BY <2>1, <2>3, <2>4 DEF BlocksStep
<1> QED
  BY <1>2, <1>3, <1>4, <1>5 DEF Next

\* Blocks stay where they are until they are freed, and new ones take only
\* free words (BlocksKept).
THEOREM BlocksStay == Spec => BlocksKept
<1>1. Inv /\ [Next]_vars => [BlocksStep]_vars
  BY StepKeepsBlocks
<1> QED
  BY <1>1, Invariance, PTL DEF Spec, BlocksKept
=============================================================================
