---------------------------- MODULE AllocProofs ----------------------------
(***************************************************************************)
(* Proofs about Alloc, for every size of the heap and of the blocks, every *)
(* set of words in which the program keeps pointers and every number of    *)
(* collections.                                                            *)
(*                                                                         *)
(* Sound needs no assumption: the headers always tile the heap, and the    *)
(* loops of the collector stand on headers.  LiveSound is about what the   *)
(* program could reach when a collection began, and needs that it keeps    *)
(* its pointers in memory, not in rbx or in the word that rdi has when the *)
(* registers are read.  Its core is Scanned: a marked block that neither   *)
(* the outer loop nor a call of recurseAndMarkHeap still has to scan       *)
(* points to nothing unmarked.  LeavesSound bounds what is left from both  *)
(* sides, and AlignedSound says when the bounds meet.                      *)
(*                                                                         *)
(* First come facts about the operators of Alloc, for every heap: the walk *)
(* from header to header, what splitting, freeing and merging do to it,    *)
(* the search for the block that a value points into, and reachability.    *)
(* Chunks is a recursive function.  That one exists is shown without       *)
(* induction: the set of the headers that every set closed under the walk  *)
(* contains satisfies its equation.                                        *)
(***************************************************************************)
EXTENDS Alloc, TLAPS, WellFoundedInduction

Memory == [Addr -> Word]

\* The headers R describe chunks that cover the heap m without gap or overlap,
\* the last one free and not empty.
IsRow(m, R) ==
    /\ R \subseteq Addr
    /\ Base \in R
    /\ \A s \in R : NextChunk(m, s) \in R \cup {End}
    /\ \A s, t \in R : s < t => NextChunk(m, s) <= t
    /\ \A s \in R : NextChunk(m, s) = End => ~m[s].alloc /\ m[s].val > 0

\* All headers that the walk meets.
Row(m) == Chunks(m, End - 1)

-----------------------------------------------------------------------------
(* Least and greatest numbers *)

\* Every set of numbers that is not empty has a least one.
LEMMA LeastNat ==
    ASSUME NEW S \in SUBSET Nat, S # {}
    PROVE  \E n \in S : \A k \in S : n <= k
<1>1. IsWellFoundedOn(OpToRel(<, Nat), Nat)
  BY NatLessThanWellFounded
<1>2. PICK n \in S : \A k \in S : ~(<<k, n>> \in OpToRel(<, Nat))
  BY <1>1, WFMin
<1>3. ASSUME NEW k \in S PROVE n <= k
  <2>1. ~(<<k, n>> \in OpToRel(<, Nat))
    BY <1>2
  <2>2. k \in Nat /\ n \in Nat
    OBVIOUS
  <2>3. ~(k < n)
    BY <2>1, <2>2 DEF OpToRel
  <2> QED
    BY <2>2, <2>3
<1> QED
  BY <1>3

LEMMA GreatestNat ==
    ASSUME NEW b \in Nat, NEW S \in SUBSET (0 .. b), S # {}
    PROVE  \E n \in S : \A k \in S : k <= n
<1> DEFINE T == {d \in 0 .. b : b - d \in S}
<1>1. ASSUME NEW k \in S PROVE b - k \in T /\ k \in 0 .. b
  <2>1. k \in 0 .. b
    OBVIOUS
  <2>2. b - k \in 0 .. b /\ b - (b - k) = k
    BY <2>1
  <2> QED
    BY <2>1, <2>2
<1>2. T \in SUBSET Nat /\ T # {}
  <2>1. PICK k : k \in S
    OBVIOUS
  <2>2. b - k \in T
    BY <1>1, <2>1
  <2>3. T \subseteq 0 .. b
    OBVIOUS
  <2>4. T \subseteq Nat
    BY <2>3
  <2> QED
    BY <2>2, <2>4
<1>3. PICK d \in T : \A k \in T : d <= k
  BY <1>2, LeastNat
<1>4. b - d \in S /\ d \in 0 .. b
  OBVIOUS
<1>5. ASSUME NEW k \in S PROVE k <= b - d
  <2>1. d <= b - k /\ k \in 0 .. b
    BY <1>1, <1>3
  <2> QED
    BY <2>1, <1>4
<1> QED
  BY <1>4, <1>5

LEMMA MinOf ==
    ASSUME NEW S \in SUBSET Nat, S # {}
    PROVE  Min(S) \in S /\ \A k \in S : Min(S) <= k
BY LeastNat DEF Min

LEMMA MaxOf ==
    ASSUME NEW b \in Nat, NEW S \in SUBSET (0 .. b), S # {}
    PROVE  Max(S) \in S /\ \A k \in S : k <= Max(S)
<1>1. PICK n \in S : \A k \in S : k <= n
  BY GreatestNat
<1>2. \A k \in S : n >= k
  <2>1. ASSUME NEW k \in S PROVE n >= k
    BY <1>1
  <2> QED
    BY <2>1
<1>3. Max(S) \in S /\ \A k \in S : Max(S) >= k
  BY <1>2 DEF Max
<1>4. ASSUME NEW k \in S PROVE k <= Max(S)
  BY <1>3
<1> QED
  BY <1>3, <1>4

LEMMA FirstOf ==
    ASSUME NEW S \in SUBSET Nat
    PROVE  /\ S = {} => First(S) = NULL
           /\ S # {} => First(S) \in S /\ \A k \in S : First(S) <= k
BY MinOf DEF First

-----------------------------------------------------------------------------
(* The walk from header to header *)

\* The addresses a walk can come to.
Upwards == Nat \ 0 .. Base - 1

\* The headers up to last that every set contains that holds s and where the
\* walk goes on from each of its members.
Met(m, last, s) ==
    {t \in Upwards : t <= last /\ \A C \in SUBSET Upwards :
        s \in C /\ (\A u \in C : u <= last => NextChunk(m, u) \in C) => t \in C}

LEMMA NextUpwards ==
    ASSUME NEW m \in Memory, NEW last \in Int, last < End, NEW s \in Upwards, s <= last
    PROVE  s \in Addr /\ NextChunk(m, s) \in Upwards
<1>1. s \in Addr
  BY AllocAssumption DEF Upwards, Addr, End
<1>2. m[s].val \in Nat
  BY <1>1 DEF Memory, Word
<1> QED
  BY <1>1, <1>2, AllocAssumption DEF Upwards, NextChunk, Addr

LEMMA MetEquation ==
    ASSUME NEW m \in Memory, NEW last \in Int, last < End, NEW s \in Upwards
    PROVE  Met(m, last, s) = IF s > last THEN {} ELSE {s} \cup Met(m, last, NextChunk(m, s))
<1> DEFINE Closed(C) == \A u \in C : u <= last => NextChunk(m, u) \in C
<1>0. s \in Int /\ \A u \in Upwards : u \in Int
  BY AllocAssumption DEF Upwards
<1>1. CASE s > last
  <2> DEFINE C == {u \in Upwards : u > last}
  <2>1. C \in SUBSET Upwards /\ s \in C
    BY <1>1
  <2>2. Closed(C)
    BY <1>0
  <2>3. ASSUME NEW t \in Met(m, last, s) PROVE FALSE
    <3>1. t \in C
      BY <2>1, <2>2 DEF Met
    <3>2. t <= last /\ t \in Upwards
      BY DEF Met
    <3> QED
      BY <3>1, <3>2, <1>0
  <2> QED
    BY <1>1, <2>3
<1>2. CASE ~(s > last)
  <2> DEFINE n == NextChunk(m, s)
  <2>1. s <= last
    BY <1>0, <1>2
  <2>2. n \in Upwards
    BY <2>1, NextUpwards
  <2>3. s \in Met(m, last, s)
    BY <2>1 DEF Met
  <2>4. ASSUME NEW t \in Met(m, last, n) PROVE t \in Met(m, last, s)
    <3>1. t \in Upwards /\ t <= last
      BY DEF Met
    <3>2. ASSUME NEW C \in SUBSET Upwards, s \in C, Closed(C) PROVE t \in C
      <4>1. n \in C
        BY <2>1, <3>2
      <4> QED
        BY <3>2, <4>1 DEF Met
    <3> QED
      BY <3>1, <3>2 DEF Met
  <2>5. ASSUME NEW t \in Met(m, last, s), t # s PROVE t \in Met(m, last, n)
    <3>1. t \in Upwards /\ t <= last
      BY DEF Met
    <3>2. ASSUME NEW C \in SUBSET Upwards, n \in C, Closed(C) PROVE t \in C
      <4> DEFINE B == C \cup {s}
      <4>1. B \in SUBSET Upwards /\ s \in B
        OBVIOUS
      <4>2. Closed(B)
        BY <3>2
      <4>3. t \in B
        BY <4>1, <4>2 DEF Met
      <4> QED
        BY <4>3, <2>5
    <3> QED
      BY <3>1, <3>2 DEF Met
  <2> QED
    BY <1>2, <2>3, <2>4, <2>5
<1> QED
  BY <1>1, <1>2

\* The function that Chunks is defined by exists.
LEMMA ChunksWalk ==
    ASSUME NEW m \in Memory, NEW last \in Int, last < End
    PROVE  \E f : /\ f = [s \in Upwards |->
                             IF s > last THEN {} ELSE {s} \cup f[NextChunk(m, s)]]
                  /\ Chunks(m, last) = f[Base]
<1> DEFINE Eq(f) == f = [s \in Upwards |-> IF s > last THEN {} ELSE {s} \cup f[NextChunk(m, s)]]
           g == [s \in Upwards |-> Met(m, last, s)]
<1>1. ASSUME NEW s \in Upwards
      PROVE  g[s] = IF s > last THEN {} ELSE {s} \cup g[NextChunk(m, s)]
  <2>1. CASE s > last
    BY <2>1, MetEquation
  <2>2. CASE ~(s > last)
    <3>1. s <= last
      BY <2>2 DEF Upwards
    <3>2. NextChunk(m, s) \in Upwards
      BY <3>1, NextUpwards
    <3> QED
      BY <2>2, <3>2, MetEquation
  <2> QED
    BY <2>1, <2>2
<1>2. Eq(g)
  BY <1>1
<1>3. Eq(CHOOSE f : Eq(f))
  BY <1>2
<1>4. Chunks(m, last) = (CHOOSE f : Eq(f))[Base]
  BY DEF Chunks, Upwards
<1> QED
  BY <1>3, <1>4

\* Whatever the headers say, the walk stays in the heap.
LEMMA ChunksInHeap ==
    ASSUME NEW m \in Memory, NEW last \in Int, last < End
    PROVE  Chunks(m, last) \subseteq Addr
<1>1. PICK f : /\ f = [s \in Upwards |->
                           IF s > last THEN {} ELSE {s} \cup f[NextChunk(m, s)]]
               /\ Chunks(m, last) = f[Base]
  BY ChunksWalk
<1> DEFINE D == {s \in Addr : ~(f[s] \subseteq Addr)}
<1>2. ASSUME NEW s \in Upwards, s > last PROVE f[s] = {}
  BY <1>1, <1>2
<1>3. D = {}
  <2> SUFFICES ASSUME D # {} PROVE FALSE
    OBVIOUS
  <2>1. D \in SUBSET (0 .. Base + Space + 1) /\ Base + Space + 1 \in Nat
    BY AllocAssumption DEF Addr
  <2>2. PICK s \in D : \A k \in D : k <= s
    BY <2>1, GreatestNat
  <2>3. s \in Addr /\ s \in Upwards /\ s \in Int
    BY AllocAssumption DEF Addr, Upwards
  <2>4. s <= last
    <3>1. ~(s > last)
      BY <1>2, <2>3
    <3> QED
      BY <3>1, <2>3
  <2> DEFINE n == NextChunk(m, s)
  <2>5. n \in Upwards
    BY <2>3, <2>4, NextUpwards
  <2>6. n \in Int /\ s < n
    <3>1. m[s].val \in Nat
      BY <2>3 DEF Memory, Word
    <3> QED
      BY <3>1, <2>3 DEF NextChunk
  <2>7. f[s] = {s} \cup f[n]
    BY <1>1, <2>3, <2>4
  <2>8. f[n] \subseteq Addr
    <3>1. CASE n > last
      BY <3>1, <1>2, <2>5
    <3>2. CASE ~(n > last)
      <4>1. n \in Addr
        BY <3>2, <2>5, NextUpwards, <2>6
      <4>2. n \notin D
        BY <2>2, <2>3, <2>6
      <4> QED
        BY <4>1, <4>2
    <3> QED
      BY <3>1, <3>2
  <2> QED
    BY <2>3, <2>7, <2>8
<1>4. Base \in Addr
  BY AllocAssumption DEF Addr
<1> QED
  BY <1>1, <1>3, <1>4

-----------------------------------------------------------------------------
(* Rows of chunks *)

LEMMA RowBounds ==
    ASSUME NEW m \in Memory, NEW R, IsRow(m, R), NEW s \in R
    PROVE  /\ s \in Int /\ s \in Addr /\ Base <= s /\ s <= Base + Space - 1
           /\ m[s] \in Word /\ m[s].val \in Nat
           /\ m[s].alloc \in BOOLEAN /\ m[s].mark \in BOOLEAN
           /\ NextChunk(m, s) = s + m[s].val + 2
           /\ NextChunk(m, s) \in Int /\ s + 2 <= NextChunk(m, s) /\ NextChunk(m, s) <= End
           /\ NextChunk(m, s) \in R \cup {End}
           /\ NextChunk(m, s) = End => ~m[s].alloc /\ m[s].val > 0
<1>1. s \in Addr /\ R \subseteq Addr
  BY DEF IsRow
<1>2. m[s] \in Word
  BY <1>1 DEF Memory
<1>3. m[s].val \in Nat /\ m[s].alloc \in BOOLEAN /\ m[s].mark \in BOOLEAN
  BY <1>2 DEF Word
<1>4. NextChunk(m, s) = s + m[s].val + 2
  BY DEF NextChunk
<1>5. /\ NextChunk(m, s) \in R \cup {End}
      /\ NextChunk(m, s) = End => ~m[s].alloc /\ m[s].val > 0
  BY DEF IsRow
<1>6. s \in Int /\ Base <= s /\ s <= Base + Space + 1
  BY <1>1, AllocAssumption DEF Addr
<1>7. ASSUME NextChunk(m, s) # End PROVE NextChunk(m, s) <= Base + Space + 1
  <2>1. NextChunk(m, s) \in Addr
    BY <1>1, <1>5, <1>7
  <2> QED
    BY <2>1, AllocAssumption DEF Addr
<1>8. CASE NextChunk(m, s) = End
  BY <1>1, <1>2, <1>3, <1>4, <1>5, <1>6, <1>8, AllocAssumption DEF End
<1>9. CASE NextChunk(m, s) # End
  BY <1>1, <1>2, <1>3, <1>4, <1>5, <1>6, <1>7, <1>9, AllocAssumption DEF End
<1> QED
  BY <1>8, <1>9

\* Every loop over the heap meets exactly the headers of the row, wherever
\* between the last header and End it stops.
LEMMA RowIsMet ==
    ASSUME NEW m \in Memory, NEW R, IsRow(m, R),
           NEW last \in Int, Base + Space - 1 <= last, last < End
    PROVE  Chunks(m, last) = R
<1>1. PICK f : /\ f = [s \in Upwards |->
                           IF s > last THEN {} ELSE {s} \cup f[NextChunk(m, s)]]
               /\ Chunks(m, last) = f[Base]
  BY ChunksWalk
<1> DEFINE From(s) == {t \in R : s <= t}
           D == {s \in R : f[s] # From(s)}
<1>2. R \subseteq Upwards /\ Base \in R /\ End \in Upwards
  <2>1. End \in Upwards
    BY AllocAssumption DEF End, Upwards
  <2>2. ASSUME NEW s \in R PROVE s \in Upwards
    BY RowBounds, AllocAssumption DEF Upwards
  <2> QED
    BY <2>1, <2>2 DEF IsRow
<1>3. D = {}
  <2> SUFFICES ASSUME D # {} PROVE FALSE
    OBVIOUS
  <2>1. D \in SUBSET (0 .. Base + Space) /\ Base + Space \in Nat
    <3>1. ASSUME NEW s \in R PROVE s \in 0 .. Base + Space
      BY RowBounds, AllocAssumption
    <3> QED
      BY <3>1, AllocAssumption
  <2>2. PICK s \in D : \A k \in D : k <= s
    BY <2>1, GreatestNat
  <2> DEFINE n == NextChunk(m, s)
  <2>3. /\ s \in R /\ s \in Int /\ n \in Int /\ s < n /\ n \in R \cup {End}
        /\ s <= Base + Space - 1
    BY RowBounds
  <2>4. s \in Upwards /\ ~(s > last)
    BY <1>2, <2>3, AllocAssumption
  <2>5. f[s] = {s} \cup f[n]
    BY <1>1, <2>4
  <2>6. ASSUME NEW t \in R PROVE t \in Int /\ (s <= t <=> t = s \/ n <= t)
    <3>1. t \in Int
      BY RowBounds
    <3>2. s < t => n <= t
      BY <2>3 DEF IsRow
    <3> QED
      BY <3>1, <3>2, <2>3
  <2>7. From(s) = {s} \cup From(n)
    BY <2>3, <2>6
  <2>8. f[n] = From(n)
    <3>1. CASE n \in R
      <4>1. n \notin D
        BY <2>2, <2>3
      <4> QED
        BY <3>1, <4>1
    <3>2. CASE n = End
      <4>1. End > last /\ f[End] = {}
        BY <1>1, <1>2 DEF End
      <4>2. ASSUME NEW t \in R PROVE ~(End <= t)
        BY RowBounds, AllocAssumption DEF End
      <4> QED
        BY <3>2, <4>1, <4>2
    <3> QED
      BY <2>3, <3>1, <3>2
  <2>9. f[s] = From(s)
    BY <2>5, <2>7, <2>8
  <2> QED
    BY <2>9
<1>4. f[Base] = From(Base)
  BY <1>2, <1>3
<1>5. From(Base) = R
  <2>1. ASSUME NEW t \in R PROVE Base <= t
    BY RowBounds
  <2> QED
    BY <2>1
<1> QED
  BY <1>1, <1>4, <1>5

\* All loops of alloc.c meet the same headers.
LEMMA RowOf ==
    ASSUME NEW m \in Memory, NEW R, IsRow(m, R)
    PROVE  /\ Row(m) = R /\ Visited(m) = R /\ Chunks(m, Base + Space) = R
           /\ Blocks(m) = {s \in R : m[s].alloc}
<1>1. /\ Base + Space - 1 \in Int /\ Base + Space - 1 < End
      /\ Base + Space \in Int /\ Base + Space - 1 <= Base + Space /\ Base + Space < End
      /\ End - 1 \in Int /\ Base + Space - 1 <= End - 1 /\ End - 1 < End
      /\ Base + Space - 1 <= Base + Space - 1
  BY AllocAssumption DEF End
<1>2. Chunks(m, End - 1) = R
  BY <1>1, RowIsMet
<1>3. Chunks(m, Base + Space - 1) = R
  BY <1>1, RowIsMet
<1>4. Chunks(m, Base + Space) = R
  BY <1>1, RowIsMet
<1> QED
  BY <1>2, <1>3, <1>4 DEF Row, Visited, Blocks

\* A heap whose headers have the same sizes has the same row.
LEMMA SameRow ==
    ASSUME NEW m \in Memory, NEW R, IsRow(m, R), NEW n \in Memory,
           \A s \in R : n[s].val = m[s].val /\ (n[s].alloc => m[s].alloc)
    PROVE  IsRow(n, R) /\ \A s \in R : NextChunk(n, s) = NextChunk(m, s)
<1>1. ASSUME NEW s \in R PROVE NextChunk(n, s) = NextChunk(m, s)
  BY DEF NextChunk
<1>2. \A s \in R : NextChunk(n, s) \in R \cup {End}
  BY <1>1 DEF IsRow
<1>3. \A s, t \in R : s < t => NextChunk(n, s) <= t
  BY <1>1 DEF IsRow
<1>4. \A s \in R : NextChunk(n, s) = End => ~n[s].alloc /\ n[s].val > 0
  BY <1>1 DEF IsRow
<1> QED
  BY <1>1, <1>2, <1>3, <1>4 DEF IsRow

\* Before the heap is laid out nothing is allocated; memInitialize makes one
\* free chunk of it.
LEMMA InitialRow ==
    ASSUME NEW m \in Memory, m[Base] = Plain(Space)
    PROVE  IsRow(m, {Base})
<1>1. m[Base].val = Space /\ ~m[Base].alloc
  BY DEF Plain
<1>2. NextChunk(m, Base) = End /\ Base \in Addr
  BY <1>1, AllocAssumption DEF NextChunk, End, Addr
<1>3. \A s, t \in {Base} : ~(s < t)
  BY AllocAssumption
<1> QED
  BY <1>1, <1>2, <1>3, AllocAssumption DEF IsRow

\* A chunk that is split becomes two, of which the second is free.
LEMMA SplitRow ==
    ASSUME NEW m \in Memory, NEW R, IsRow(m, R), NEW s \in R, NEW k \in Nat,
           ~m[s].alloc, m[s].val > k + 2, NEW n \in Memory,
           n[s].val = k, ~n[s + k + 2].alloc, n[s + k + 2].val = m[s].val - k - 2,
           \A t \in R \ {s} : n[t].val = m[t].val /\ n[t].alloc = m[t].alloc
    PROVE  /\ IsRow(n, R \cup {s + k + 2})
           /\ s + k + 2 \in Addr \ R
           /\ \A t \in R \ {s} : NextChunk(n, t) = NextChunk(m, t)
           /\ NextChunk(n, s) = s + k + 2 /\ NextChunk(n, s + k + 2) = NextChunk(m, s)
<1> DEFINE r == s + k + 2
           Q == R \cup {r}
<1>1. /\ s \in Int /\ Base <= s /\ m[s].val \in Nat
      /\ NextChunk(m, s) = s + m[s].val + 2 /\ NextChunk(m, s) \in Int
      /\ NextChunk(m, s) <= End /\ NextChunk(m, s) \in R \cup {End}
  BY RowBounds
<1>2. r \in Int /\ s < r /\ r + 2 < NextChunk(m, s)
  BY <1>1
<1>3. r \in Addr
  BY <1>1, <1>2, AllocAssumption DEF Addr, End
<1>4. ASSUME NEW t \in R
      PROVE  /\ t \in Int /\ NextChunk(m, t) \in Int /\ t < NextChunk(m, t)
             /\ s < t => NextChunk(m, s) <= t
             /\ t < s => NextChunk(m, t) <= s
  BY RowBounds DEF IsRow
<1>5. r \notin R
  <2>1. ASSUME r \in R PROVE FALSE
    <3>1. NextChunk(m, s) <= r
      BY <1>2, <1>4, <2>1
    <3> QED
      BY <3>1, <1>1, <1>2
  <2> QED
    BY <2>1
<1>6. NextChunk(n, s) = r /\ NextChunk(n, r) = NextChunk(m, s)
  BY <1>1, <1>2 DEF NextChunk
<1>7. ASSUME NEW t \in R, t # s PROVE NextChunk(n, t) = NextChunk(m, t)
  BY <1>7 DEF NextChunk
<1>8. Q \subseteq Addr /\ Base \in Q
  BY <1>3 DEF IsRow
<1>9. ASSUME NEW t \in Q PROVE NextChunk(n, t) \in Q \cup {End}
  <2>1. CASE t = s
    BY <2>1, <1>6
  <2>2. CASE t = r
    BY <2>2, <1>1, <1>6
  <2>3. CASE t # s /\ t # r
    BY <2>3, <1>7 DEF IsRow
  <2> QED
    BY <2>1, <2>2, <2>3
<1>10. ASSUME NEW t \in Q, NEW u \in Q, t < u PROVE NextChunk(n, t) <= u
  <2>1. CASE t = s
    <3>1. CASE u = r
      BY <2>1, <3>1, <1>2, <1>6
    <3>2. CASE u # r
      BY <2>1, <3>2, <1>1, <1>2, <1>4, <1>6, <1>10
    <3> QED
      BY <3>1, <3>2
  <2>2. CASE t = r
    <3>1. u \in R /\ s < u
      BY <2>2, <1>1, <1>2, <1>4, <1>10
    <3> QED
      BY <2>2, <3>1, <1>4, <1>6
  <2>3. CASE t # s /\ t # r
    <3>1. t \in R /\ NextChunk(n, t) = NextChunk(m, t)
      BY <2>3, <1>7
    <3>2. CASE u \in R
      BY <3>1, <3>2, <1>10 DEF IsRow
    <3>3. CASE u = r
      <4>1. t < s
        <5>1. ~(s < t)
          BY <3>1, <3>3, <1>1, <1>2, <1>4, <1>10
        <5>2. t \in Int /\ s \in Int /\ t # s
          BY <2>3, <3>1, <1>1, <1>4
        <5> QED
          BY <5>1, <5>2
      <4>2. NextChunk(m, t) <= s
        BY <4>1, <3>1, <1>4
      <4> QED
        BY <4>2, <3>1, <3>3, <1>1, <1>2, <1>4
    <3> QED
      BY <3>2, <3>3
  <2> QED
    BY <2>1, <2>2, <2>3
<1>11. ASSUME NEW t \in Q, NextChunk(n, t) = End PROVE ~n[t].alloc /\ n[t].val > 0
  <2>1. CASE t = s
    BY <2>1, <1>1, <1>2, <1>6, <1>11, AllocAssumption DEF End
  <2>2. CASE t = r
    BY <2>2, <1>1
  <2>3. CASE t # s /\ t # r
    BY <2>3, <1>7, <1>11 DEF IsRow
  <2> QED
    BY <2>1, <2>2, <2>3
<1>12. IsRow(n, Q)
  BY <1>8, <1>9, <1>10, <1>11 DEF IsRow
<1> QED
  BY <1>3, <1>5, <1>6, <1>7, <1>12

\* A free chunk takes in the free chunk behind it.
LEMMA MergeRow ==
    ASSUME NEW m \in Memory, NEW R, IsRow(m, R), NEW s \in R, NextChunk(m, s) \in R,
           ~m[NextChunk(m, s)].alloc, NEW n \in Memory,
           ~n[s].alloc, n[s].val = m[s].val + m[NextChunk(m, s)].val + 2,
           \A t \in R \ {s} : n[t].val = m[t].val /\ n[t].alloc = m[t].alloc
    PROVE  /\ IsRow(n, R \ {NextChunk(m, s)})
           /\ \A t \in R \ {s} : NextChunk(n, t) = NextChunk(m, t)
           /\ s # NextChunk(m, s)
<1> DEFINE r == NextChunk(m, s)
           Q == R \ {r}
<1>1. ASSUME NEW t \in R
      PROVE  /\ t \in Int /\ NextChunk(m, t) \in Int /\ t < NextChunk(m, t)
             /\ m[t].val \in Nat /\ NextChunk(m, t) = t + m[t].val + 2
             /\ NextChunk(m, t) \in R \cup {End} /\ t # End /\ Base <= t
  BY RowBounds, AllocAssumption DEF End
<1>2. ASSUME NEW t \in R, NEW u \in R, t < u PROVE NextChunk(m, t) <= u
  BY <1>2 DEF IsRow
<1>3. s \in Q /\ Q \subseteq Addr
  BY <1>1 DEF IsRow
<1>4. NextChunk(n, s) = NextChunk(m, r)
  BY <1>1 DEF NextChunk
<1>5. ASSUME NEW t \in R, t # s PROVE NextChunk(n, t) = NextChunk(m, t)
  BY <1>5 DEF NextChunk
<1>6. Base \in Q
  <2>1. Base \in R
    BY DEF IsRow
  <2>2. Base # r
    BY <1>1, AllocAssumption
  <2> QED
    BY <2>1, <2>2
<1>7. ASSUME NEW t \in Q PROVE NextChunk(n, t) \in Q \cup {End}
  <2>1. CASE t = s
    <3>1. NextChunk(m, r) \in R \cup {End} /\ NextChunk(m, r) # r
      BY <1>1
    <3> QED
      BY <2>1, <3>1, <1>4
  <2>2. CASE t # s
    <3>1. NextChunk(m, t) # r
      <4>1. t < s => NextChunk(m, t) <= s
        BY <1>2
      <4>2. s < t => r <= t
        BY <1>2
      <4> QED
        BY <4>1, <4>2, <2>2, <1>1
    <3> QED
      BY <2>2, <3>1, <1>1, <1>5
  <2> QED
    BY <2>1, <2>2
<1>8. ASSUME NEW t \in Q, NEW u \in Q, t < u PROVE NextChunk(n, t) <= u
  <2>1. CASE t = s
    <3>1. r <= u
      BY <2>1, <1>2, <1>8
    <3>2. r < u
      BY <3>1, <1>1
    <3> QED
      BY <3>2, <2>1, <1>2, <1>4
  <2>2. CASE t # s
    BY <2>2, <1>2, <1>5, <1>8
  <2> QED
    BY <2>1, <2>2
<1>9. ASSUME NEW t \in Q, NextChunk(n, t) = End PROVE ~n[t].alloc /\ n[t].val > 0
  <2>1. CASE t = s
    BY <2>1, <1>1
  <2>2. CASE t # s
    BY <2>2, <1>5, <1>9 DEF IsRow
  <2> QED
    BY <2>1, <2>2
<1>10. IsRow(n, Q)
  BY <1>3, <1>6, <1>7, <1>8, <1>9 DEF IsRow
<1> QED
  BY <1>1, <1>5, <1>10

\* Two chunks have no word in common.
LEMMA ChunksDisjoint ==
    ASSUME NEW m \in Memory, NEW R, IsRow(m, R), NEW s \in R, NEW t \in R, NEW a \in Int,
           s <= a, a < NextChunk(m, s), t <= a, a < NextChunk(m, t)
    PROVE  s = t
<1>1. /\ s \in Int /\ NextChunk(m, s) \in Int
      /\ t \in Int /\ NextChunk(m, t) \in Int
  BY RowBounds
<1>2. s < t => NextChunk(m, s) <= t
  BY DEF IsRow
<1>3. t < s => NextChunk(m, t) <= s
  BY DEF IsRow
<1> QED
  BY <1>1, <1>2, <1>3

-----------------------------------------------------------------------------
(* Allocating *)

\* findSpace returns NULL or a free chunk with room enough.
LEMMA SpaceFound ==
    ASSUME NEW m \in Memory, NEW R, IsRow(m, R), NEW k \in Nat, findSpace(m, k) # NULL
    PROVE  LET s == findSpace(m, k)
           IN  /\ s \in R /\ ~m[s].alloc /\ m[s].val > k + 2
               /\ \A t \in R : ~m[t].alloc /\ m[t].val > k + 2 => s <= t
<1> DEFINE S == {s \in R : ~m[s].alloc /\ m[s].val > k + 2}
<1>1. findSpace(m, k) = First(S)
  BY RowOf DEF findSpace
<1>2. S \in SUBSET Nat
  <2>1. ASSUME NEW s \in R PROVE s \in Nat
    BY RowBounds, AllocAssumption
  <2> QED
    BY <2>1
<1>3. First(S) \in S /\ \A t \in S : First(S) <= t
  BY <1>1, <1>2, FirstOf
<1> QED
  BY <1>1, <1>3

\* What memAllocate does to a chunk with room enough: nothing but its first two
\* words and the header of what is left change.
LEMMA AllocatedHeap ==
    ASSUME NEW m \in Memory, NEW R, IsRow(m, R), NEW k \in Nat, NEW f \in Nat,
           NEW s \in R, ~m[s].alloc, m[s].val > k + 2, NEW n, n = Allocated(m, s, k, f)
    PROVE  /\ n \in Memory
           /\ s + k + 2 \in Addr \ R /\ IsRow(n, R \cup {s + k + 2})
           /\ n[s] = Header(k) /\ n[s + 1] = Plain(f) /\ ~n[s + k + 2].alloc
           /\ s + 1 \in Addr \ R
           /\ NextChunk(n, s) = s + k + 2
           /\ \A a \in Addr : a < s \/ a >= NextChunk(m, s) => n[a] = m[a]
           /\ \A t \in R \ {s} : NextChunk(n, t) = NextChunk(m, t)
<1> DEFINE r == s + k + 2
           rest == m[s].val - k - 2
<1>1. /\ s \in Int /\ Base <= s /\ m[s].val \in Nat
      /\ NextChunk(m, s) = s + m[s].val + 2 /\ NextChunk(m, s) <= End
  BY RowBounds
<1>2. /\ s \in Addr /\ s + 1 \in Addr /\ r \in Addr
      /\ s # s + 1 /\ s # r /\ s + 1 # r
      /\ s + 1 < NextChunk(m, s) /\ r < NextChunk(m, s) /\ s < r
      /\ rest \in Nat /\ k + 1 < m[s].val
  BY <1>1, AllocAssumption DEF Addr, End
<1>3. n = [m EXCEPT ![s] = Header(k), ![r] = Plain(rest), ![s + 1] = Plain(f)]
  <2> DEFINE m1 == [m EXCEPT ![s] = Header(k)]
  <2>1. m1 \in [Addr -> {m[a] : a \in Addr} \cup {Header(k)}]
    BY <1>2 DEF Memory
  <2> QED
    BY <1>2, <2>1 DEF Allocated
<1>4. /\ n[s] = Header(k) /\ n[s + 1] = Plain(f) /\ n[r] = Plain(rest)
      /\ \A a \in Addr : a # s /\ a # s + 1 /\ a # r => n[a] = m[a]
      /\ DOMAIN n = Addr
  BY <1>2, <1>3 DEF Memory
<1>5. Header(k) \in Word /\ Plain(f) \in Word /\ Plain(rest) \in Word
  BY <1>2 DEF Header, Plain, Word
<1>6. n \in Memory
  BY <1>2, <1>3, <1>5 DEF Memory
<1>7. n[s].val = k /\ ~n[r].alloc /\ n[r].val = rest
  BY <1>4 DEF Header, Plain
<1>8. s + 1 \notin R
  <2>1. ASSUME s + 1 \in R PROVE FALSE
    <3>1. NextChunk(m, s) <= s + 1
      BY <1>1, <2>1 DEF IsRow
    <3> QED
      BY <3>1, <1>1, <1>2
  <2> QED
    BY <2>1
<1>9. r \notin R
  <2>1. ASSUME r \in R PROVE FALSE
    <3>1. NextChunk(m, s) <= r
      BY <1>2, <2>1 DEF IsRow
    <3> QED
      BY <3>1, <1>1, <1>2
  <2> QED
    BY <2>1
<1>10. \A t \in R \ {s} : n[t].val = m[t].val /\ n[t].alloc = m[t].alloc
  <2>1. R \subseteq Addr
    BY DEF IsRow
  <2> QED
    BY <2>1, <1>4, <1>8, <1>9
<1>11. /\ IsRow(n, R \cup {r}) /\ r \in Addr \ R
       /\ \A t \in R \ {s} : NextChunk(n, t) = NextChunk(m, t)
       /\ NextChunk(n, s) = r
  BY <1>6, <1>7, <1>10, SplitRow
<1>12. ASSUME NEW a \in Addr, a < s \/ a >= NextChunk(m, s) PROVE n[a] = m[a]
  <2>1. a \in Int
    BY AllocAssumption DEF Addr
  <2>2. a # s /\ a # s + 1 /\ a # r
    BY <2>1, <1>1, <1>2, <1>12
  <2> QED
    BY <2>2, <1>4
<1> QED
  BY <1>2, <1>4, <1>6, <1>7, <1>8, <1>11, <1>12

-----------------------------------------------------------------------------
(* The block a value points into *)

\* What is found for a value is NULL or a block it points into or behind.
LEMMA BlockFound ==
    ASSUME NEW m \in Memory, NEW R, IsRow(m, R), NEW v \in Nat,
           checkIfValueIsAllocatedBlockAddr(m, v) # NULL
    PROVE  LET b == checkIfValueIsAllocatedBlockAddr(m, v)
           IN  b \in R /\ m[b].alloc /\ b <= v /\ v <= NextChunk(m, b)
<1> DEFINE S == {s \in R : m[s].alloc /\ s <= v /\ v <= NextChunk(m, s)}
<1>1. checkIfValueIsAllocatedBlockAddr(m, v) = First(S)
  BY RowOf DEF checkIfValueIsAllocatedBlockAddr
<1>2. S \in SUBSET Nat
  <2>1. ASSUME NEW s \in R PROVE s \in Nat
    BY RowBounds, AllocAssumption
  <2> QED
    BY <2>1
<1>3. First(S) \in S
  BY <1>1, <1>2, FirstOf
<1> QED
  BY <1>1, <1>3

\* The block that a pointer into its data or right behind it belongs to is the
\* one that is found.
LEMMA OwnerFound ==
    ASSUME NEW m \in Memory, NEW R, IsRow(m, R), NEW v \in Nat, NEW s \in Owner(m, v)
    PROVE  /\ s \in R /\ m[s].alloc /\ s + 2 <= v /\ v <= NextChunk(m, s)
           /\ checkIfValueIsAllocatedBlockAddr(m, v) = s /\ s # NULL
<1> DEFINE S == {t \in R : m[t].alloc /\ t <= v /\ v <= NextChunk(m, t)}
<1>1. s \in R /\ m[s].alloc /\ s + 2 <= v /\ v <= NextChunk(m, s)
  BY RowOf DEF Owner
<1>2. s \in Int /\ Base <= s /\ NextChunk(m, s) \in Int /\ NextChunk(m, s) <= End
  BY <1>1, RowBounds
<1>3. s \in S
  BY <1>1, <1>2
<1>4. S \in SUBSET Nat
  <2>1. ASSUME NEW t \in R PROVE t \in Nat
    BY RowBounds, AllocAssumption
  <2> QED
    BY <2>1
<1>5. First(S) \in S /\ First(S) <= s
  BY <1>3, <1>4, FirstOf
<1>6. First(S) = s
  <2> DEFINE t == First(S)
  <2>1. t \in R /\ t <= s /\ v <= NextChunk(m, t) /\ t \in Int /\ NextChunk(m, t) \in Int
    BY <1>5, RowBounds
  <2>2. t < s => NextChunk(m, t) <= s
    BY <1>1, <2>1 DEF IsRow
  <2> QED
    BY <2>1, <2>2, <1>1, <1>2
<1>7. ~(v < Base \/ v > End)
  BY <1>1, <1>2, AllocAssumption DEF End
<1>8. checkIfValueIsAllocatedBlockAddr(m, v) = First(S)
  BY <1>7, RowOf DEF checkIfValueIsAllocatedBlockAddr
<1>9. s # NULL
  BY <1>2, AllocAssumption DEF NULL
<1> QED
  BY <1>1, <1>6, <1>8, <1>9

\* Nothing but sizes and allocation bits of the headers matters.
LEMMA SameBlocks ==
    ASSUME NEW m \in Memory, NEW R, IsRow(m, R), NEW n \in Memory,
           \A s \in R : n[s].val = m[s].val /\ n[s].alloc = m[s].alloc
    PROVE  /\ IsRow(n, R) /\ Blocks(n) = Blocks(m)
           /\ \A s \in R : NextChunk(n, s) = NextChunk(m, s)
           /\ \A v : Owner(n, v) = Owner(m, v)
           /\ \A v : checkIfValueIsAllocatedBlockAddr(n, v)
                          = checkIfValueIsAllocatedBlockAddr(m, v)
<1>1. IsRow(n, R) /\ \A s \in R : NextChunk(n, s) = NextChunk(m, s)
  BY SameRow
<1>2. /\ Visited(n) = R /\ Visited(m) = R
      /\ Blocks(n) = {s \in R : n[s].alloc} /\ Blocks(m) = {s \in R : m[s].alloc}
  BY <1>1, RowOf
<1>3. Blocks(n) = Blocks(m)
  BY <1>2
<1>4. ASSUME NEW v PROVE Owner(n, v) = Owner(m, v)
  BY <1>1, <1>2, <1>3 DEF Owner
<1>5. ASSUME NEW v
      PROVE  checkIfValueIsAllocatedBlockAddr(n, v) = checkIfValueIsAllocatedBlockAddr(m, v)
  <2>1. {s \in R : n[s].alloc /\ s <= v /\ v <= NextChunk(n, s)}
          = {s \in R : m[s].alloc /\ s <= v /\ v <= NextChunk(m, s)}
    BY <1>1
  <2> QED
    BY <1>2, <2>1 DEF checkIfValueIsAllocatedBlockAddr
<1> QED
  BY <1>1, <1>3, <1>4, <1>5

-----------------------------------------------------------------------------
(* Reachability *)

\* The sets of blocks that hold start and what their members point to.
ClosedSets(m, start) ==
    {B \in SUBSET Blocks(m) :
        /\ start \subseteq B
        /\ \A s \in B : \A a \in Data(m, s) : Pointees(m, m[a]) \subseteq B}

\* There is a smallest one.
LEMMA ClosureIsLeast ==
    ASSUME NEW m, NEW start \in SUBSET Blocks(m)
    PROVE  /\ Closure(m, start) \in ClosedSets(m, start)
           /\ \A C \in ClosedSets(m, start) : Closure(m, start) \subseteq C
<1> DEFINE closed == ClosedSets(m, start)
           least == {s \in Blocks(m) : \A C \in closed : s \in C}
<1>1. \A w : Pointees(m, w) \subseteq Blocks(m)
  BY DEF Pointees, Owner
<1>2. ASSUME NEW s \in least, NEW a \in Data(m, s), NEW t \in Pointees(m, m[a])
      PROVE  t \in least
  <2>1. ASSUME NEW C \in closed PROVE t \in C
    BY <1>2 DEF ClosedSets
  <2> QED
    BY <2>1, <1>1
<1>3. start \subseteq least
  BY DEF ClosedSets
<1>4. least \in closed
  BY <1>2, <1>3 DEF ClosedSets
<1>5. \A C \in closed : least \subseteq C
  OBVIOUS
<1>6. Closure(m, start) = CHOOSE B \in closed : \A C \in closed : B \subseteq C
  BY DEF Closure, ClosedSets
<1> QED
  BY <1>4, <1>5, <1>6

-----------------------------------------------------------------------------
(* Marks *)

\* Marking changes nothing but mark bits.
LEMMA MarkedHeap ==
    ASSUME NEW m \in Memory, NEW S
    PROVE  /\ Marked(m, S) \in Memory
           /\ \A a \in Addr : /\ Marked(m, S)[a].alloc = m[a].alloc
                              /\ Marked(m, S)[a].val = m[a].val
                              /\ Marked(m, S)[a].mark = (m[a].mark \/ a \in S)
                              /\ a \notin S => Marked(m, S)[a] = m[a]
<1>1. DOMAIN m = Addr /\ \A a \in Addr : m[a] \in Word
  BY DEF Memory
<1>2. ASSUME NEW a \in Addr
      PROVE  /\ Marked(m, S)[a] \in Word
             /\ Marked(m, S)[a].alloc = m[a].alloc
             /\ Marked(m, S)[a].val = m[a].val
             /\ Marked(m, S)[a].mark = (m[a].mark \/ a \in S)
             /\ a \notin S => Marked(m, S)[a] = m[a]
  <2>1. m[a] \in Word
    BY <1>1
  <2>2. CASE a \in S
    BY <1>1, <2>1, <2>2 DEF Marked, Word
  <2>3. CASE a \notin S
    <3>1. Marked(m, S)[a] = m[a]
      BY <1>1, <2>3 DEF Marked
    <3>2. m[a].mark \in BOOLEAN
      BY <2>1 DEF Word
    <3> QED
      BY <2>1, <2>3, <3>1, <3>2
  <2> QED
    BY <2>2, <2>3
<1>3. Marked(m, S) \in Memory
  BY <1>1, <1>2 DEF Memory, Marked
<1> QED
  BY <1>2, <1>3

-----------------------------------------------------------------------------
(* The invariants *)

Collecting == phase \notin {"user", "fault"}

\* The headers tile the heap as soon as there is one.
HeapSound ==
    /\ heapBasePtr = NULL => \A a \in Addr : ~mem[a].alloc
    /\ heapBasePtr = Base => initializedSpace = Space /\ IsRow(mem, Row(mem))
    /\ Collecting => heapBasePtr = Base

\* The loops stand on headers, or behind the last chunk.
PositionSound ==
    /\ phase \in {"heap", "sweep", "finalizing", "consolidate"} => at \in Row(mem) \cup {End}
    /\ phase = "finalizing" =>
           /\ inFinalizeCall = 1
           /\ at \in Row(mem) /\ mem[at].alloc /\ ~mem[at].mark
    /\ phase # "heap" => frames = <<>>
    /\ phase = "heap" => \A k \in DOMAIN frames : frames[k].chunk \in Row(mem)

RequestSound ==
    Collecting => /\ request.size \in Sizes
                  /\ request.fin \in Finalizers
                  /\ request.dest \in Holders \cup {Discard}

Sound == TypeOK /\ HeapSound /\ PositionSound /\ RequestSound

\* The blocks in S are in the heap m what they were in the heap old.
Kept(m, old, S) ==
    \A s \in S :
        /\ s \in Row(m) /\ m[s].alloc /\ m[s].val = old[s].val
        /\ \A a \in s + 1 .. NextChunk(old, s) - 1 : m[a] = old[a]

\* What was reachable when the collection began is as it was then.
LiveKept ==
    /\ ~Collecting => live = {}
    /\ Collecting =>
           /\ before \in Memory /\ IsRow(before, Row(before))
           /\ live \subseteq Blocks(before)
           /\ Kept(mem, before, live)

\* The heap m differs from the heap old in marks of headers only.
OnlyMarks(m, old) ==
    /\ Row(m) = Row(old)
    /\ \A s \in Row(m) : m[s].alloc = old[s].alloc /\ m[s].val = old[s].val
    /\ \A a \in Addr \ Row(m) : m[a] = old[a]

\* The word at a points to no unmarked block.
Followed(m, a) == BlockOf(m, m[a]) = NULL \/ m[BlockOf(m, m[a])].mark

\* A call of recurseAndMarkHeap will still come to the word at a of the chunk s.
Pending(fs, s, a) == \E k \in DOMAIN fs : fs[k].chunk = s /\ fs[k].word <= a

\* What is marked has been scanned, by calls or by the loop, or will be.
Scanned(m, fs, position) ==
    \A s \in Blocks(m) : m[s].mark =>
        \/ s >= position
        \/ \A a \in s .. NextChunk(m, s) - 1 : Pending(fs, s, a) \/ Followed(m, a)

\* The blocks the words of the program point to are marked.
RootsMarked(m, p) == \A r \in Places : \A s \in Owner(m, p[r]) : m[s].mark

MarkingSound ==
    phase \in {"roots", "registers", "heap"} =>
        /\ live = Reachable(before, place)
        /\ OnlyMarks(mem, before)
        /\ phase # "roots" => RootsMarked(mem, place)
        /\ phase = "heap" => Scanned(mem, frames, at)

\* The sweep has what was reachable behind it, or finds it marked.
SweepSound ==
    phase \in {"sweep", "finalizing"} => \A s \in live : s >= at => mem[s].mark

OnlyHolders == \A r \in Places \ Holders : place[r] = NULL

LiveSound == OnlyHolders /\ LiveKept /\ MarkingSound /\ SweepSound

\* The finalizers of blocks are those given to memAllocate.
FinalizersKnown ==
    heapBasePtr = Base => \A s \in Blocks(mem) : mem[s + 1].val \in Finalizers

\* The program has pointers to blocks only, in a collection to those that were
\* reachable when it began.
PointersSound ==
    /\ FinalizersKnown
    /\ ~Collecting => NoDangling
    /\ Collecting => RequestSound /\ \A r \in Holders : place[r] # NULL =>
                         \E s \in live : s + 2 <= place[r] /\ place[r] <= NextChunk(before, s)

-----------------------------------------------------------------------------
(* The shape of the heap *)

LEMMA Bases == Base # NULL /\ Base \in Addr /\ NULL \notin Addr /\ NULL # End
BY AllocAssumption DEF NULL, Addr, End

LEMMA InitSound == Init => Sound
<1> SUFFICES ASSUME Init PROVE Sound
  OBVIOUS
<1>1. mem \in [Addr -> Word] /\ \A a \in Addr : ~mem[a].alloc
  BY DEF Init, Plain, Word
<1>2. TypeOK
  BY <1>1 DEF Init, TypeOK, Phases, NULL
<1>3. ~Collecting /\ heapBasePtr = NULL /\ phase = "user" /\ frames = <<>>
  BY DEF Init, Collecting
<1>4. HeapSound
  BY <1>1, <1>3, Bases DEF HeapSound
<1>5. PositionSound /\ RequestSound
  BY <1>3 DEF PositionSound, RequestSound
<1> QED
  BY <1>2, <1>4, <1>5 DEF Sound

\* Pointers belong to blocks of the row, and lie in the heap.
LEMMA Owned ==
    ASSUME Sound, NEW v \in Nat, NEW s \in Owner(mem, v)
    PROVE  /\ heapBasePtr = Base /\ mem \in Memory /\ IsRow(mem, Row(mem))
           /\ s \in Row(mem) /\ mem[s].alloc /\ s + 2 <= v /\ v <= NextChunk(mem, s)
           /\ v \in Base .. End
<1>1. mem \in Memory /\ heapBasePtr \in {NULL, Base}
  BY DEF Sound, TypeOK, Memory
<1>2. s \in Visited(mem) /\ mem[s].alloc
  BY DEF Owner, Blocks
<1>3. Visited(mem) \subseteq Addr
  <2>1. Base + Space - 1 \in Int /\ Base + Space - 1 < End
    BY AllocAssumption DEF End
  <2> QED
    BY <1>1, <2>1, ChunksInHeap DEF Visited
<1>4. heapBasePtr = Base
  BY <1>1, <1>2, <1>3 DEF Sound, HeapSound
<1>5. IsRow(mem, Row(mem))
  BY <1>4 DEF Sound, HeapSound
<1>6. s \in Row(mem) /\ s + 2 <= v /\ v <= NextChunk(mem, s)
  BY <1>1, <1>5, OwnerFound
<1>7. Base <= s /\ s \in Int /\ NextChunk(mem, s) <= End /\ NextChunk(mem, s) \in Int
  BY <1>1, <1>5, <1>6, RowBounds
<1>8. v \in Base .. End
  BY <1>6, <1>7, AllocAssumption DEF End
<1> QED
  BY <1>1, <1>2, <1>4, <1>5, <1>6, <1>8

\* Whatever the program copies is NULL or an address of the heap.
LEMMA ValuesTyped ==
    ASSUME Sound, NEW v \in Values
    PROVE  v \in {NULL} \cup Base .. End /\ v \in Nat
<1>1. ASSUME NEW x \in {NULL} \cup Base .. End PROVE x \in Nat
  BY AllocAssumption DEF NULL
<1>2. \A r \in Holders : r \in Places
  BY AllocAssumption DEF Places
<1>3. \A r \in Holders : place[r] \in {NULL} \cup Base .. End
  BY <1>2 DEF Sound, TypeOK
<1>4. CASE v \in {NULL} \cup {place[r] : r \in Holders}
  BY <1>1, <1>3, <1>4
<1>5. CASE v \in {mem[a].val : a \in {b \in Accessible : Pointees(mem, mem[b]) # {}}}
  <2>1. PICK b \in Accessible : Pointees(mem, mem[b]) # {} /\ v = mem[b].val
    BY <1>5
  <2>2. PICK s : s \in Owner(mem, v)
    BY <2>1 DEF Pointees
  <2>3. PICK r \in Holders : \E t \in Owner(mem, place[r]) : b \in Data(mem, t)
    BY <2>1 DEF Accessible
  <2>9. PICK t \in Owner(mem, place[r]) : b \in Data(mem, t)
    BY <2>3
  <2>4. /\ t \in Row(mem) /\ mem \in Memory /\ IsRow(mem, Row(mem))
    BY <1>1, <1>3, <2>3, Owned
  <2>5. b \in Addr
    <3>1. b \in t + 2 .. NextChunk(mem, t) - 1
      BY <2>9 DEF Data
    <3>2. t \in Int /\ Base <= t /\ NextChunk(mem, t) \in Int /\ NextChunk(mem, t) <= End
      BY <2>4, RowBounds
    <3> QED
      BY <3>1, <3>2, AllocAssumption DEF Addr, End
  <2>6. v \in Nat
    BY <2>1, <2>4, <2>5 DEF Memory, Word
  <2> QED
    BY <2>2, <2>6, Owned
<1>6. CASE v \in {x \in {place[r] + 1 : r \in Holders} :
                    Interior /\ Owner(mem, x - 1) \cap Owner(mem, x) # {}}
  <2>1. PICK r \in Holders : v = place[r] + 1 /\ Owner(mem, v) # {}
    BY <1>6
  <2>2. v \in Nat
    BY <1>1, <1>3, <2>1
  <2> QED
    BY <2>1, <2>2, Owned
<1> QED
  BY <1>4, <1>5, <1>6 DEF Values

\* Words of the data of a block hold no header.
LEMMA DataWords ==
    ASSUME NEW m \in Memory, NEW R, IsRow(m, R), NEW s \in R, NEW a \in s + 1 .. NextChunk(m, s) - 1
    PROVE  a \in Addr \ R
<1>1. s \in Int /\ Base <= s /\ NextChunk(m, s) \in Int /\ NextChunk(m, s) <= End
  BY RowBounds
<1>2. a \in Int /\ s < a /\ a < NextChunk(m, s)
  BY <1>1
<1>3. a \in Addr
  BY <1>1, <1>2, AllocAssumption DEF Addr, End
<1>4. ASSUME a \in R PROVE FALSE
  <2>1. NextChunk(m, s) <= a
    BY <1>2, <1>4 DEF IsRow
  <2> QED
    BY <2>1, <1>1, <1>2
<1> QED
  BY <1>3, <1>4

\* The words the program may write are data of blocks.
LEMMA AccessibleWords ==
    ASSUME Sound, NEW a \in Accessible
    PROVE  /\ heapBasePtr = Base /\ mem \in Memory /\ IsRow(mem, Row(mem))
           /\ a \in Addr \ Row(mem)
           /\ \E s \in Row(mem) : mem[s].alloc /\ a \in Data(mem, s)
<1>0. PICK r \in Holders : \E s \in Owner(mem, place[r]) : a \in Data(mem, s)
  BY DEF Accessible
<1>1. PICK s \in Owner(mem, place[r]) : a \in Data(mem, s)
  BY <1>0
<1>2. place[r] \in Nat
  <2>1. r \in Places
    BY AllocAssumption DEF Places
  <2> QED
    BY <2>1, AllocAssumption DEF Sound, TypeOK, NULL
<1>3. /\ heapBasePtr = Base /\ mem \in Memory /\ IsRow(mem, Row(mem))
      /\ s \in Row(mem) /\ mem[s].alloc
  BY <1>1, <1>2, Owned
<1>4. a \in s + 1 .. NextChunk(mem, s) - 1
  <2>1. s \in Int /\ NextChunk(mem, s) \in Int
    BY <1>3, RowBounds
  <2> QED
    BY <2>1, <1>1 DEF Data
<1>5. a \in Addr \ Row(mem)
  BY <1>3, <1>4, DataWords
<1> QED
  BY <1>1, <1>3, <1>5

\* A step that changes no size in a header, and allocates nothing, keeps the row.
LEMMA SameHeaders ==
    ASSUME Sound, heapBasePtr = Base, UNCHANGED heapVars, mem' \in Memory,
           \A s \in Row(mem) : mem'[s].val = mem[s].val /\ (mem'[s].alloc => mem[s].alloc)
    PROVE  /\ HeapSound' /\ Row(mem') = Row(mem) /\ IsRow(mem', Row(mem))
           /\ \A s \in Row(mem) : NextChunk(mem', s) = NextChunk(mem, s)
<1>1. mem \in Memory /\ IsRow(mem, Row(mem)) /\ initializedSpace = Space
  BY DEF Sound, TypeOK, HeapSound, Memory
<1>2. IsRow(mem', Row(mem)) /\ \A s \in Row(mem) : NextChunk(mem', s) = NextChunk(mem, s)
  BY <1>1, SameRow
<1>3. Row(mem') = Row(mem)
  BY <1>2, RowOf
<1>4. HeapSound'
  BY <1>1, <1>2, <1>3, Bases DEF HeapSound, heapVars
<1> QED
  BY <1>2, <1>3, <1>4

\* What a loop that stands on a header of the row goes on to.
LEMMA NextPosition ==
    ASSUME Sound, heapBasePtr = Base, at \in Row(mem) \cup {End}, InHeap
    PROVE  /\ at \in Row(mem)
           /\ NextChunk(mem, at) \in Row(mem) \cup {End}
           /\ NextChunk(mem, at) \in Base .. End
           /\ mem[at] \in Word /\ at \in Addr
<1>1. mem \in Memory /\ IsRow(mem, Row(mem))
  BY DEF Sound, TypeOK, HeapSound, Memory
<1>2. at \in Row(mem)
  BY AllocAssumption DEF InHeap, End
<1> QED
  BY <1>1, <1>2, RowBounds, AllocAssumption DEF End

LEMMA Basics ==
    ASSUME Sound
    PROVE  /\ mem \in Memory /\ heapBasePtr \in {NULL, Base} /\ initializedSpace \in {0, Space}
           /\ heapBasePtr = Base => initializedSpace = Space /\ IsRow(mem, Row(mem))
           /\ Collecting => heapBasePtr = Base
           /\ place \in [Places -> {NULL} \cup Base .. End]
           /\ Holders \subseteq Places
           /\ phase \in Phases /\ live \subseteq Addr /\ at \in {NULL} \cup Base .. End
           /\ inFinalizeCall \in 0 .. 1
           /\ frames \in Seq(Frame)
           /\ phase # "heap" => frames = <<>>
BY AllocAssumption DEF Sound, TypeOK, HeapSound, PositionSound, Memory, Places

LEMMA ReturnsTyped ==
    ASSUME Sound, NEW d \in Holders \cup {Discard}, NEW v \in {NULL} \cup Base .. End, Returns(d, v)
    PROVE  place' \in [Places -> {NULL} \cup Base .. End]
BY Basics DEF Returns

-----------------------------------------------------------------------------
(* The program, and memAllocate without a collection *)

\* Steps that move pointers about, and touch neither heap nor collector.
LEMMA QuietSound ==
    ASSUME Sound, UNCHANGED <<heapVars, inFinalizeCall, mem, phase, at, calls, live>>,
           place' \in [Places -> {NULL} \cup Base .. End]
    PROVE  Sound'
<1>1. TypeOK'
  BY DEF Sound, TypeOK, heapVars, calls
<1>2. HeapSound'
  BY DEF Sound, HeapSound, Collecting, heapVars
<1>3. PositionSound'
  BY DEF Sound, PositionSound, calls
<1>4. RequestSound'
  BY DEF Sound, RequestSound, Collecting, calls
<1> QED
  BY <1>1, <1>2, <1>3, <1>4 DEF Sound

LEMMA InitializeSound == Sound /\ memInitialize => Sound'
<1> SUFFICES ASSUME Sound, memInitialize PROVE Sound'
  OBVIOUS
<1>1. /\ mem \in Memory /\ heapBasePtr = NULL /\ phase = "user" /\ Space # 0
  BY Basics, AllocAssumption DEF memInitialize
<1>2. /\ phase' = "user" /\ initializedSpace' = Space /\ frames' = frames
      /\ UNCHANGED <<inFinalizeCall, place, at, live>>
  BY <1>1 DEF memInitialize, calls, history
<1>3. ~Collecting' /\ PositionSound' /\ RequestSound'
  BY <1>1, <1>2 DEF Collecting, PositionSound, RequestSound, Sound
<1>4. Plain(Space) \in Word
  BY AllocAssumption DEF Plain, Word
<1>5. CASE heapBasePtr' = Base /\ mem' = [mem EXCEPT ![Base] = Plain(Space)]
  <2>1. mem' \in Memory /\ mem'[Base] = Plain(Space)
    BY <1>1, <1>4, <1>5, Bases DEF Memory
  <2>2. IsRow(mem', {Base})
    BY <2>1, InitialRow
  <2>3. IsRow(mem', Row(mem'))
    BY <2>1, <2>2, RowOf
  <2>4. HeapSound'
    BY <2>3, <1>2, <1>3, <1>5, Bases DEF HeapSound
  <2>5. TypeOK'
    BY <2>1, <1>2, <1>5 DEF TypeOK, Sound, Memory, Phases
  <2> QED
    BY <2>4, <2>5, <1>3 DEF Sound
<1>6. CASE UNCHANGED <<heapBasePtr, mem>>
  <2>1. HeapSound'
    BY <1>1, <1>2, <1>3, <1>6, Bases DEF HeapSound, Sound
  <2>2. TypeOK'
    BY <1>1, <1>2, <1>6 DEF TypeOK, Sound, Phases
  <2> QED
    BY <2>1, <2>2, <1>3 DEF Sound
<1> QED
  BY <1>5, <1>6 DEF memInitialize

LEMMA AtNullSound == Sound /\ AllocateAtNull => Sound'
<1> SUFFICES ASSUME Sound, AllocateAtNull PROVE Sound'
  OBVIOUS
<1>1. /\ phase = "user" /\ phase' = "fault" /\ heapBasePtr = NULL /\ frames = <<>>
      /\ UNCHANGED <<heapVars, inFinalizeCall, mem, place, at, calls, live>>
  BY Basics DEF AllocateAtNull, history
<1>2. TypeOK'
  BY <1>1 DEF Sound, TypeOK, heapVars, calls, Phases
<1>3. HeapSound'
  BY <1>1 DEF Sound, HeapSound, Collecting, heapVars
<1>4. PositionSound' /\ RequestSound'
  BY <1>1 DEF PositionSound, RequestSound, Collecting, calls
<1> QED
  BY <1>2, <1>3, <1>4 DEF Sound

\* What an allocation leaves behind, in memAllocate and after a collection.
LEMMA AllocatedSound ==
    ASSUME Sound, heapBasePtr = Base, NEW k \in Sizes, NEW f \in Finalizers,
           findSpace(mem, k) # NULL, mem' = Allocated(mem, findSpace(mem, k), k, f),
           UNCHANGED heapVars, ~Collecting'
    PROVE  /\ HeapSound' /\ mem' \in Memory
           /\ Row(mem') = Row(mem) \cup {findSpace(mem, k) + k + 2}
           /\ findSpace(mem, k) + 2 \in Base .. End
<1> DEFINE s == findSpace(mem, k)
<1>1. mem \in Memory /\ IsRow(mem, Row(mem)) /\ initializedSpace = Space
  BY Basics
<1>2. k \in Nat /\ f \in Nat
  BY AllocAssumption, FinalizerAssumption DEF NULL, prints, saves, allocates
<1>3. s \in Row(mem) /\ ~mem[s].alloc /\ mem[s].val > k + 2
  BY <1>1, <1>2, SpaceFound
<1>4. mem' \in Memory /\ IsRow(mem', Row(mem) \cup {s + k + 2})
  <2>1. IsRow(mem', Row(mem) \cup {s + k + 2})
    BY <1>1, <1>2, <1>3, AllocatedHeap
  <2> QED
    BY <2>1, <1>1, <1>2, <1>3, AllocatedHeap
<1>5. Row(mem') = Row(mem) \cup {s + k + 2}
  BY <1>4, RowOf
<1>6. HeapSound'
  BY <1>1, <1>4, <1>5, Bases DEF HeapSound, heapVars
<1>7. s + 2 \in Base .. End
  BY <1>1, <1>3, RowBounds, AllocAssumption DEF End
<1> QED
  BY <1>4, <1>5, <1>6, <1>7

LEMMA FitsSound ==
    ASSUME Sound, NEW k \in Sizes, NEW f \in Finalizers, NEW d \in Holders \cup {Discard},
           AllocateFits(k, f, d)
    PROVE  Sound'
<1> DEFINE s == findSpace(mem, k)
<1>1. /\ phase = "user" /\ heapBasePtr = Base /\ s # NULL
      /\ mem' = Allocated(mem, s, k, f) /\ Returns(d, s + 2)
      /\ UNCHANGED <<heapVars, inFinalizeCall, phase, at, calls, live>>
  BY Basics DEF AllocateFits, history
<1>2. ~Collecting' /\ frames = <<>>
  BY <1>1, Basics DEF Collecting
<1>3. HeapSound' /\ mem' \in Memory /\ s + 2 \in Base .. End
  BY <1>1, <1>2, AllocatedSound
<1>4. place' \in [Places -> {NULL} \cup Base .. End]
  BY <1>1, <1>3, ReturnsTyped
<1>5. TypeOK'
  BY <1>1, <1>3, <1>4 DEF Sound, TypeOK, heapVars, calls, Memory
<1>6. PositionSound' /\ RequestSound'
  BY <1>1, <1>2 DEF PositionSound, RequestSound, Collecting, calls
<1> QED
  BY <1>3, <1>5, <1>6 DEF Sound

\* What the program can reach are blocks.
LEMMA ReachableBlocks ==
    ASSUME NEW m, NEW p
    PROVE  LET S == UNION {Owner(m, p[r]) : r \in Places}
           IN  /\ S \in SUBSET Blocks(m)
               /\ Reachable(m, p) \in ClosedSets(m, S)
               /\ \A C \in ClosedSets(m, S) : Reachable(m, p) \subseteq C
               /\ Reachable(m, p) \subseteq Blocks(m)
<1> DEFINE S == UNION {Owner(m, p[r]) : r \in Places}
<1>1. S \in SUBSET Blocks(m)
  BY DEF Owner
<1>2. /\ Closure(m, S) \in ClosedSets(m, S)
      /\ \A C \in ClosedSets(m, S) : Closure(m, S) \subseteq C
  BY <1>1, ClosureIsLeast
<1>3. Reachable(m, p) = Closure(m, S)
  BY DEF Reachable
<1>4. Closure(m, S) \subseteq Blocks(m)
  BY <1>2 DEF ClosedSets
<1> QED
  BY <1>1, <1>2, <1>3, <1>4

LEMMA CollectsSound ==
    ASSUME Sound, NEW k \in Sizes, NEW f \in Finalizers, NEW d \in Holders \cup {Discard},
           AllocateCollects(k, f, d)
    PROVE  Sound'
<1>1. /\ phase = "user" /\ heapBasePtr = Base /\ phase' = "roots"
      /\ request' = [size |-> k, fin |-> f, dest |-> d]
      /\ live' = Reachable(mem, place) /\ frames = <<>>
      /\ UNCHANGED <<heapVars, inFinalizeCall, mem, place, at, frames>>
  BY Basics DEF AllocateCollects
<1>2. mem \in Memory /\ IsRow(mem, Row(mem))
  BY <1>1, Basics
<1>3. live' \subseteq Addr
  <2>1. live' \subseteq Blocks(mem)
    BY <1>1, ReachableBlocks
  <2>2. Blocks(mem) \subseteq Row(mem)
    BY <1>2, RowOf
  <2> QED
    BY <2>1, <2>2, <1>2 DEF IsRow
<1>4. TypeOK'
  BY <1>1, <1>3 DEF Sound, TypeOK, heapVars, Phases
<1>5. HeapSound'
  BY <1>1 DEF Sound, HeapSound, heapVars
<1>6. PositionSound'
  BY <1>1 DEF PositionSound
<1>7. RequestSound'
  BY <1>1 DEF RequestSound
<1> QED
  BY <1>4, <1>5, <1>6, <1>7 DEF Sound

LEMMA StoreSound ==
    ASSUME Sound, NEW a \in Addr, NEW v \in Values, Store(a, v)
    PROVE  Sound' /\ Row(mem') = Row(mem) /\ heapBasePtr = Base
<1>1. /\ phase = "user" /\ a \in Accessible /\ mem' = [mem EXCEPT ![a] = Plain(v)]
      /\ UNCHANGED <<heapVars, inFinalizeCall, place, phase, at, calls, live>>
  BY DEF Store, history
<1>2. heapBasePtr = Base /\ mem \in Memory /\ IsRow(mem, Row(mem)) /\ a \in Addr \ Row(mem)
  BY <1>1, AccessibleWords
<1>3. v \in Nat
  BY ValuesTyped
<1>4. mem' \in Memory /\ \A s \in Row(mem) : mem'[s] = mem[s]
  <2>1. Plain(v) \in Word
    BY <1>3 DEF Plain, Word
  <2>2. Row(mem) \subseteq Addr
    BY <1>2 DEF IsRow
  <2> QED
    BY <2>1, <2>2, <1>1, <1>2 DEF Memory
<1>5. HeapSound' /\ Row(mem') = Row(mem)
  BY <1>1, <1>2, <1>4, SameHeaders
<1>6. TypeOK'
  BY <1>1, <1>4 DEF Sound, TypeOK, heapVars, calls, Memory
<1>7. PositionSound' /\ RequestSound'
  BY <1>1, Basics DEF PositionSound, RequestSound, Collecting, calls
<1> QED
  BY <1>2, <1>5, <1>6, <1>7 DEF Sound

-----------------------------------------------------------------------------
(* The collector *)

\* A step of the collector that leaves the headers' sizes, and allocates
\* nothing, is sound if the loops are.
LEMMA StepSound ==
    ASSUME Sound, Collecting, UNCHANGED heapVars, mem' \in Memory,
           \A s \in Row(mem) : mem'[s].val = mem[s].val /\ (mem'[s].alloc => mem[s].alloc),
           phase' \in Phases \ {"user", "fault"}, UNCHANGED <<request, live>>,
           inFinalizeCall' \in 0 .. 1, place' \in [Places -> {NULL} \cup Base .. End],
           at' \in {NULL} \cup Base .. End, frames' \in Seq(Frame),
           PositionSound'
    PROVE  Sound'
<1>1. heapBasePtr = Base
  BY Basics
<1>2. HeapSound'
  BY <1>1, SameHeaders
<1>3. TypeOK'
  BY DEF Sound, TypeOK, heapVars, Memory
<1>4. RequestSound'
  BY DEF Sound, RequestSound, Collecting
<1> QED
  BY <1>2, <1>3, <1>4 DEF Sound

\* A step of the collector that sets marks only.
LEMMA MarksKeepRow ==
    ASSUME Sound, Collecting, NEW S, mem' = Marked(mem, S), UNCHANGED heapVars
    PROVE  /\ mem' \in Memory /\ Row(mem') = Row(mem)
           /\ \A s \in Row(mem) : /\ mem'[s].val = mem[s].val /\ mem'[s].alloc = mem[s].alloc
                                 /\ mem'[s].mark = (mem[s].mark \/ s \in S)
                                 /\ NextChunk(mem', s) = NextChunk(mem, s)
           /\ \A a \in Addr : a \notin S => mem'[a] = mem[a]
<1>1. mem \in Memory /\ IsRow(mem, Row(mem)) /\ heapBasePtr = Base
  BY Basics
<1>2. Row(mem) \subseteq Addr
  BY <1>1 DEF IsRow
<1>3. /\ mem' \in Memory
      /\ \A a \in Addr : /\ mem'[a].alloc = mem[a].alloc
                         /\ mem'[a].val = mem[a].val
                         /\ mem'[a].mark = (mem[a].mark \/ a \in S)
                         /\ a \notin S => mem'[a] = mem[a]
  BY <1>1, MarkedHeap
<1>4. \A s \in Row(mem) : /\ mem'[s].val = mem[s].val /\ mem'[s].alloc = mem[s].alloc
                          /\ mem'[s].mark = (mem[s].mark \/ s \in S)
  BY <1>2, <1>3
<1>5. Row(mem') = Row(mem) /\ \A s \in Row(mem) : NextChunk(mem', s) = NextChunk(mem, s)
  BY <1>1, <1>3, <1>4, SameHeaders
<1> QED
  BY <1>3, <1>4, <1>5

LEMMA RootsSound == Sound /\ MarkRoots => Sound'
<1> SUFFICES ASSUME Sound, MarkRoots PROVE Sound'
  OBVIOUS
<1>1. /\ phase = "roots" /\ phase' = "registers" /\ Collecting
      /\ UNCHANGED <<heapVars, inFinalizeCall, place, at, frames, request, live>>
      /\ \E S : mem' = Marked(mem, S)
  BY DEF MarkRoots, Collect, Collecting, calls, history
<1>2. /\ mem' \in Memory /\ \A s \in Row(mem) : mem'[s].val = mem[s].val /\ mem'[s].alloc = mem[s].alloc
  BY <1>1, MarksKeepRow
<1>3. PositionSound'
  BY <1>1, Basics DEF PositionSound
<1> QED
  BY <1>1, <1>2, <1>3, Basics, StepSound DEF Phases

LEMMA RegistersSound == Sound /\ checkAndMarkRegisters => Sound'
<1> SUFFICES ASSUME Sound, checkAndMarkRegisters PROVE Sound'
  OBVIOUS
<1>1. /\ phase = "registers" /\ phase' = "heap" /\ Collecting
      /\ UNCHANGED <<heapVars, inFinalizeCall, place, frames, request, live>>
      /\ at' = heapBasePtr
      /\ \E S : mem' = Marked(mem, S)
  BY DEF checkAndMarkRegisters, Collect, Collecting, calls, history
<1>2. /\ mem' \in Memory /\ Row(mem') = Row(mem)
      /\ \A s \in Row(mem) : mem'[s].val = mem[s].val /\ mem'[s].alloc = mem[s].alloc
  BY <1>1, MarksKeepRow
<1>3. at' = Base /\ Base \in Row(mem') /\ frames' = <<>>
  BY <1>1, <1>2, Basics DEF IsRow
<1>4. PositionSound'
  BY <1>1, <1>3 DEF PositionSound
<1>5. at' \in {NULL} \cup Base .. End
  BY <1>3, AllocAssumption DEF End
<1> QED
  BY <1>1, <1>2, <1>4, <1>5, Basics, StepSound DEF Phases

LEMMA TraverseSound == Sound /\ traverseAndMarkHeap => Sound'
<1> SUFFICES ASSUME Sound, traverseAndMarkHeap PROVE Sound'
  OBVIOUS
<1>1. /\ phase = "heap" /\ phase' = "heap" /\ Collecting /\ InHeap
      /\ frames' = IF mem[at].alloc /\ mem[at].mark THEN <<Call(at)>> ELSE <<>>
      /\ at' = NextChunk(mem, at) /\ mem' = mem
      /\ UNCHANGED <<heapVars, inFinalizeCall, place, request, live>>
  BY DEF traverseAndMarkHeap, Collect, Collecting, history
<1>2. at \in Row(mem) \cup {End} /\ heapBasePtr = Base
  BY <1>1, Basics DEF Sound, PositionSound
<1>3. /\ at \in Row(mem) /\ at \in Addr
      /\ NextChunk(mem, at) \in Row(mem) \cup {End} /\ NextChunk(mem, at) \in Base .. End
  BY <1>1, <1>2, NextPosition
<1>4. Call(at) \in Frame /\ Call(at).chunk = at
  BY <1>3, AllocAssumption DEF Call, Addr, End, Frame
<1>5. frames' \in Seq(Frame)
  BY <1>1, <1>4
<1>6. \A k \in DOMAIN frames' : frames'[k].chunk \in Row(mem)
  BY <1>1, <1>3, <1>4
<1>7. PositionSound'
  BY <1>1, <1>3, <1>6 DEF PositionSound
<1>8. mem' \in Memory /\ \A s \in Row(mem) : mem'[s].val = mem[s].val /\ mem'[s].alloc = mem[s].alloc
  BY <1>1, Basics
<1> QED
  BY <1>1, <1>3, <1>5, <1>7, <1>8, Basics, StepSound DEF Phases

\* The innermost call stands in its chunk; what it finds there is a block, and
\* it goes on behind the word it found.
LEMMA AheadFound ==
    ASSUME Sound, phase = "heap", frames # <<>>, Ahead # {}
    PROVE  LET w == Min(Ahead)
               b == BlockOf(mem, mem[w])
           IN  /\ w \in Ahead /\ \A u \in Ahead : w <= u
               /\ Innermost.word <= w /\ w < NextChunk(mem, Innermost.chunk)
               /\ w \in Addr /\ w \in Int /\ w + 1 \in Base .. End
               /\ b \in Row(mem) /\ mem[b].alloc /\ ~mem[b].mark
               /\ Innermost \in Frame
               /\ Innermost.chunk \in Row(mem)
<1> DEFINE w == Min(Ahead)
           b == BlockOf(mem, mem[w])
           c == Innermost.chunk
<1>1. mem \in Memory /\ IsRow(mem, Row(mem)) /\ heapBasePtr = Base
  BY Basics DEF Collecting
<1>2. /\ Innermost \in Frame
      /\ c \in Row(mem)
  <2>1. Len(frames) \in DOMAIN frames
    BY Basics
  <2>2. frames[Len(frames)] \in Frame
    BY <2>1, Basics
  <2>3. frames[Len(frames)].chunk \in Row(mem)
    BY <2>1 DEF Sound, PositionSound
  <2> QED
    BY <2>2, <2>3 DEF Innermost
<1>3. c \in Int /\ NextChunk(mem, c) \in Int /\ NextChunk(mem, c) <= End
  BY <1>1, <1>2, RowBounds
<1>4. Innermost.word \in Base .. End
  BY <1>2 DEF Frame
<1>5. \A u \in Ahead : u \in Innermost.word .. NextChunk(mem, c) - 1 /\ BlockOf(mem, mem[u]) # NULL /\ ~mem[BlockOf(mem, mem[u])].mark
  BY DEF Ahead, Unfollowed
<1>6. ASSUME NEW u \in Ahead PROVE u \in Nat
  BY <1>3, <1>4, <1>5, AllocAssumption
<1>7. w \in Ahead /\ \A u \in Ahead : w <= u
  BY <1>6, MinOf
<1>8. /\ Innermost.word <= w /\ w < NextChunk(mem, c) /\ w \in Int
      /\ w \in Addr /\ w + 1 \in Base .. End
  BY <1>3, <1>4, <1>5, <1>7, AllocAssumption DEF Addr, End
<1>9. b # NULL /\ ~mem[b].mark
  BY <1>5, <1>7
<1>10. b = checkIfValueIsAllocatedBlockAddr(mem, mem[w].val)
  BY <1>9 DEF BlockOf
<1>11. mem[w].val \in Nat
  BY <1>1, <1>8 DEF Memory, Word
<1>12. b \in Row(mem) /\ mem[b].alloc
  BY <1>1, <1>9, <1>10, <1>11, BlockFound
<1> QED
  BY <1>2, <1>7, <1>8, <1>9, <1>12

LEMMA RecurseSound == Sound /\ recurseAndMarkHeap => Sound'
<1> SUFFICES ASSUME Sound, recurseAndMarkHeap PROVE Sound'
  OBVIOUS
<1> DEFINE w == Min(Ahead)
           b == BlockOf(mem, mem[w])
           moved == [frames EXCEPT ![Len(frames)].word = w + 1]
<1>1. /\ phase = "heap" /\ phase' = "heap" /\ Collecting
      /\ frames # <<>> /\ Ahead # {}
      /\ mem' = Marked(mem, {b}) /\ frames' = Append(moved, Call(b))
      /\ UNCHANGED <<heapVars, inFinalizeCall, place, at, request, live>>
  BY DEF recurseAndMarkHeap, Collect, Collecting, history
<1>2. /\ mem' \in Memory /\ Row(mem') = Row(mem)
      /\ \A s \in Row(mem) : mem'[s].val = mem[s].val /\ mem'[s].alloc = mem[s].alloc
  BY <1>1, MarksKeepRow
<1>3. w + 1 \in Base .. End /\ b \in Row(mem) /\ b \in Addr
  <2>1. Row(mem) \subseteq Addr
    BY <1>1, Basics DEF IsRow
  <2> QED
    BY <2>1, <1>1, AheadFound
<1>4. frames \in Seq(Frame) /\ \A k \in DOMAIN frames : frames[k].chunk \in Row(mem)
  BY <1>1, Basics DEF Sound, PositionSound
<1>5. /\ moved \in Seq(Frame)
      /\ \A k \in DOMAIN moved : moved[k].chunk = frames[k].chunk /\ k \in DOMAIN frames
  <2>1. Len(frames) \in DOMAIN frames /\ frames[Len(frames)] \in Frame
    BY <1>1, <1>4
  <2>2. [frames[Len(frames)] EXCEPT !.word = w + 1] \in Frame
    BY <2>1, <1>3 DEF Frame
  <2>3. moved = [frames EXCEPT ![Len(frames)] = [frames[Len(frames)] EXCEPT !.word = w + 1]]
    OBVIOUS
  <2>4. moved \in Seq(Frame)
    BY <2>1, <2>2, <2>3, <1>4
  <2> QED
    BY <2>1, <2>4, <1>4
<1>6. Call(b) \in Frame /\ Call(b).chunk = b
  BY <1>3, AllocAssumption DEF Call, Addr, End, Frame
<1>7. frames' \in Seq(Frame)
  BY <1>1, <1>5, <1>6
<1>8. \A k \in DOMAIN frames' : frames'[k].chunk \in Row(mem)
  BY <1>1, <1>3, <1>4, <1>5, <1>6
<1>9. PositionSound'
  BY <1>1, <1>2, <1>8 DEF Sound, PositionSound
<1> QED
  BY <1>1, <1>2, <1>7, <1>9, Basics, StepSound DEF Phases

LEMMA ReturnSound == Sound /\ RecursionReturns => Sound'
<1> SUFFICES ASSUME Sound, RecursionReturns PROVE Sound'
  OBVIOUS
<1>1. /\ phase = "heap" /\ phase' = "heap" /\ Collecting /\ frames # <<>>
      /\ mem' = mem /\ frames' = SubSeq(frames, 1, Len(frames) - 1)
      /\ UNCHANGED <<heapVars, inFinalizeCall, place, at, request, live>>
  BY DEF RecursionReturns, Collect, Collecting, history
<1>2. frames \in Seq(Frame) /\ \A k \in DOMAIN frames : frames[k].chunk \in Row(mem)
  BY <1>1, Basics DEF Sound, PositionSound
<1>3. /\ frames' \in Seq(Frame)
      /\ \A k \in DOMAIN frames' : k \in DOMAIN frames /\ frames'[k] = frames[k]
  BY <1>1, <1>2
<1>4. PositionSound'
  BY <1>1, <1>2, <1>3 DEF Sound, PositionSound
<1> QED
  BY <1>1, <1>3, <1>4, Basics, StepSound DEF Phases

LEMMA MarkingEndsSound == Sound /\ MarkingEnds => Sound'
<1> SUFFICES ASSUME Sound, MarkingEnds PROVE Sound'
  OBVIOUS
<1>1. /\ phase = "heap" /\ phase' = "sweep" /\ Collecting /\ at' = heapBasePtr
      /\ mem' = mem /\ frames = <<>>
      /\ UNCHANGED <<heapVars, inFinalizeCall, place, frames, request, live>>
  BY DEF MarkingEnds, Collect, Collecting, calls, history
<1>2. at' = Base /\ Base \in Row(mem)
  BY <1>1, Basics DEF IsRow
<1>3. PositionSound'
  BY <1>1, <1>2 DEF PositionSound
<1>4. at' \in {NULL} \cup Base .. End
  BY <1>2, AllocAssumption DEF End
<1> QED
  BY <1>1, <1>3, <1>4, Basics, StepSound DEF Phases

-----------------------------------------------------------------------------
(* The sweep, and the merging of free chunks *)

\* A bit of the header at s cleared.
LEMMA FreedHeader ==
    ASSUME NEW m \in Memory, NEW s \in Addr
    PROVE  LET n == Freed(m, s)
           IN  /\ n \in Memory
               /\ \A t \in Addr : n[t].val = m[t].val /\ (n[t].alloc => m[t].alloc)
               /\ \A a \in Addr \ {s} : n[a] = m[a]
               /\ ~n[s].alloc /\ (n[s].mark => m[s].mark)
<1>1. m[s] \in Word /\ s \in Addr
  BY DEF Memory
<1>2. [m[s] EXCEPT !.alloc = FALSE] \in Word
  BY <1>1 DEF Word
<1>3. Freed(m, s) = [m EXCEPT ![s] = [m[s] EXCEPT !.alloc = FALSE]]
  BY DEF Freed
<1> QED
  BY <1>1, <1>2, <1>3 DEF Memory, Word

LEMMA UnmarkedHeader ==
    ASSUME NEW m \in Memory, NEW s \in Addr
    PROVE  LET n == Unmarked(m, s)
           IN  /\ n \in Memory
               /\ \A t \in Addr : n[t].val = m[t].val /\ n[t].alloc = m[t].alloc
               /\ \A a \in Addr \ {s} : n[a] = m[a]
               /\ ~n[s].mark
<1>1. m[s] \in Word /\ s \in Addr
  BY DEF Memory
<1>2. [m[s] EXCEPT !.mark = FALSE] \in Word
  BY <1>1 DEF Word
<1>3. Unmarked(m, s) = [m EXCEPT ![s] = [m[s] EXCEPT !.mark = FALSE]]
  BY DEF Unmarked
<1> QED
  BY <1>1, <1>2, <1>3 DEF Memory, Word

\* Where the loop of sweep stands, and goes on.
LEMMA SweepPosition ==
    ASSUME Sound, phase \in {"sweep", "finalizing", "consolidate"}, InHeap
    PROVE  /\ Collecting /\ heapBasePtr = Base /\ mem \in Memory /\ IsRow(mem, Row(mem))
           /\ Row(mem) \in SUBSET Addr
           /\ at \in Row(mem) /\ frames = <<>>
           /\ NextChunk(mem, at) \in Row(mem) \cup {End}
           /\ NextChunk(mem, at) \in {NULL} \cup Base .. End
<1>1. Collecting /\ at \in Row(mem) \cup {End} /\ frames = <<>>
  BY Basics DEF Collecting, Sound, PositionSound
<1>2. heapBasePtr = Base /\ mem \in Memory /\ IsRow(mem, Row(mem))
  BY <1>1, Basics
<1> QED
  BY <1>1, <1>2, NextPosition DEF IsRow

\* A round of the loop of sweep that changes one header at most.
LEMMA RoundSound ==
    ASSUME Sound, phase \in {"sweep", "finalizing"}, InHeap, phase' = "sweep",
           mem' = mem \/ mem' = Unmarked(mem, at) \/ mem' = Freed(mem, at),
           at' = NextChunk(mem, at), UNCHANGED <<heapVars, calls, live>>,
           inFinalizeCall' \in 0 .. 1, place' \in [Places -> {NULL} \cup Base .. End]
    PROVE  Sound'
<1>1. /\ Collecting /\ heapBasePtr = Base /\ mem \in Memory /\ IsRow(mem, Row(mem))
      /\ Row(mem) \in SUBSET Addr
      /\ at \in Row(mem) /\ frames = <<>>
      /\ NextChunk(mem, at) \in Row(mem) \cup {End}
      /\ NextChunk(mem, at) \in {NULL} \cup Base .. End
  BY SweepPosition
<1>2. /\ mem' \in Memory
      /\ \A s \in Row(mem) : mem'[s].val = mem[s].val /\ (mem'[s].alloc => mem[s].alloc)
  <2>1. CASE mem' = mem
    BY <2>1, <1>1
  <2>2. at \in Addr
    BY <1>1
  <2>3. CASE mem' = Unmarked(mem, at)
    BY <2>2, <2>3, <1>1, UnmarkedHeader
  <2>4. CASE mem' = Freed(mem, at)
    BY <2>2, <2>4, <1>1, FreedHeader
  <2> QED
    BY <2>1, <2>3, <2>4
<1>3. Row(mem') = Row(mem)
  BY <1>1, <1>2, SameHeaders
<1>4. frames' = <<>>
  BY <1>1 DEF calls
<1>5. PositionSound'
  BY <1>1, <1>3, <1>4 DEF PositionSound
<1> QED
  BY <1>1, <1>2, <1>4, <1>5, StepSound, Basics DEF Phases, calls

LEMMA KeepsSound == Sound /\ SweepKeeps => Sound'
<1> SUFFICES ASSUME Sound, SweepKeeps PROVE Sound'
  OBVIOUS
<1>1. /\ phase = "sweep" /\ phase' = "sweep" /\ InHeap /\ at' = NextChunk(mem, at)
      /\ mem' = mem \/ mem' = Unmarked(mem, at)
      /\ UNCHANGED <<heapVars, inFinalizeCall, place, calls, live>>
  BY DEF SweepKeeps, Collect, history
<1> QED
  BY <1>1, RoundSound, Basics

LEMMA FreesSound == Sound /\ SweepFrees => Sound'
<1> SUFFICES ASSUME Sound, SweepFrees PROVE Sound'
  OBVIOUS
<1>1. /\ phase = "sweep" /\ phase' = "sweep" /\ InHeap /\ at' = NextChunk(mem, at)
      /\ mem' = Freed(mem, at)
      /\ UNCHANGED <<heapVars, inFinalizeCall, place, calls, live>>
  BY DEF SweepFrees, Collect, Unreachable, history
<1> QED
  BY <1>1, RoundSound, Basics

LEMMA DestructorSound == Sound /\ callDestructor => Sound'
<1> SUFFICES ASSUME Sound, callDestructor PROVE Sound'
  OBVIOUS
<1>1. /\ phase = "sweep" /\ phase' = "finalizing" /\ InHeap /\ inFinalizeCall' = 1
      /\ mem[at].alloc /\ ~mem[at].mark /\ mem' = mem
      /\ UNCHANGED <<heapVars, place, at, frames, request, live>>
  BY DEF callDestructor, Collect, Unreachable, calls, history
<1>2. Collecting /\ at \in Row(mem) /\ frames = <<>> /\ mem \in Memory
  BY <1>1, SweepPosition
<1>3. PositionSound'
  BY <1>1, <1>2 DEF PositionSound
<1> QED
  BY <1>1, <1>2, <1>3, StepSound, Basics DEF Phases

\* Where sweep stands while a finalizer runs.
LEMMA FinalizingPosition ==
    ASSUME Sound, phase = "finalizing"
    PROVE  InHeap /\ at \in Row(mem) /\ at \in Int /\ at + 2 \in Base .. End
<1>1. at \in Row(mem) /\ mem \in Memory /\ IsRow(mem, Row(mem))
  BY Basics DEF Sound, PositionSound, Collecting
<1> QED
  BY <1>1, RowBounds, AllocAssumption DEF InHeap, End

LEMMA FinalizerSound == Sound /\ FinalizerReturns => Sound'
<1> SUFFICES ASSUME Sound, FinalizerReturns PROVE Sound'
  OBVIOUS
<1>1. /\ phase = "finalizing" /\ phase' = "sweep" /\ at' = NextChunk(mem, at)
      /\ mem' = Freed(mem, at) /\ inFinalizeCall' = 0
      /\ UNCHANGED <<heapVars, calls, live>>
      /\ (\E g \in Globals \cap Holders : place' = [place EXCEPT ![g] = at + 2]) \/ place' = place
  BY DEF FinalizerReturns, Collect, history
<1>2. InHeap /\ at + 2 \in Base .. End
  BY <1>1, FinalizingPosition
<1>3. place' \in [Places -> {NULL} \cup Base .. End]
  BY <1>1, <1>2, Basics
<1> QED
  BY <1>1, <1>2, <1>3, RoundSound

LEMMA ExitSound == Sound /\ AllocateInFinalizer => Sound'
<1> SUFFICES ASSUME Sound, AllocateInFinalizer PROVE Sound'
  OBVIOUS
<1>1. /\ phase = "finalizing" /\ phase' = "exited" /\ Collecting
      /\ UNCHANGED <<heapVars, inFinalizeCall, mem, place, at, frames, request, live>>
  BY DEF AllocateInFinalizer, Collecting, calls, history
<1>2. PositionSound'
  BY <1>1, Basics DEF PositionSound
<1> QED
  BY <1>1, <1>2, StepSound, Basics DEF Phases

LEMMA SweepEndsSound == Sound /\ SweepEnds => Sound'
<1> SUFFICES ASSUME Sound, SweepEnds PROVE Sound'
  OBVIOUS
<1>1. /\ phase = "sweep" /\ phase' = "consolidate" /\ Collecting /\ at' = heapBasePtr
      /\ UNCHANGED <<heapVars, inFinalizeCall, mem, place, frames, request, live>>
  BY DEF SweepEnds, Collect, Collecting, calls, history
<1>2. at' = Base /\ Base \in Row(mem) /\ frames = <<>>
  BY <1>1, Basics DEF IsRow
<1>3. PositionSound'
  BY <1>1, <1>2 DEF PositionSound
<1>4. at' \in {NULL} \cup Base .. End
  BY <1>2, AllocAssumption DEF End
<1> QED
  BY <1>1, <1>3, <1>4, StepSound, Basics DEF Phases

LEMMA SkipsSound == Sound /\ ConsolidateSkips => Sound'
<1> SUFFICES ASSUME Sound, ConsolidateSkips PROVE Sound'
  OBVIOUS
<1>1. /\ phase = "consolidate" /\ phase' = "consolidate" /\ InHeap /\ at' = NextChunk(mem, at)
      /\ UNCHANGED <<heapVars, inFinalizeCall, mem, place, frames, request, live>>
  BY DEF ConsolidateSkips, Collect, calls, history
<1>2. /\ Collecting /\ frames = <<>> /\ mem \in Memory
      /\ NextChunk(mem, at) \in Row(mem) \cup {End}
      /\ NextChunk(mem, at) \in {NULL} \cup Base .. End
  BY <1>1, SweepPosition
<1>3. PositionSound'
  BY <1>1, <1>2 DEF PositionSound
<1> QED
  BY <1>1, <1>2, <1>3, StepSound, Basics DEF Phases

\* A chunk and its free successor become one.
LEMMA Merges ==
    ASSUME Sound, ConsolidateMerges
    PROVE  LET next == NextChunk(mem, at)
           IN  /\ heapBasePtr = Base /\ mem \in Memory /\ IsRow(mem, Row(mem))
               /\ at \in Row(mem) /\ next \in Row(mem) /\ at # next
               /\ ~mem[at].alloc /\ ~mem[next].alloc
               /\ mem' \in Memory /\ Row(mem') = Row(mem) \ {next} /\ IsRow(mem', Row(mem'))
               /\ mem'[at] = Plain(mem[at].val + mem[next].val + 2)
               /\ \A a \in Addr \ {at} : mem'[a] = mem[a]
               /\ at \in Addr
<1> DEFINE next == NextChunk(mem, at)
           k == mem[at].val + mem[next].val + 2
<1>1. /\ phase = "consolidate" /\ InHeap /\ ~mem[at].alloc /\ ~(next >= Base + Space)
      /\ ~mem[next].alloc /\ mem' = [mem EXCEPT ![at] = Plain(k)]
  BY DEF ConsolidateMerges, Collect, LastChunk
<1>2. /\ heapBasePtr = Base /\ mem \in Memory /\ IsRow(mem, Row(mem))
      /\ Row(mem) \in SUBSET Addr
      /\ at \in Row(mem) /\ next \in Row(mem) \cup {End}
  BY <1>1, SweepPosition
<1>3. next # End
  BY <1>1, AllocAssumption DEF End
<1>4. next \in Row(mem)
  BY <1>2, <1>3
<1>5. mem[at].val \in Nat /\ mem[next].val \in Nat
  BY <1>2, <1>4, RowBounds
<1>6. Plain(k) \in Word /\ ~Plain(k).alloc /\ Plain(k).val = k
  BY <1>5 DEF Plain, Word
<1>7. /\ mem' \in Memory /\ mem'[at] = Plain(k) /\ \A a \in Addr \ {at} : mem'[a] = mem[a]
  BY <1>1, <1>2, <1>6 DEF Memory
<1>8. /\ ~mem'[at].alloc /\ mem'[at].val = k
      /\ \A t \in Row(mem) \ {at} : mem'[t].val = mem[t].val /\ mem'[t].alloc = mem[t].alloc
  BY <1>2, <1>6, <1>7
<1>9. IsRow(mem', Row(mem) \ {next}) /\ at # next
  <2>1. ~mem[next].alloc /\ mem'[at].val = mem[at].val + mem[next].val + 2
    BY <1>1, <1>8
  <2> QED
    BY <2>1, <1>2, <1>4, <1>7, <1>8, MergeRow
<1>10. Row(mem') = Row(mem) \ {next}
  BY <1>7, <1>9, RowOf
<1> QED
  BY <1>1, <1>2, <1>4, <1>7, <1>9, <1>10

LEMMA MergesSound == Sound /\ ConsolidateMerges => Sound'
<1> SUFFICES ASSUME Sound, ConsolidateMerges PROVE Sound'
  OBVIOUS
<1>1. /\ phase = "consolidate" /\ phase' = "consolidate"
      /\ UNCHANGED <<heapVars, inFinalizeCall, place, at, frames, request, live>>
  BY DEF ConsolidateMerges, Collect, calls, history
<1>2. /\ heapBasePtr = Base /\ initializedSpace = Space /\ frames = <<>>
      /\ mem' \in Memory /\ IsRow(mem', Row(mem')) /\ at \in Row(mem')
  BY <1>1, Merges, Basics
<1>3. HeapSound'
  BY <1>1, <1>2, Bases DEF HeapSound, heapVars
<1>4. TypeOK'
  BY <1>1, <1>2 DEF Sound, TypeOK, heapVars, Memory
<1>5. PositionSound' /\ RequestSound'
  BY <1>1, <1>2 DEF PositionSound, RequestSound, Sound, Collecting
<1> QED
  BY <1>3, <1>4, <1>5 DEF Sound

LEMMA ConsolidateEndsSound == Sound /\ ConsolidateEnds => Sound'
<1> SUFFICES ASSUME Sound, ConsolidateEnds PROVE Sound'
  OBVIOUS
<1>1. /\ phase = "consolidate" /\ phase' = "retry" /\ Collecting /\ at' = NULL
      /\ UNCHANGED <<heapVars, inFinalizeCall, mem, place, frames, request, live>>
  BY DEF ConsolidateEnds, Collect, Collecting, calls, history
<1>2. PositionSound'
  BY <1>1, Basics DEF PositionSound
<1> QED
  BY <1>1, <1>2, StepSound, Basics DEF Phases

LEMMA RetrySound == Sound /\ RetryAfterCollection => Sound'
<1> SUFFICES ASSUME Sound, RetryAfterCollection PROVE Sound'
  OBVIOUS
<1> DEFINE k == request.size
           s == findSpace(mem, k)
<1>1. /\ phase = "retry" /\ phase' = "user" /\ live' = {}
      /\ UNCHANGED <<heapVars, inFinalizeCall, at, frames>>
      /\ IF s # NULL
         THEN mem' = Allocated(mem, s, k, request.fin) /\ Returns(request.dest, s + 2)
         ELSE Returns(request.dest, NULL) /\ mem' = mem
  BY DEF RetryAfterCollection, Collect
<1>2. /\ Collecting /\ heapBasePtr = Base /\ mem \in Memory /\ frames = <<>>
      /\ k \in Sizes /\ request.fin \in Finalizers /\ request.dest \in Holders \cup {Discard}
  BY <1>1, Basics DEF Collecting, Sound, RequestSound
<1>3. ~Collecting'
  BY <1>1 DEF Collecting
<1>4. HeapSound' /\ mem' \in Memory /\ place' \in [Places -> {NULL} \cup Base .. End]
  <2>1. CASE s # NULL
    BY <2>1, <1>1, <1>2, <1>3, AllocatedSound, ReturnsTyped
  <2>2. CASE s = NULL
    <3>1. HeapSound'
      BY <2>2, <1>1, <1>2, <1>3 DEF Sound, HeapSound, heapVars
    <3> QED
      BY <3>1, <2>2, <1>1, <1>2, ReturnsTyped
  <2> QED
    BY <2>1, <2>2
<1>5. TypeOK'
  BY <1>1, <1>4 DEF Sound, TypeOK, heapVars, Memory, Phases
<1>6. PositionSound' /\ RequestSound'
  BY <1>1, <1>2, <1>3 DEF PositionSound, RequestSound
<1> QED
  BY <1>4, <1>5, <1>6 DEF Sound

LEMMA AssignSound ==
    ASSUME Sound, NEW r \in Holders, NEW v \in Values, Assign(r, v)
    PROVE  Sound'
<1>1. UNCHANGED <<heapVars, inFinalizeCall, mem, phase, at, calls, live>>
  BY DEF Assign, history
<1>2. place' \in [Places -> {NULL} \cup Base .. End]
  BY ValuesTyped, Basics DEF Assign
<1> QED
  BY <1>1, <1>2, QuietSound

LEMMA UninitializedSound ==
    ASSUME Sound, NEW d \in Holders \cup {Discard}, AllocateUninitialized(d)
    PROVE  Sound'
<1>1. UNCHANGED <<heapVars, inFinalizeCall, mem, phase, at, calls, live>>
  BY DEF AllocateUninitialized, history
<1>2. place' \in [Places -> {NULL} \cup Base .. End]
  BY ReturnsTyped DEF AllocateUninitialized
<1> QED
  BY <1>1, <1>2, QuietSound

LEMMA StutterSound == Sound /\ UNCHANGED vars => Sound'
BY DEF Sound, TypeOK, HeapSound, PositionSound, RequestSound, Collecting, vars

LEMMA NextSound == Sound /\ [Next]_vars => Sound'
<1> SUFFICES ASSUME Sound, [Next]_vars PROVE Sound'
  OBVIOUS
<1>1. CASE memInitialize
  BY <1>1, InitializeSound
<1>2. ASSUME NEW d \in Holders \cup {Discard}, AllocateUninitialized(d) PROVE Sound'
  BY <1>2, UninitializedSound
<1>3. ASSUME NEW d \in Holders \cup {Discard}, NEW n \in Sizes, NEW f \in Finalizers,
             AllocateFits(n, f, d) \/ AllocateCollects(n, f, d)
      PROVE  Sound'
  BY <1>3, FitsSound, CollectsSound
<1>4. CASE AllocateAtNull
  BY <1>4, AtNullSound
<1>5. ASSUME NEW r \in Holders, NEW v \in Values, Assign(r, v) PROVE Sound'
  BY <1>5, AssignSound
<1>6. ASSUME NEW a \in Addr, NEW v \in Values, Store(a, v) PROVE Sound'
  BY <1>6, StoreSound
<1>7. CASE collectGarbage
  BY <1>7, RootsSound, RegistersSound, TraverseSound, RecurseSound, ReturnSound,
     MarkingEndsSound, KeepsSound, FreesSound, DestructorSound, FinalizerSound,
     ExitSound, SweepEndsSound, SkipsSound, MergesSound, ConsolidateEndsSound, RetrySound
     DEF collectGarbage
<1>8. CASE UNCHANGED vars
  BY <1>8, StutterSound
<1> QED
  BY <1>1, <1>2, <1>3, <1>4, <1>5, <1>6, <1>7, <1>8 DEF Next

LEMMA Invariance == Spec => []Sound
BY InitSound, NextSound, PTL DEF Spec

\* Every variable keeps its type: heapBasePtr is what malloc returned or NULL,
\* the collector's loops stay in the heap, its calls stand on addresses of it
\* (alloc.c:20-26, 123-187).
THEOREM TypeCorrect == Spec => []TypeOK
<1>1. Sound => TypeOK
  BY DEF Sound
<1> QED
  BY <1>1, Invariance, PTL

-----------------------------------------------------------------------------
(* What a step does to the row of chunks *)

\* It makes the first chunk,
LaysFirst ==
    /\ heapBasePtr = NULL /\ heapBasePtr' = Base
    /\ mem' \in Memory /\ mem'[Base] = Plain(Space)

\* or makes a block,
Takes ==
    /\ heapBasePtr = Base /\ heapBasePtr' = Base
    /\ \E k \in Sizes, f \in Finalizers :
           findSpace(mem, k) # NULL /\ mem' = Allocated(mem, findSpace(mem, k), k, f)

\* or frees one, after its finalizer,
Frees ==
    /\ heapBasePtr = Base /\ heapBasePtr' = Base
    /\ phase \in {"sweep", "finalizing"} /\ InHeap
    /\ at \in Row(mem) /\ mem[at].alloc /\ mem' = Freed(mem, at)
    /\ mem[at + 1].val # NULL => inFinalizeCall = 1

\* or joins two free chunks,
Joins == ConsolidateMerges /\ UNCHANGED heapBasePtr

\* or leaves the row as it is.
Leaves ==
    /\ UNCHANGED heapBasePtr
    /\ heapBasePtr = NULL => mem' = mem
    /\ heapBasePtr = Base =>
           /\ mem' \in Memory /\ Row(mem') = Row(mem) /\ IsRow(mem', Row(mem))
           /\ \A s \in Row(mem) : mem'[s].val = mem[s].val /\ mem'[s].alloc = mem[s].alloc

LEMMA SameLeaves == Sound /\ UNCHANGED <<heapVars, mem>> => Leaves
BY Basics DEF Leaves, heapVars

LEMMA MarkLeaves ==
    ASSUME Sound, Collecting, NEW S, mem' = Marked(mem, S), UNCHANGED heapVars
    PROVE  Leaves
<1>1. /\ mem' \in Memory /\ Row(mem') = Row(mem)
      /\ \A s \in Row(mem) : mem'[s].val = mem[s].val /\ mem'[s].alloc = mem[s].alloc
  BY MarksKeepRow
<1>2. heapBasePtr = Base /\ heapBasePtr' = heapBasePtr /\ Base # NULL
  BY Basics, Bases DEF heapVars
<1>3. IsRow(mem', Row(mem))
  BY <1>1, <1>2, SameHeaders
<1> QED
  BY <1>1, <1>2, <1>3 DEF Leaves

LEMMA StoreLeaves ==
    ASSUME Sound, NEW a \in Addr, NEW v \in Values, Store(a, v)
    PROVE  Leaves
<1>1. /\ a \in Accessible /\ mem' = [mem EXCEPT ![a] = Plain(v)] /\ UNCHANGED heapVars
  BY DEF Store
<1>2. heapBasePtr = Base /\ mem \in Memory /\ IsRow(mem, Row(mem)) /\ a \in Addr \ Row(mem)
  BY <1>1, AccessibleWords
<1>3. Sound' /\ Row(mem') = Row(mem) /\ heapBasePtr' = Base
  BY <1>1, <1>2, StoreSound DEF heapVars
<1>4. mem' \in Memory /\ IsRow(mem', Row(mem'))
  BY <1>3 DEF Sound, TypeOK, HeapSound, Memory
<1>5. \A s \in Row(mem) : mem'[s] = mem[s]
  <2>1. Row(mem) \subseteq Addr
    BY <1>2 DEF IsRow
  <2> QED
    BY <2>1, <1>1, <1>2 DEF Memory
<1> QED
  BY <1>2, <1>3, <1>4, <1>5, Bases DEF Leaves

LEMMA KeepLeaves == Sound /\ SweepKeeps => Leaves
<1> SUFFICES ASSUME Sound, SweepKeeps PROVE Leaves
  OBVIOUS
<1>1. /\ phase = "sweep" /\ InHeap /\ UNCHANGED heapVars
      /\ mem' = mem \/ mem' = Unmarked(mem, at)
  BY DEF SweepKeeps, Collect
<1>2. /\ heapBasePtr = Base /\ mem \in Memory /\ Row(mem) \in SUBSET Addr /\ at \in Row(mem)
  BY <1>1, SweepPosition
<1>3. /\ mem' \in Memory
      /\ \A s \in Row(mem) : mem'[s].val = mem[s].val /\ mem'[s].alloc = mem[s].alloc
  <2>1. CASE mem' = mem
    BY <2>1, <1>2
  <2>2. CASE mem' = Unmarked(mem, at)
    BY <2>2, <1>2, UnmarkedHeader
  <2> QED
    BY <1>1, <2>1, <2>2
<1>4. Row(mem') = Row(mem) /\ IsRow(mem', Row(mem))
  BY <1>1, <1>2, <1>3, SameHeaders
<1> QED
  BY <1>1, <1>2, <1>3, <1>4, Bases DEF Leaves, heapVars

LEMMA RetryTakes == Sound /\ RetryAfterCollection => Takes \/ Leaves
<1> SUFFICES ASSUME Sound, RetryAfterCollection PROVE Takes \/ Leaves
  OBVIOUS
<1>1. /\ phase = "retry" /\ UNCHANGED heapVars
      /\ \/ /\ findSpace(mem, request.size) # NULL
            /\ mem' = Allocated(mem, findSpace(mem, request.size), request.size, request.fin)
         \/ mem' = mem
  BY DEF RetryAfterCollection, Collect
<1>2. heapBasePtr = Base /\ request.size \in Sizes /\ request.fin \in Finalizers
  BY <1>1, Basics DEF Collecting, Sound, RequestSound
<1> QED
  BY <1>1, <1>2, SameLeaves DEF Takes, heapVars

LEMMA HeapStep == Sound /\ Next => LaysFirst \/ Takes \/ Frees \/ Joins \/ Leaves
<1> SUFFICES ASSUME Sound, Next PROVE LaysFirst \/ Takes \/ Frees \/ Joins \/ Leaves
  OBVIOUS
<1>1. CASE memInitialize
  <2>1. CASE UNCHANGED <<heapBasePtr, mem>>
    BY <2>1, Basics DEF Leaves
  <2>2. CASE heapBasePtr' = Base /\ mem' = [mem EXCEPT ![Base] = Plain(Space)]
    <3>1. mem \in Memory /\ Plain(Space) \in Word /\ heapBasePtr = NULL
      BY <1>1, Basics, AllocAssumption DEF Plain, Word, memInitialize
    <3> QED
      BY <3>1, <2>2, Bases DEF LaysFirst, Memory
  <2> QED
    BY <1>1, <2>1, <2>2 DEF memInitialize
<1>2. ASSUME NEW d \in Holders \cup {Discard}, AllocateUninitialized(d) PROVE Leaves
  BY <1>2, SameLeaves DEF AllocateUninitialized
<1>3. ASSUME NEW d \in Holders \cup {Discard}, NEW n \in Sizes, NEW f \in Finalizers,
             AllocateFits(n, f, d)
      PROVE  Takes
  BY <1>3, Basics DEF AllocateFits, Takes, heapVars
<1>4. ASSUME NEW d \in Holders \cup {Discard}, NEW n \in Sizes, NEW f \in Finalizers,
             AllocateCollects(n, f, d)
      PROVE  Leaves
  BY <1>4, SameLeaves DEF AllocateCollects
<1>5. CASE AllocateAtNull
  BY <1>5, SameLeaves DEF AllocateAtNull
<1>6. ASSUME NEW r \in Holders, NEW v \in Values, Assign(r, v) PROVE Leaves
  BY <1>6, SameLeaves DEF Assign
<1>7. ASSUME NEW a \in Addr, NEW v \in Values, Store(a, v) PROVE Leaves
  BY <1>7, StoreLeaves
<1>8. CASE MarkRoots \/ checkAndMarkRegisters \/ recurseAndMarkHeap
  <2>1. UNCHANGED heapVars /\ Collecting /\ \E S : mem' = Marked(mem, S)
    BY <1>8 DEF MarkRoots, checkAndMarkRegisters, recurseAndMarkHeap, Collect, Collecting
  <2> QED
    BY <2>1, MarkLeaves
<1>9. CASE \/ traverseAndMarkHeap \/ RecursionReturns \/ MarkingEnds \/ callDestructor
           \/ AllocateInFinalizer \/ SweepEnds \/ ConsolidateSkips \/ ConsolidateEnds
  BY <1>9, SameLeaves
     DEF traverseAndMarkHeap, RecursionReturns, MarkingEnds, callDestructor,
         AllocateInFinalizer, SweepEnds, ConsolidateSkips, ConsolidateEnds
<1>10. CASE SweepKeeps
  BY <1>10, KeepLeaves
<1>11. CASE SweepFrees
  <2>1. /\ phase = "sweep" /\ InHeap /\ mem[at].alloc /\ mem[at + 1].val = NULL
        /\ mem' = Freed(mem, at) /\ UNCHANGED heapVars
    BY <1>11 DEF SweepFrees, Collect, Unreachable
  <2> QED
    BY <2>1, SweepPosition DEF Frees, heapVars
<1>12. CASE FinalizerReturns
  <2>1. phase = "finalizing" /\ mem' = Freed(mem, at) /\ UNCHANGED heapVars
    BY <1>12 DEF FinalizerReturns, Collect
  <2>2. mem[at].alloc /\ inFinalizeCall = 1 /\ InHeap
    BY <2>1, FinalizingPosition DEF Sound, PositionSound
  <2> QED
    BY <2>1, <2>2, SweepPosition DEF Frees, heapVars
<1>13. CASE ConsolidateMerges
  BY <1>13 DEF Joins, ConsolidateMerges, heapVars
<1>14. CASE RetryAfterCollection
  BY <1>14, RetryTakes
<1> QED
  BY <1>1, <1>2, <1>3, <1>4, <1>5, <1>6, <1>7, <1>8, <1>9, <1>10, <1>11, <1>12, <1>13, <1>14
     DEF Next, collectGarbage

-----------------------------------------------------------------------------
(* Every step is one of HeapChunks *)

HeadersOf(m) == [s \in Row(m) |-> [alloc |-> m[s].alloc, size |-> m[s].val]]

LEMMA HeadersAre ==
    /\ heapBasePtr = Base => Headers = HeadersOf(mem)
    /\ heapBasePtr' = Base => Headers' = HeadersOf(mem')
    /\ heapBasePtr = NULL => Headers = [s \in {} |-> HC!Free(0)]
    /\ heapBasePtr' = NULL => Headers' = [s \in {} |-> HC!Free(0)]
BY Bases DEF Headers, HeadersOf, Row

LEMMA LaysImplements == Sound /\ LaysFirst => HC!memInitialize
<1> SUFFICES ASSUME Sound, LaysFirst PROVE HC!memInitialize
  OBVIOUS
<1>1. heapBasePtr = NULL /\ heapBasePtr' = Base /\ mem' \in Memory /\ mem'[Base] = Plain(Space)
  BY DEF LaysFirst
<1>2. Row(mem') = {Base}
  BY <1>1, InitialRow, RowOf
<1>3. Headers' = [s \in {Base} |-> [alloc |-> mem'[s].alloc, size |-> mem'[s].val]]
  BY <1>1, <1>2, HeadersAre DEF HeadersOf
<1>4. mem'[Base].alloc = FALSE /\ mem'[Base].val = Space
  BY <1>1 DEF Plain
<1>5. Headers' = [s \in {Base} |-> HC!Free(Space)]
  BY <1>3, <1>4 DEF HC!Free
<1>6. DOMAIN Headers = {}
  BY <1>1, HeadersAre
<1> QED
  BY <1>5, <1>6 DEF HC!memInitialize

LEMMA TakesImplements == Sound /\ Takes => \E k \in Sizes : HC!findSpace(k)
<1> SUFFICES ASSUME Sound, Takes PROVE \E k \in Sizes : HC!findSpace(k)
  OBVIOUS
<1>1. PICK k \in Sizes, f \in Finalizers :
          findSpace(mem, k) # NULL /\ mem' = Allocated(mem, findSpace(mem, k), k, f)
  BY DEF Takes
<1> DEFINE s == findSpace(mem, k)
           r == s + k + 2
           H == HeadersOf(mem)
<1>2. mem \in Memory /\ IsRow(mem, Row(mem)) /\ Headers = H /\ Headers' = HeadersOf(mem')
  BY Basics, HeadersAre DEF Takes
<1>3. k \in Nat /\ f \in Nat
  BY AllocAssumption, FinalizerAssumption DEF NULL, prints, saves, allocates
<1>4. /\ s \in Row(mem) /\ ~mem[s].alloc /\ mem[s].val > k + 2
      /\ \A t \in Row(mem) : ~mem[t].alloc /\ mem[t].val > k + 2 => s <= t
  BY <1>1, <1>2, <1>3, SpaceFound
<1>5. /\ mem' \in Memory /\ r \in Addr \ Row(mem) /\ IsRow(mem', Row(mem) \cup {r})
      /\ mem'[s] = Header(k)
      /\ \A a \in Addr : a < s \/ a >= NextChunk(mem, s) => mem'[a] = mem[a]
  <2>1. IsRow(mem', Row(mem) \cup {r})
    BY <1>1, <1>2, <1>3, <1>4, AllocatedHeap
  <2> QED
    BY <2>1, <1>1, <1>2, <1>3, <1>4, AllocatedHeap
<1>6. Row(mem') = Row(mem) \cup {r}
  BY <1>5, RowOf
<1>7. DOMAIN H = Row(mem) /\ \A t \in Row(mem) : H[t].alloc = mem[t].alloc /\ H[t].size = mem[t].val
  BY DEF HeadersOf
<1>8. HC!Fits(s, k) /\ \A t \in Row(mem) : HC!Fits(t, k) => s <= t
  BY <1>2, <1>4, <1>7 DEF HC!Fits
<1>9. Headers' = HC!Split(s, k)
  <2>1. ASSUME NEW t \in Row(mem) \ {s} PROVE mem'[t] = mem[t]
    <3>1. t \in Addr /\ t \in Int /\ s \in Int
      BY <1>2, <1>4, RowBounds
    <3>2. s < t => NextChunk(mem, s) <= t
      BY <1>2, <1>4 DEF IsRow
    <3>3. NextChunk(mem, s) \in Int
      BY <1>2, <1>4, RowBounds
    <3> QED
      BY <3>1, <3>2, <3>3, <1>5
  <2>2. mem'[s].alloc = TRUE /\ mem'[s].val = k
    BY <1>5 DEF Header
  <2>3. mem'[r].alloc = FALSE /\ mem'[r].val = mem[s].val - k - 2
    <3>1. /\ s \in Int /\ mem[s].val \in Nat /\ NextChunk(mem, s) = s + mem[s].val + 2
          /\ s + 2 <= NextChunk(mem, s)
      BY <1>2, <1>4, RowBounds
    <3>2. k + 1 < mem[s].val /\ r # s + 1 /\ r # s
      BY <3>1, <1>3, <1>4
    <3>3. mem'[r] = Plain(mem[s].val - k - 2)
      BY <3>2, <1>1, <1>2, <1>5 DEF Allocated, Memory
    <3> QED
      BY <3>3 DEF Plain
  <2>4. /\ DOMAIN HeadersOf(mem') = Row(mem) \cup {r}
        /\ \A t \in Row(mem) \cup {r} :
               HeadersOf(mem')[t] = [alloc |-> mem'[t].alloc, size |-> mem'[t].val]
    BY <1>6 DEF HeadersOf
  <2>5. r # s /\ H[s].size = mem[s].val
    BY <1>4, <1>5, <1>7
  <2>6. ASSUME NEW t \in Row(mem) \cup {r} PROVE HeadersOf(mem')[t] = HC!Split(s, k)[t]
    <3>1. CASE t = s
      BY <3>1, <2>2, <2>4, <2>5, <1>2, <1>7 DEF HC!Split, HC!Allocated
    <3>2. CASE t = r
      BY <3>2, <2>3, <2>4, <2>5, <1>2, <1>7 DEF HC!Split, HC!Free
    <3>3. CASE t \in Row(mem) \ {s, r}
      BY <3>3, <2>1, <2>4, <1>2, <1>7 DEF HC!Split, HeadersOf
    <3> QED
      BY <3>1, <3>2, <3>3
  <2>7. HC!Split(s, k) = [t \in Row(mem) \cup {r} |-> HC!Split(s, k)[t]]
    BY <1>2, <1>7 DEF HC!Split
  <2>8. HeadersOf(mem') = [t \in Row(mem) \cup {r} |-> HeadersOf(mem')[t]]
    BY <1>6 DEF HeadersOf
  <2> QED
    BY <2>6, <2>7, <2>8, <1>2
<1> QED
  BY <1>2, <1>4, <1>7, <1>8, <1>9 DEF HC!findSpace

LEMMA ChangedField ==
    ASSUME NEW n, NEW v, NEW w
    PROVE  [[alloc |-> v, size |-> n] EXCEPT !.alloc = w] = [alloc |-> w, size |-> n]
OBVIOUS

LEMMA FreesImplements == Sound /\ Frees => \E s \in DOMAIN Headers : HC!sweep(s)
<1> SUFFICES ASSUME Sound, Frees PROVE \E s \in DOMAIN Headers : HC!sweep(s)
  OBVIOUS
<1> DEFINE H == HeadersOf(mem)
<1>1. /\ at \in Row(mem) /\ mem[at].alloc /\ mem' = Freed(mem, at) /\ mem \in Memory
      /\ IsRow(mem, Row(mem)) /\ Headers = H /\ Headers' = HeadersOf(mem')
  BY Basics, HeadersAre DEF Frees
<1>2. Row(mem) \in SUBSET Addr
  BY <1>1 DEF IsRow
<1>3. /\ mem' \in Memory /\ \A a \in Addr \ {at} : mem'[a] = mem[a]
      /\ \A t \in Row(mem) : mem'[t].val = mem[t].val /\ (mem'[t].alloc => mem[t].alloc)
  BY <1>1, <1>2, FreedHeader
<1>4. Row(mem') = Row(mem)
  BY <1>1, <1>3, SameRow, RowOf
<1>5. mem'[at].alloc = FALSE
  BY <1>1, <1>2 DEF Freed, Memory, Word
<1>6. ASSUME NEW t \in Row(mem) PROVE HeadersOf(mem')[t] = [H EXCEPT ![at].alloc = FALSE][t]
  <2>1. HeadersOf(mem')[t] = [alloc |-> mem'[t].alloc, size |-> mem'[t].val]
    BY <1>4 DEF HeadersOf
  <2>2. H[t] = [alloc |-> mem[t].alloc, size |-> mem[t].val]
    BY DEF HeadersOf
  <2>3. DOMAIN H = Row(mem)
    BY DEF HeadersOf
  <2>4. CASE t = at
    <3>1. HeadersOf(mem')[t] = [alloc |-> FALSE, size |-> mem[at].val]
      BY <2>1, <2>4, <1>1, <1>3, <1>5
    <3>2. [H EXCEPT ![at].alloc = FALSE][at] = [H[at] EXCEPT !.alloc = FALSE]
      BY <2>3, <1>1
    <3>3. [H[at] EXCEPT !.alloc = FALSE] = [alloc |-> FALSE, size |-> mem[at].val]
      <4>1. [[alloc |-> mem[at].alloc, size |-> mem[at].val] EXCEPT !.alloc = FALSE]
                = [alloc |-> FALSE, size |-> mem[at].val]
        BY ChangedField, Zenon
      <4>2. H[at] = [alloc |-> mem[at].alloc, size |-> mem[at].val]
        BY <2>2, <2>4
      <4> QED
        BY <4>1, <4>2, Zenon
    <3> QED
      BY <3>1, <3>2, <3>3, <2>4
  <2>5. CASE t # at
    BY <2>1, <2>2, <2>3, <2>5, <1>2, <1>3
  <2> QED
    BY <2>4, <2>5
<1>7. HeadersOf(mem') = [H EXCEPT ![at].alloc = FALSE]
  <2>1. HeadersOf(mem') = [t \in Row(mem) |-> HeadersOf(mem')[t]]
    BY <1>4 DEF HeadersOf
  <2>2. [H EXCEPT ![at].alloc = FALSE] = [t \in Row(mem) |-> [H EXCEPT ![at].alloc = FALSE][t]]
    BY DEF HeadersOf
  <2> QED
    BY <1>6, <2>1, <2>2
<1>8. at \in DOMAIN Headers /\ Headers[at].alloc
  BY <1>1 DEF HeadersOf
<1>9. HC!sweep(at)
  BY <1>1, <1>7, <1>8 DEF HC!sweep
<1> QED
  BY <1>8, <1>9

LEMMA JoinsImplements == Sound /\ Joins => \E s \in DOMAIN Headers : HC!consolidate(s)
<1> SUFFICES ASSUME Sound, Joins PROVE \E s \in DOMAIN Headers : HC!consolidate(s)
  OBVIOUS
<1> DEFINE H == HeadersOf(mem)
           next == NextChunk(mem, at)
<1>1. /\ heapBasePtr = Base /\ heapBasePtr' = Base
      /\ mem \in Memory /\ IsRow(mem, Row(mem))
      /\ at \in Row(mem) /\ next \in Row(mem) /\ at # next
      /\ ~mem[at].alloc /\ ~mem[next].alloc
      /\ Row(mem') = Row(mem) \ {next}
      /\ mem'[at] = Plain(mem[at].val + mem[next].val + 2)
      /\ \A a \in Addr \ {at} : mem'[a] = mem[a]
  BY Merges DEF Joins
<1>2. Headers = H /\ Headers' = HeadersOf(mem') /\ Row(mem) \subseteq Addr
  BY <1>1, HeadersAre DEF IsRow
<1>3. /\ DOMAIN H = Row(mem)
      /\ \A t \in Row(mem) : H[t] = [alloc |-> mem[t].alloc, size |-> mem[t].val]
  BY DEF HeadersOf
<1>4. /\ DOMAIN HeadersOf(mem') = Row(mem) \ {next}
      /\ \A t \in Row(mem) \ {next} :
             HeadersOf(mem')[t] = [alloc |-> mem'[t].alloc, size |-> mem'[t].val]
  BY <1>1 DEF HeadersOf
<1>5. HC!NextChunk(at) = next
  BY <1>1, <1>2, <1>3 DEF HC!NextChunk, NextChunk
<1>6. ASSUME NEW t \in Row(mem) \ {next} PROVE HeadersOf(mem')[t] = HC!Merge(at)[t]
  <2>1. CASE t = at
    BY <2>1, <1>1, <1>2, <1>3, <1>4, <1>5 DEF HC!Merge, HC!Free, Plain
  <2>2. CASE t # at
    <3>1. mem'[t] = mem[t]
      BY <2>2, <1>1, <1>2
    <3> QED
      BY <3>1, <2>2, <1>2, <1>3, <1>4, <1>5 DEF HC!Merge
  <2> QED
    BY <2>1, <2>2
<1>7. HC!Merge(at) = [t \in Row(mem) \ {next} |-> HC!Merge(at)[t]]
  BY <1>2, <1>3, <1>5 DEF HC!Merge
<1>8. HeadersOf(mem') = [t \in Row(mem) \ {next} |-> HeadersOf(mem')[t]]
  BY <1>1 DEF HeadersOf
<1>9. Headers' = HC!Merge(at)
  BY <1>2, <1>6, <1>7, <1>8
<1>10. HC!consolidate(at)
  BY <1>1, <1>2, <1>3, <1>5, <1>9 DEF HC!consolidate
<1> QED
  BY <1>1, <1>2, <1>3, <1>10

LEMMA LeavesImplements == Sound /\ Leaves => Headers' = Headers
<1> SUFFICES ASSUME Sound, Leaves PROVE Headers' = Headers
  OBVIOUS
<1>1. CASE heapBasePtr = NULL
  BY <1>1, HeadersAre DEF Leaves
<1>2. CASE heapBasePtr = Base
  BY <1>2, HeadersAre DEF Leaves, HeadersOf
<1> QED
  BY <1>1, <1>2, Basics

\* The words the code works on always describe a row of chunks, and every step
\* of memInitialize, memAllocate and collectGarbage is a step of HeapChunks on
\* that row, or leaves it alone (ImplementsChunks; alloc.c:25-101, 201-254).
THEOREM Implements == Spec => ImplementsChunks
<1>1. Init => HC!Init
  BY HeadersAre DEF Init, HC!Init
<1>2. Sound /\ [Next]_vars => [HC!Next]_(HC!vars)
  <2> SUFFICES ASSUME Sound, [Next]_vars PROVE HC!Next \/ Headers' = Headers
    BY DEF HC!vars
  <2>1. CASE Next
    BY <2>1, HeapStep, LaysImplements, TakesImplements, FreesImplements, JoinsImplements,
       LeavesImplements DEF HC!Next
  <2>2. CASE UNCHANGED vars
    BY <2>2 DEF vars, Headers
  <2> QED
    BY <2>1, <2>2
<1> QED
  BY <1>1, <1>2, Invariance, PTL DEF Spec, ImplementsChunks, HC!Spec

-----------------------------------------------------------------------------
(* Freeing *)

\* The blocks of a heap that has a row.
LEMMA BlocksAre ==
    ASSUME Sound
    PROVE  /\ heapBasePtr = NULL => Blocks(mem) = {}
           /\ heapBasePtr = Base => Blocks(mem) = {s \in Row(mem) : mem[s].alloc}
<1>1. ASSUME heapBasePtr = NULL PROVE Blocks(mem) = {}
  <2>1. mem \in Memory /\ Base + Space - 1 \in Int /\ Base + Space - 1 < End
    BY Basics, AllocAssumption DEF End
  <2>2. Visited(mem) \subseteq Addr
    BY <2>1, ChunksInHeap DEF Visited
  <2>3. \A a \in Addr : ~mem[a].alloc
    BY <1>1 DEF Sound, HeapSound
  <2> QED
    BY <2>2, <2>3 DEF Blocks
<1>2. ASSUME heapBasePtr = Base PROVE Blocks(mem) = {s \in Row(mem) : mem[s].alloc}
  <2>1. mem \in Memory /\ IsRow(mem, Row(mem))
    BY <1>2, Basics
  <2> QED
    BY <2>1, RowOf
<1> QED
  BY <1>1, <1>2

\* An allocation frees nothing and touches no word of another block.
LEMMA TakesKeeps ==
    ASSUME Sound, Takes, Sound'
    PROVE  /\ Blocks(mem) \subseteq Blocks(mem')
           /\ \A s \in Blocks(mem) : /\ NextChunk(mem', s) = NextChunk(mem, s)
                                    /\ \A a \in s .. NextChunk(mem, s) - 1 : mem'[a] = mem[a]
<1>1. PICK k \in Sizes, f \in Finalizers :
          findSpace(mem, k) # NULL /\ mem' = Allocated(mem, findSpace(mem, k), k, f)
  BY DEF Takes
<1> DEFINE s == findSpace(mem, k)
<1>2. /\ mem \in Memory /\ IsRow(mem, Row(mem)) /\ heapBasePtr = Base /\ heapBasePtr' = Base
      /\ k \in Nat /\ f \in Nat
  BY Basics, AllocAssumption, FinalizerAssumption DEF Takes, NULL, prints, saves, allocates
<1>3. s \in Row(mem) /\ ~mem[s].alloc /\ mem[s].val > k + 2
  BY <1>1, <1>2, SpaceFound
<1>4. /\ mem' \in Memory /\ IsRow(mem', Row(mem) \cup {s + k + 2})
      /\ \A a \in Addr : a < s \/ a >= NextChunk(mem, s) => mem'[a] = mem[a]
      /\ \A t \in Row(mem) \ {s} : NextChunk(mem', t) = NextChunk(mem, t)
  <2>1. IsRow(mem', Row(mem) \cup {s + k + 2})
    BY <1>1, <1>2, <1>3, AllocatedHeap
  <2> QED
    BY <2>1, <1>1, <1>2, <1>3, AllocatedHeap
<1>5. ASSUME NEW t \in Blocks(mem)
      PROVE  /\ NextChunk(mem', t) = NextChunk(mem, t) /\ t \in Blocks(mem')
             /\ \A a \in t .. NextChunk(mem, t) - 1 : mem'[a] = mem[a]
  <2>1. t \in Row(mem) /\ mem[t].alloc /\ t # s
    BY <1>2, <1>3, RowOf
  <2>2. /\ t \in Int /\ Base <= t /\ t + 2 <= NextChunk(mem, t) /\ NextChunk(mem, t) <= End
        /\ NextChunk(mem, t) \in Int
        /\ s \in Int /\ NextChunk(mem, s) \in Int
    BY <2>1, <1>2, <1>3, RowBounds
  <2>3. (s < t => NextChunk(mem, s) <= t) /\ (t < s => NextChunk(mem, t) <= s)
    BY <2>1, <1>2, <1>3 DEF IsRow
  <2>4. ASSUME NEW a \in t .. NextChunk(mem, t) - 1 PROVE mem'[a] = mem[a]
    <3>1. a \in Addr
      BY <2>2, AllocAssumption DEF Addr, End
    <3>2. a < s \/ a >= NextChunk(mem, s)
      BY <2>1, <2>2, <2>3
    <3> QED
      BY <3>1, <3>2, <1>4
  <2>5. mem'[t] = mem[t]
    BY <2>2, <2>4
  <2>6. t \in Blocks(mem')
    BY <2>1, <2>5, <1>4, RowOf
  <2> QED
    BY <2>1, <2>4, <2>6, <1>4
<1> QED
  BY <1>5

\* Only sweep frees a block, and a block with a finalizer only in the step in
\* which the finalizer returns (FinalizedFirst; alloc.c:201-220).
THEOREM FinalizersFirst == Spec => FinalizedFirst
<1>1. Sound /\ Sound' /\ [Next]_vars => [FinalizedStep]_vars
  <2> SUFFICES ASSUME Sound, Sound', Next, NEW s \in Blocks(mem) \ Blocks(mem')
               PROVE  /\ s = at /\ phase \in {"sweep", "finalizing"}
                      /\ mem[s + 1].val # NULL => inFinalizeCall = 1
    BY DEF FinalizedStep
  <2>1. CASE LaysFirst
    BY <2>1, BlocksAre DEF LaysFirst
  <2>2. CASE Takes
    BY <2>2, TakesKeeps
  <2>3. CASE Frees
    <3>1. /\ mem \in Memory /\ IsRow(mem, Row(mem)) /\ at \in Row(mem) /\ mem' = Freed(mem, at)
      BY <2>3, Basics DEF Frees
    <3>2. Row(mem) \in SUBSET Addr
      BY <3>1 DEF IsRow
    <3>3. /\ mem' \in Memory /\ \A a \in Addr \ {at} : mem'[a] = mem[a]
          /\ \A t \in Row(mem) : mem'[t].val = mem[t].val /\ (mem'[t].alloc => mem[t].alloc)
      BY <3>1, <3>2, FreedHeader
    <3>4. IsRow(mem', Row(mem))
      BY <3>1, <3>3, SameRow
    <3>5. s \in Row(mem) /\ mem[s].alloc /\ (mem'[s].alloc => s \in Blocks(mem'))
      BY <3>1, <3>3, <3>4, RowOf
    <3>6. s = at
      BY <3>2, <3>3, <3>5
    <3> QED
      BY <2>3, <3>6 DEF Frees
  <2>4. CASE Joins
    <3>1. /\ mem \in Memory /\ IsRow(mem, Row(mem)) /\ mem' \in Memory /\ IsRow(mem', Row(mem'))
          /\ Row(mem') = Row(mem) \ {NextChunk(mem, at)} /\ ~mem[at].alloc
          /\ ~mem[NextChunk(mem, at)].alloc
          /\ \A a \in Addr \ {at} : mem'[a] = mem[a]
      BY <2>4, Merges DEF Joins
    <3>2. s \in Row(mem) /\ mem[s].alloc /\ s \in Addr
      BY <3>1, RowOf DEF IsRow
    <3>3. s \in Row(mem') /\ mem'[s] = mem[s]
      BY <3>1, <3>2
    <3> QED
      BY <3>1, <3>2, <3>3, RowOf
  <2>5. CASE Leaves
    <3>1. CASE heapBasePtr = NULL
      BY <3>1, BlocksAre
    <3>2. CASE heapBasePtr = Base
      BY <3>2, <2>5, BlocksAre, RowOf DEF Leaves
    <3> QED
      BY <3>1, <3>2, Basics
  <2> QED
    BY <2>1, <2>2, <2>3, <2>4, <2>5, HeapStep
<1> QED
  BY <1>1, Invariance, PTL DEF Spec, FinalizedFirst

-----------------------------------------------------------------------------
(* What was reachable when a collection began *)

\* The program keeps no pointer in rbx, nor in the word that the scan of the
\* stack looks at last: when the registers are read, these are not data of the
\* program any more, and what they point to is marked in the wrong place.
InMemory == Holders \cap {rbx, lastStack} = {}

LEMMA InitLive == Init => LiveSound
<1> SUFFICES ASSUME Init PROVE LiveSound
  OBVIOUS
<1>1. phase = "user" /\ live = {} /\ \A r \in Places : place[r] = NULL
  BY DEF Init
<1> QED
  BY <1>1 DEF LiveSound, OnlyHolders, LiveKept, MarkingSound, SweepSound, Collecting

\* Pointers are put into words that hold pointers only.
LEMMA PutHolds ==
    ASSUME Sound, OnlyHolders, NEW r \in Holders, NEW v, place' = [place EXCEPT ![r] = v]
    PROVE  OnlyHolders'
BY Basics DEF OnlyHolders

LEMMA ReturnsHolds ==
    ASSUME Sound, OnlyHolders, NEW d \in Holders \cup {Discard}, NEW v, Returns(d, v)
    PROVE  OnlyHolders'
BY PutHolds DEF Returns, OnlyHolders

\* Steps that end outside a collection.
LEMMA OutsideLive ==
    ASSUME phase' \in {"user", "fault"}, live' = {}, OnlyHolders'
    PROVE  LiveSound'
BY DEF LiveSound, LiveKept, MarkingSound, SweepSound, Collecting

\* A step of the program.
LEMMA ProgramLive ==
    ASSUME Sound, LiveSound, phase = "user", phase' \in {"user", "fault"}, live' = live,
           \/ place' = place
           \/ \E r \in Holders : \E v : place' = [place EXCEPT ![r] = v]
    PROVE  LiveSound' /\ live = {}
<1>1. live = {} /\ OnlyHolders
  BY DEF LiveSound, LiveKept, Collecting
<1>2. OnlyHolders'
  BY <1>1, PutHolds DEF OnlyHolders
<1> QED
  BY <1>1, <1>2, OutsideLive

\* A collection begins.
LEMMA CollectsLive ==
    ASSUME Sound, LiveSound, NEW k, NEW f, NEW d, AllocateCollects(k, f, d)
    PROVE  LiveSound'
<1>1. /\ phase = "user" /\ phase' = "roots" /\ heapBasePtr = Base
      /\ before' = mem /\ live' = Reachable(mem, place) /\ mem' = mem /\ place' = place
  BY Basics DEF AllocateCollects
<1>2. mem \in Memory /\ IsRow(mem, Row(mem))
  BY <1>1, Basics
<1>3. live' \subseteq Blocks(mem)
  BY <1>1, ReachableBlocks
<1>4. Kept(mem, mem, live')
  BY <1>2, <1>3, RowOf DEF Kept
<1>5. LiveKept'
  BY <1>1, <1>2, <1>3, <1>4 DEF LiveKept, Collecting
<1>6. OnlyMarks(mem, mem)
  BY DEF OnlyMarks
<1>7. MarkingSound'
  BY <1>1, <1>6 DEF MarkingSound
<1>8. OnlyHolders' /\ SweepSound'
  BY <1>1 DEF LiveSound, OnlyHolders, SweepSound
<1> QED
  BY <1>5, <1>7, <1>8 DEF LiveSound

\* What differs in marks only still has the live blocks.
LEMMA MarksKeep ==
    ASSUME NEW m \in Memory, NEW old \in Memory, IsRow(old, Row(old)), NEW S \in SUBSET Blocks(old),
           OnlyMarks(m, old)
    PROVE  Kept(m, old, S)
<1> SUFFICES ASSUME NEW s \in S
             PROVE  /\ s \in Row(m) /\ m[s].alloc /\ m[s].val = old[s].val
                    /\ \A a \in s + 1 .. NextChunk(old, s) - 1 : m[a] = old[a]
  BY DEF Kept
<1>1. s \in Row(old) /\ old[s].alloc
  BY RowOf
<1>2. s \in Row(m) /\ m[s].alloc /\ m[s].val = old[s].val
  BY <1>1 DEF OnlyMarks
<1>3. ASSUME NEW a \in s + 1 .. NextChunk(old, s) - 1 PROVE m[a] = old[a]
  <2>1. a \in Addr \ Row(old)
    BY <1>1, DataWords
  <2> QED
    BY <2>1 DEF OnlyMarks
<1> QED
  BY <1>2, <1>3

\* Marking headers changes marks only.
LEMMA MarkingMarks ==
    ASSUME Sound, Collecting, NEW S, mem' = Marked(mem, S), UNCHANGED heapVars,
           \A a \in Addr \ Row(mem) : a \notin S, NEW old, OnlyMarks(mem, old)
    PROVE  OnlyMarks(mem', old)
<1>1. /\ Row(mem') = Row(mem)
      /\ \A s \in Row(mem) : mem'[s].val = mem[s].val /\ mem'[s].alloc = mem[s].alloc
      /\ \A a \in Addr : a \notin S => mem'[a] = mem[a]
  BY MarksKeepRow
<1> QED
  BY <1>1 DEF OnlyMarks

\* Marks are kept, blocks and pointers to them, too.
LEMMA MarkedPointers ==
    ASSUME Sound, Collecting, NEW S, mem' = Marked(mem, S), UNCHANGED heapVars
    PROVE  /\ Blocks(mem') = Blocks(mem)
           /\ \A v : Owner(mem', v) = Owner(mem, v)
           /\ \A v : checkIfValueIsAllocatedBlockAddr(mem', v)
                         = checkIfValueIsAllocatedBlockAddr(mem, v)
<1>1. mem \in Memory /\ IsRow(mem, Row(mem))
  BY Basics
<1>2. /\ mem' \in Memory /\ Row(mem') = Row(mem)
      /\ \A s \in Row(mem) : mem'[s].val = mem[s].val /\ mem'[s].alloc = mem[s].alloc
  BY MarksKeepRow
<1> QED
  BY <1>1, <1>2, SameBlocks

LEMMA MarksGrow ==
    ASSUME Sound, Collecting, NEW S, mem' = Marked(mem, S), UNCHANGED heapVars, NEW s \in Row(mem)
    PROVE  /\ mem[s].mark \/ s \in S => mem'[s].mark
           /\ mem'[s].mark => mem[s].mark \/ s \in S
           /\ NextChunk(mem', s) = NextChunk(mem, s)
<1>1. /\ mem'[s].mark = (mem[s].mark \/ s \in S)
      /\ NextChunk(mem', s) = NextChunk(mem, s)
  BY MarksKeepRow
<1> QED
  BY <1>1

\* A step of the marking phases.
LEMMA MarkingLive ==
    ASSUME Sound, LiveSound, phase \in {"roots", "registers", "heap"},
           phase' \in {"registers", "heap"}, UNCHANGED <<heapVars, place, before, live>>,
           mem' \in Memory, OnlyMarks(mem, before) => OnlyMarks(mem', before),
           RootsMarked(mem', place), phase' = "heap" => Scanned(mem', frames', at')
    PROVE  LiveSound'
<1>1. /\ before \in Memory /\ IsRow(before, Row(before)) /\ live \subseteq Blocks(before)
      /\ live = Reachable(before, place) /\ OnlyMarks(mem', before)
  BY DEF LiveSound, LiveKept, MarkingSound, Collecting
<1>2. Kept(mem', before, live)
  BY <1>1, MarksKeep
<1>3. LiveKept'
  BY <1>1, <1>2 DEF LiveKept, Collecting
<1>4. MarkingSound'
  BY <1>1 DEF MarkingSound
<1>5. OnlyHolders' /\ SweepSound'
  BY DEF LiveSound, OnlyHolders, SweepSound
<1> QED
  BY <1>3, <1>4, <1>5 DEF LiveSound

\* NULL belongs to no block.
LEMMA NullOwner ==
    ASSUME Sound, heapBasePtr = Base
    PROVE  Owner(mem, NULL) = {} /\ checkIfValueIsAllocatedBlockAddr(mem, NULL) = NULL
<1>1. mem \in Memory /\ IsRow(mem, Row(mem)) /\ NULL \in Nat /\ NULL < Base
  BY Basics, AllocAssumption DEF NULL
<1>2. ASSUME NEW s \in Owner(mem, NULL) PROVE FALSE
  <2>1. s \in Row(mem) /\ s + 2 <= NULL
    BY <1>1, <1>2, OwnerFound
  <2>2. s \in Int /\ Base <= s
    BY <2>1, <1>1, RowBounds
  <2> QED
    BY <2>1, <2>2, <1>1, AllocAssumption DEF NULL
<1>3. checkIfValueIsAllocatedBlockAddr(mem, NULL) = NULL
  BY <1>1 DEF checkIfValueIsAllocatedBlockAddr
<1> QED
  BY <1>2, <1>3

\* What the scan of the roots finds are headers.
LEMMA RootsFound ==
    ASSUME Sound, Collecting
    PROVE  /\ {checkIfValueIsAllocatedBlockAddr(mem, v) : v \in RootValues(place)} \ {NULL} \subseteq Row(mem)
           /\ \A v \in RootValues(place) : v \in Nat
<1>1. mem \in Memory /\ IsRow(mem, Row(mem)) /\ heapBasePtr = Base
  BY Basics
<1>2. \A v \in RootValues(place) : v \in Nat
  BY <1>1, Basics, AllocAssumption DEF RootValues, Places, NULL
<1> QED
  BY <1>1, <1>2, BlockFound

\* The headers of the blocks the roots point to are marked.
LEMMA RootsLive ==
    ASSUME InMemory, Sound, LiveSound, MarkRoots
    PROVE  LiveSound'
<1> DEFINE found == {checkIfValueIsAllocatedBlockAddr(mem, v) : v \in RootValues(place)}
<1>1. /\ phase = "roots" /\ phase' = "registers" /\ Collecting
      /\ UNCHANGED <<heapVars, place, at, frames, before, live>>
      /\ mem' = Marked(mem, found \ {NULL})
  BY DEF MarkRoots, Collect, Collecting, calls, history
<1>2. mem \in Memory /\ IsRow(mem, Row(mem)) /\ heapBasePtr = Base /\ mem' \in Memory
  BY <1>1, Basics, MarksKeepRow
<1>3. \A v \in RootValues(place) : v \in Nat
  BY <1>1, RootsFound
<1>4. found \ {NULL} \subseteq Row(mem)
  BY <1>1, RootsFound
<1>5. OnlyMarks(mem, before) => OnlyMarks(mem', before)
  BY <1>1, <1>4, MarkingMarks
<1>6. ASSUME NEW r \in Places, NEW s \in Owner(mem', place[r]) PROVE mem'[s].mark
  <2>1. s \in Owner(mem, place[r])
    BY <1>1, MarkedPointers
  <2>2. place[r] # NULL
    BY <2>1, <1>2, NullOwner
  <2>3. r \in Globals \cup Stack
    BY <2>2 DEF LiveSound, OnlyHolders, InMemory, Places
  <2>4. place[r] \in RootValues(place)
    BY <2>3 DEF RootValues
  <2>5. s \in Row(mem) /\ checkIfValueIsAllocatedBlockAddr(mem, place[r]) = s /\ s # NULL
    BY <2>1, <2>4, <1>2, <1>3, OwnerFound
  <2>6. s \in found \ {NULL}
    BY <2>4, <2>5
  <2> QED
    BY <2>5, <2>6, <1>1, MarksGrow
<1>7. RootsMarked(mem', place)
  BY <1>6 DEF RootsMarked
<1> QED
  BY <1>1, <1>2, <1>5, <1>7, MarkingLive

\* What the registers hold is NULL, but for the last chunk, which is free.
LEMMA RegistersFound ==
    ASSUME InMemory, Sound, LiveSound, Collecting
    PROVE  {v \in Registers : checkIfValueIsAllocatedBlockAddr(mem, v) # NULL} \subseteq Row(mem)
<1>1. mem \in Memory /\ IsRow(mem, Row(mem)) /\ heapBasePtr = Base
  BY Basics
<1>2. Max(Visited(mem)) \in Row(mem)
  <2>1. Visited(mem) = Row(mem)
    BY <1>1, RowOf
  <2>2. \A s \in Row(mem) : s \in 0 .. End
    BY <1>1, RowBounds, AllocAssumption DEF End
  <2>3. End \in Nat /\ Row(mem) # {}
    BY <1>1, AllocAssumption DEF End, IsRow
  <2> QED
    BY <2>1, <2>2, <2>3, MaxOf
<1>3. place[rbx] = NULL /\ place[lastStack] = NULL
  BY AllocAssumption DEF LiveSound, OnlyHolders, InMemory, Places
<1> QED
  BY <1>1, <1>2, <1>3, NullOwner DEF Registers

LEMMA RegistersLive ==
    ASSUME InMemory, Sound, LiveSound, checkAndMarkRegisters
    PROVE  LiveSound'
<1> DEFINE used == {v \in Registers : checkIfValueIsAllocatedBlockAddr(mem, v) # NULL}
<1>1. /\ phase = "registers" /\ phase' = "heap" /\ Collecting /\ at' = heapBasePtr
      /\ UNCHANGED <<heapVars, place, frames, before, live>>
      /\ mem' = Marked(mem, used)
  BY DEF checkAndMarkRegisters, Collect, Collecting, calls, history
<1>2. mem \in Memory /\ IsRow(mem, Row(mem)) /\ heapBasePtr = Base /\ mem' \in Memory
  BY <1>1, Basics, MarksKeepRow
<1>3. ASSUME NEW v \in used PROVE v \in Row(mem)
  BY <1>1, RegistersFound
<1>4. OnlyMarks(mem, before) => OnlyMarks(mem', before)
  BY <1>1, <1>3, MarkingMarks
<1>5. RootsMarked(mem, place)
  BY <1>1 DEF LiveSound, MarkingSound
<1>6. RootsMarked(mem', place)
  <2> SUFFICES ASSUME NEW r \in Places, NEW s \in Owner(mem', place[r]) PROVE mem'[s].mark
    BY DEF RootsMarked
  <2>1. s \in Owner(mem, place[r])
    BY <1>1, MarkedPointers
  <2>2. place[r] \in Nat
    BY Basics, AllocAssumption DEF NULL
  <2>3. s \in Row(mem) /\ mem[s].mark
    BY <2>1, <2>2, <1>5, Owned DEF RootsMarked
  <2> QED
    BY <2>3, <1>1, MarksGrow
<1>7. Scanned(mem', frames', at')
  <2>1. \A s \in Blocks(mem') : s >= Base
    <3>1. IsRow(mem', Row(mem'))
      BY <1>1, <1>2, MarksKeepRow, SameHeaders
    <3> QED
      BY <3>1, <1>2, RowOf, RowBounds
  <2> QED
    BY <2>1, <1>1, <1>2 DEF Scanned
<1> QED
  BY <1>1, <1>2, <1>4, <1>6, <1>7, MarkingLive

\* A step that leaves the heap as it is keeps the roots marked.
LEMMA HeapPhase ==
    ASSUME Sound, LiveSound, phase = "heap"
    PROVE  /\ Collecting /\ mem \in Memory /\ IsRow(mem, Row(mem)) /\ heapBasePtr = Base
           /\ Blocks(mem) = {s \in Row(mem) : mem[s].alloc}
           /\ RootsMarked(mem, place) /\ Scanned(mem, frames, at)
           /\ at \in Row(mem) \cup {End}
<1>1. Collecting
  BY DEF Collecting
<1>2. mem \in Memory /\ IsRow(mem, Row(mem)) /\ heapBasePtr = Base
  BY <1>1, Basics
<1> QED
  BY <1>1, <1>2, RowOf DEF LiveSound, MarkingSound, Sound, PositionSound

LEMMA TraverseLive ==
    ASSUME Sound, LiveSound, traverseAndMarkHeap
    PROVE  LiveSound'
<1>1. /\ phase = "heap" /\ phase' = "heap" /\ InHeap /\ frames = <<>>
      /\ frames' = IF mem[at].alloc /\ mem[at].mark THEN <<Call(at)>> ELSE <<>>
      /\ at' = NextChunk(mem, at) /\ mem' = mem
      /\ UNCHANGED <<heapVars, place, before, live>>
  BY DEF traverseAndMarkHeap, Collect, history
<1>2. /\ mem \in Memory /\ IsRow(mem, Row(mem))
      /\ Blocks(mem) = {s \in Row(mem) : mem[s].alloc}
      /\ RootsMarked(mem, place) /\ Scanned(mem, <<>>, at)
      /\ at \in Row(mem)
  BY <1>1, HeapPhase, NextPosition
<1>3. ASSUME NEW s \in Blocks(mem), mem[s].mark, ~(s >= NextChunk(mem, at)),
             NEW a \in s .. NextChunk(mem, s) - 1
      PROVE  Pending(frames', s, a) \/ Followed(mem, a)
  <2>1. s \in Row(mem) /\ mem[s].alloc /\ s \in Int /\ at \in Int
        /\ NextChunk(mem, s) \in Int /\ NextChunk(mem, at) \in Int
    BY <1>2, RowBounds
  <2>2. at < s => NextChunk(mem, at) <= s
    BY <2>1, <1>2 DEF IsRow
  <2>3. CASE s = at
    <3>1. frames' = <<Call(at)>>
      BY <2>1, <2>3, <1>1, <1>3
    <3>2. 1 \in DOMAIN frames' /\ frames'[1] = Call(at)
      BY <3>1
    <3>3. Call(at).chunk = s /\ Call(at).word <= a
      BY <2>1, <2>3 DEF Call
    <3> QED
      BY <3>2, <3>3 DEF Pending
  <2>4. CASE s # at
    <3>1. ~(s >= at)
      BY <2>1, <2>2, <2>4, <1>3
    <3>2. Pending(<<>>, s, a) \/ Followed(mem, a)
      BY <3>1, <1>2, <1>3 DEF Scanned
    <3>3. ~Pending(<<>>, s, a)
      BY DEF Pending
    <3> QED
      BY <3>2, <3>3
  <2> QED
    BY <2>3, <2>4
<1>4. Scanned(mem', frames', at')
  BY <1>1, <1>3 DEF Scanned
<1> QED
  BY <1>1, <1>2, <1>4, MarkingLive

\* A word that points to a marked block still does when more are marked.
LEMMA FollowedGrows ==
    ASSUME Sound, Collecting, NEW S, mem' = Marked(mem, S), UNCHANGED heapVars,
           NEW a \in Addr, Followed(mem, a) \/ BlockOf(mem, mem[a]) \in S
    PROVE  Followed(mem', a)
<1> DEFINE t == BlockOf(mem, mem[a])
<1>1. mem \in Memory /\ IsRow(mem, Row(mem))
  BY Basics
<1>2. /\ mem'[a].alloc = mem[a].alloc /\ mem'[a].val = mem[a].val
      /\ mem'[a].mark = (mem[a].mark \/ a \in S)
  BY <1>1, MarkedHeap
<1>3. mem[a].val \in Nat
  BY <1>1 DEF Memory, Word
<1>4. CASE mem'[a].alloc \/ mem'[a].mark
  BY <1>4 DEF Followed, BlockOf
<1>5. CASE ~mem'[a].alloc /\ ~mem'[a].mark
  <2>1. ~mem[a].alloc /\ ~mem[a].mark
    BY <1>2, <1>5
  <2>2. t = checkIfValueIsAllocatedBlockAddr(mem, mem[a].val)
    BY <2>1 DEF BlockOf
  <2>3. BlockOf(mem', mem'[a]) = t
    BY <2>2, <1>2, <1>5, MarkedPointers DEF BlockOf
  <2>4. CASE t = NULL
    BY <2>3, <2>4 DEF Followed
  <2>5. CASE t # NULL
    <3>1. t \in Row(mem)
      BY <2>2, <2>5, <1>1, <1>3, BlockFound
    <3>2. mem[t].mark \/ t \in S
      BY <2>5 DEF Followed
    <3>3. mem'[t].mark
      BY <3>1, <3>2, MarksGrow
    <3> QED
      BY <3>3, <2>3 DEF Followed
  <2> QED
    BY <2>4, <2>5
<1> QED
  BY <1>4, <1>5

\* What is ahead of the innermost call, and only that, is not followed yet.
LEMMA BehindFollowed ==
    ASSUME Sound, LiveSound, phase = "heap", frames # <<>>, NEW a \in Int,
           Innermost.word <= a, a < NextChunk(mem, Innermost.chunk), a \notin Ahead
    PROVE  Followed(mem, a)
<1>1. Innermost.word \in Int
  <2>1. Innermost \in Frame
    BY Basics DEF Innermost
  <2> QED
    BY <2>1, AllocAssumption DEF Frame, End
<1>2. mem \in Memory /\ IsRow(mem, Row(mem))
  BY HeapPhase
<1>3. Innermost.chunk \in Row(mem)
  <2>1. Len(frames) \in DOMAIN frames
    BY Basics
  <2> QED
    BY <2>1 DEF Sound, PositionSound, Innermost
<1>4. NextChunk(mem, Innermost.chunk) \in Int
  BY <1>2, <1>3, RowBounds
<1>5. a \in Innermost.word .. NextChunk(mem, Innermost.chunk) - 1
  BY <1>1, <1>4
<1> QED
  BY <1>5 DEF Ahead, Unfollowed, Followed

LEMMA RecurseLive ==
    ASSUME Sound, LiveSound, recurseAndMarkHeap
    PROVE  LiveSound'
<1> DEFINE w == Min(Ahead)
           b == BlockOf(mem, mem[w])
           moved == [frames EXCEPT ![Len(frames)].word = w + 1]
           last == Len(frames)
<1>1. /\ phase = "heap" /\ phase' = "heap" /\ Collecting
      /\ frames # <<>> /\ Ahead # {}
      /\ mem' = Marked(mem, {b}) /\ frames' = Append(moved, Call(b))
      /\ UNCHANGED <<heapVars, place, at, before, live>>
  BY DEF recurseAndMarkHeap, Collect, Collecting, history
<1>2. /\ mem \in Memory /\ IsRow(mem, Row(mem))
      /\ Blocks(mem) = {s \in Row(mem) : mem[s].alloc}
      /\ RootsMarked(mem, place) /\ Scanned(mem, frames, at)
      /\ Row(mem) \subseteq Addr
  BY <1>1, HeapPhase DEF IsRow
<1>3. /\ w \in Ahead /\ w \in Int /\ \A u \in Ahead : w <= u
      /\ b \in Row(mem) /\ mem[b].alloc
  BY <1>1, AheadFound
<1>4. mem' \in Memory /\ (OnlyMarks(mem, before) => OnlyMarks(mem', before))
  <2>1. mem' \in Memory
    BY <1>1, MarksKeepRow
  <2>2. \A a \in Addr \ Row(mem) : a \notin {b}
    BY <1>3
  <2>3. OnlyMarks(mem, before) => OnlyMarks(mem', before)
    BY <1>1, <2>2, MarkingMarks
  <2> QED
    BY <2>1, <2>3
<1>5. RootsMarked(mem', place)
  <2> SUFFICES ASSUME NEW r \in Places, NEW s \in Owner(mem', place[r]) PROVE mem'[s].mark
    BY DEF RootsMarked
  <2>1. s \in Owner(mem, place[r])
    BY <1>1, MarkedPointers
  <2>2. place[r] \in Nat
    BY Basics, AllocAssumption DEF NULL
  <2>3. s \in Row(mem) /\ mem[s].mark
    BY <2>1, <2>2, <1>2, Owned DEF RootsMarked
  <2> QED
    BY <2>3, <1>1, MarksGrow
<1>6. /\ moved \in Seq(Frame) /\ Len(moved) = last /\ last \in Nat /\ last > 0
      /\ \A k \in DOMAIN frames :
             /\ k \in DOMAIN moved /\ moved[k].chunk = frames[k].chunk
             /\ k # last => moved[k] = frames[k]
  <2>1. frames \in Seq(Frame) /\ last \in DOMAIN frames
    BY <1>1, Basics
  <2>2. frames[last] \in Frame
    BY <2>1
  <2>3. moved = [frames EXCEPT ![last] = [frames[last] EXCEPT !.word = w + 1]]
    OBVIOUS
  <2>4. /\ [frames[last] EXCEPT !.word = w + 1].chunk = frames[last].chunk
        /\ [frames[last] EXCEPT !.word = w + 1] \in Frame
    BY <2>2, <1>1, AheadFound DEF Frame
  <2> QED
    BY <2>1, <2>3, <2>4
<1>7. moved[last].word = w + 1
  <2>1. last \in DOMAIN frames /\ frames[last] \in Frame
    BY <1>1, Basics
  <2> QED
    BY <2>1 DEF Frame
<1>8. /\ \A k \in DOMAIN frames : k \in DOMAIN frames' /\ frames'[k] = moved[k]
      /\ last + 1 \in DOMAIN frames' /\ frames'[last + 1] = Call(b)
  <2> HIDE DEF moved, b
  <2>1. DOMAIN frames = 1 .. last
    BY Basics
  <2>2. DOMAIN frames' = 1 .. last + 1 /\ frames'[last + 1] = Call(b)
    BY <1>1, <1>6
  <2>3. \A k \in 1 .. last : frames'[k] = moved[k]
    BY <1>1, <1>6
  <2> QED
    BY <2>1, <2>2, <2>3, <1>6
<1>9. ASSUME NEW s \in Blocks(mem'), mem'[s].mark, ~(s >= at),
             NEW a \in s .. NextChunk(mem', s) - 1
      PROVE  Pending(frames', s, a) \/ Followed(mem', a)
  <2>1. s \in Row(mem) /\ mem[s].alloc /\ NextChunk(mem', s) = NextChunk(mem, s) /\ s \in Blocks(mem)
    BY <1>1, <1>2, MarkedPointers, MarksGrow
  <2>2. s \in Int /\ NextChunk(mem, s) \in Int /\ Base <= s /\ NextChunk(mem, s) <= End
    BY <2>1, <1>2, RowBounds
  <2>3. a \in Int /\ s <= a /\ a < NextChunk(mem, s) /\ a \in Addr
    BY <2>1, <2>2, AllocAssumption DEF Addr, End
  <2>4. CASE s = b
    <3>1. Call(b).chunk = s /\ Call(b).word <= a
      BY <2>3, <2>4 DEF Call
    <3> QED
      BY <3>1, <1>8 DEF Pending
  <2>5. CASE s # b
    <3>1. mem[s].mark
      <4>1. mem[s].mark \/ s \in {b}
        BY <2>1, <1>1, <1>9, MarksGrow
      <4> QED
        BY <4>1, <2>5
    <3>2. Pending(frames, s, a) \/ Followed(mem, a)
      BY <3>1, <2>1, <2>3, <1>2, <1>9 DEF Scanned
    <3>3. CASE Followed(mem, a)
      BY <3>3, <2>3, <1>1, FollowedGrows
    <3>4. CASE Pending(frames, s, a)
      <4>1. PICK k \in DOMAIN frames : frames[k].chunk = s /\ frames[k].word <= a
        BY <3>4 DEF Pending
      <4>2. CASE k # last
        BY <4>1, <4>2, <1>6, <1>8 DEF Pending
      <4>3. CASE k = last /\ w < a
        <5>1. frames'[k].chunk = s /\ frames'[k].word <= a
          <6>1. frames'[k] = moved[k] /\ moved[k].chunk = s
            BY <4>1, <1>6, <1>8
          <6>2. moved[k].word = w + 1
            BY <4>3, <1>7
          <6>3. w + 1 <= a
            BY <4>3, <2>3, <1>3
          <6> QED
            BY <6>1, <6>2, <6>3
        <5> QED
          BY <5>1, <4>1, <1>8 DEF Pending
      <4>4. CASE k = last /\ a = w
        <5>1. BlockOf(mem, mem[a]) \in {b}
          BY <4>4
        <5> QED
          BY <5>1, <2>3, <1>1, FollowedGrows
      <4>5. CASE k = last /\ a < w
        <5>1. a \notin Ahead
          BY <4>5, <2>3, <1>3
        <5>2. Innermost.chunk = s /\ Innermost.word <= a
          BY <4>1, <4>5 DEF Innermost
        <5>3. Followed(mem, a)
          BY <5>1, <5>2, <2>3, <1>1, BehindFollowed
        <5> QED
          BY <5>3, <2>3, <1>1, FollowedGrows
      <4> QED
        BY <4>2, <4>3, <4>4, <4>5, <2>3, <1>3
    <3> QED
      BY <3>2, <3>3, <3>4
  <2> QED
    BY <2>4, <2>5
<1>10. Scanned(mem', frames', at')
  BY <1>1, <1>9 DEF Scanned
<1> QED
  BY <1>1, <1>4, <1>5, <1>10, MarkingLive

LEMMA ReturnLive ==
    ASSUME Sound, LiveSound, RecursionReturns
    PROVE  LiveSound'
<1> DEFINE last == Len(frames)
<1>1. /\ phase = "heap" /\ phase' = "heap" /\ frames # <<>> /\ Ahead = {}
      /\ mem' = mem /\ frames' = SubSeq(frames, 1, last - 1)
      /\ UNCHANGED <<heapVars, place, at, before, live>>
  BY DEF RecursionReturns, Collect, history
<1>2. /\ mem \in Memory /\ IsRow(mem, Row(mem))
      /\ Blocks(mem) = {s \in Row(mem) : mem[s].alloc}
      /\ RootsMarked(mem, place) /\ Scanned(mem, frames, at)
  BY <1>1, HeapPhase
<1>3. \A k \in DOMAIN frames : k # last => k \in DOMAIN frames' /\ frames'[k] = frames[k]
  <2>1. frames \in Seq(Frame)
    BY Basics
  <2> QED
    BY <2>1, <1>1
<1>4. ASSUME NEW s \in Blocks(mem), mem[s].mark, ~(s >= at), NEW a \in s .. NextChunk(mem, s) - 1
      PROVE  Pending(frames', s, a) \/ Followed(mem, a)
  <2>1. Pending(frames, s, a) \/ Followed(mem, a)
    BY <1>2, <1>4 DEF Scanned
  <2>2. CASE Pending(frames, s, a)
    <3>1. PICK k \in DOMAIN frames : frames[k].chunk = s /\ frames[k].word <= a
      BY <2>2 DEF Pending
    <3>2. CASE k # last
      BY <3>1, <3>2, <1>3 DEF Pending
    <3>3. CASE k = last
      <4>1. Innermost.chunk = s /\ Innermost.word <= a
        BY <3>1, <3>3 DEF Innermost
      <4>2. a \in Int /\ a < NextChunk(mem, s)
        BY <1>2, RowBounds
      <4> QED
        BY <4>1, <4>2, <1>1, BehindFollowed
    <3> QED
      BY <3>2, <3>3
  <2> QED
    BY <2>1, <2>2
<1>5. Scanned(mem', frames', at')
  BY <1>1, <1>4 DEF Scanned
<1> QED
  BY <1>1, <1>2, <1>5, MarkingLive

\* When everything marked has been scanned, the marked blocks are closed.
LEMMA MarkedAreClosed ==
    ASSUME Sound, LiveSound, phase = "heap", frames = <<>>, ~InHeap
    PROVE  LET M == {s \in Blocks(mem) : mem[s].mark}
           IN  /\ M \subseteq Blocks(before)
               /\ \A s \in M : \A a \in Data(before, s) : Pointees(before, before[a]) \subseteq M
<1> DEFINE M == {s \in Blocks(mem) : mem[s].mark}
<1>1. Collecting
  BY DEF Collecting
<1>2. /\ mem \in Memory /\ IsRow(mem, Row(mem))
      /\ Blocks(mem) = {s \in Row(mem) : mem[s].alloc}
      /\ Scanned(mem, <<>>, at)
      /\ at \in Row(mem) \cup {End}
  BY HeapPhase
<1>3. before \in Memory /\ IsRow(before, Row(before)) /\ OnlyMarks(mem, before)
  BY <1>1 DEF LiveSound, LiveKept, MarkingSound
<1>4. /\ Row(mem) = Row(before)
      /\ \A s \in Row(before) : mem[s].alloc = before[s].alloc /\ mem[s].val = before[s].val
      /\ \A a \in Addr \ Row(before) : mem[a] = before[a]
  BY <1>3 DEF OnlyMarks
<1>5. /\ Blocks(mem) = Blocks(before)
      /\ \A s \in Row(before) : NextChunk(mem, s) = NextChunk(before, s)
      /\ \A v : Owner(mem, v) = Owner(before, v)
  BY <1>2, <1>3, <1>4, SameBlocks
<1>6. ASSUME NEW s \in M, NEW a \in Data(before, s), NEW t \in Pointees(before, before[a])
      PROVE  t \in M
  <2>1. s \in Row(before) /\ mem[s].mark /\ s \in Blocks(mem)
    BY <1>2, <1>4
  <2>2. /\ s \in Int /\ NextChunk(before, s) \in Int /\ s <= Base + Space - 1
        /\ Base <= s /\ NextChunk(before, s) <= End
    BY <2>1, <1>3, RowBounds
  <2>3. a \in s + 1 .. NextChunk(before, s) - 1 /\ a \in s .. NextChunk(mem, s) - 1
    BY <2>1, <2>2, <1>5 DEF Data
  <2>4. a \in Addr \ Row(before)
    BY <2>1, <2>3, <1>3, DataWords
  <2>5. mem[a] = before[a] /\ mem[a].val \in Nat
    BY <2>4, <1>2, <1>4 DEF Memory, Word
  <2>6. ~(s >= at)
    <3>1. at = End
      BY <1>2, RowBounds, AllocAssumption DEF InHeap
    <3> QED
      BY <3>1, <2>2, AllocAssumption DEF End
  <2>7. Pending(<<>>, s, a) \/ Followed(mem, a)
    BY <2>1, <2>3, <2>6, <1>2 DEF Scanned
  <2>8. Followed(mem, a)
    BY <2>7 DEF Pending
  <2>9. ~mem[a].alloc /\ ~mem[a].mark /\ t \in Owner(mem, mem[a].val)
    BY <2>5, <1>5, <1>6 DEF Pointees
  <2>10. checkIfValueIsAllocatedBlockAddr(mem, mem[a].val) = t /\ t # NULL
    BY <2>5, <2>9, <1>2, OwnerFound
  <2>11. BlockOf(mem, mem[a]) = t
    BY <2>9, <2>10 DEF BlockOf
  <2>12. mem[t].mark
    BY <2>8, <2>10, <2>11 DEF Followed
  <2>13. t \in Blocks(mem)
    BY <2>9 DEF Owner
  <2> QED
    BY <2>12, <2>13
<1> QED
  BY <1>5, <1>6

\* They hold whatever was reachable.
LEMMA MarkingEndsLive ==
    ASSUME Sound, LiveSound, MarkingEnds
    PROVE  LiveSound'
<1> DEFINE M == {s \in Blocks(mem) : mem[s].mark}
           S == UNION {Owner(before, place[r]) : r \in Places}
<1>1. /\ phase = "heap" /\ phase' = "sweep" /\ Collecting /\ at' = heapBasePtr
      /\ mem' = mem /\ frames = <<>> /\ ~InHeap
      /\ UNCHANGED <<heapVars, place, before, live>>
  BY DEF MarkingEnds, Collect, Collecting, calls, history
<1>2. mem \in Memory /\ IsRow(mem, Row(mem)) /\ RootsMarked(mem, place)
  BY <1>1, HeapPhase
<1>3. /\ before \in Memory /\ IsRow(before, Row(before)) /\ live \subseteq Blocks(before)
      /\ live = Reachable(before, place) /\ OnlyMarks(mem, before) /\ Kept(mem, before, live)
  BY <1>1 DEF LiveSound, LiveKept, MarkingSound
<1>4. \A v : Owner(mem, v) = Owner(before, v)
  BY <1>2, <1>3, SameBlocks DEF OnlyMarks
<1>5. /\ M \subseteq Blocks(before)
      /\ \A s \in M : \A a \in Data(before, s) : Pointees(before, before[a]) \subseteq M
  BY <1>1, MarkedAreClosed
<1>6. S \subseteq M
  <2> SUFFICES ASSUME NEW r \in Places, NEW s \in Owner(before, place[r]) PROVE s \in M
    OBVIOUS
  <2>1. s \in Owner(mem, place[r])
    BY <1>4
  <2> QED
    BY <2>1, <1>2 DEF RootsMarked, Owner
<1>7. M \in ClosedSets(before, S)
  BY <1>5, <1>6 DEF ClosedSets
<1>8. live \subseteq M
  BY <1>3, <1>7, ReachableBlocks
<1>9. SweepSound'
  BY <1>1, <1>8 DEF SweepSound
<1>10. OnlyHolders' /\ LiveKept' /\ MarkingSound'
  BY <1>1, <1>3 DEF LiveSound, OnlyHolders, LiveKept, MarkingSound, Collecting
<1> QED
  BY <1>9, <1>10 DEF LiveSound

\* A step behind the marking, which leaves the live blocks as they are.
LEMMA SweepingLive ==
    ASSUME Sound, LiveSound, phase \in {"sweep", "finalizing", "consolidate"},
           phase' \in {"sweep", "finalizing", "consolidate", "retry", "exited"},
           UNCHANGED <<before, live>>, Kept(mem', before, live), OnlyHolders', SweepSound'
    PROVE  LiveSound'
<1>1. /\ before \in Memory /\ IsRow(before, Row(before)) /\ live \subseteq Blocks(before)
  BY DEF LiveSound, LiveKept, Collecting
<1>2. LiveKept'
  BY <1>1 DEF LiveKept, Collecting
<1>3. MarkingSound'
  BY DEF MarkingSound
<1> QED
  BY <1>2, <1>3 DEF LiveSound

\* The data of a live block are words of its chunk, not headers.
LEMMA LiveWords ==
    ASSUME Sound, LiveSound, Collecting, NEW s \in live
    PROVE  /\ mem \in Memory /\ IsRow(mem, Row(mem)) /\ heapBasePtr = Base
           /\ s \in Row(mem) /\ s \in Addr /\ mem[s].alloc /\ mem[s].val = before[s].val
           /\ NextChunk(before, s) = NextChunk(mem, s)
           /\ \A a \in s + 1 .. NextChunk(before, s) - 1 : a \in Addr \ Row(mem) /\ mem[a] = before[a]
<1>1. mem \in Memory /\ IsRow(mem, Row(mem)) /\ heapBasePtr = Base
  BY Basics
<1>2. /\ s \in Row(mem) /\ mem[s].alloc /\ mem[s].val = before[s].val
      /\ \A a \in s + 1 .. NextChunk(before, s) - 1 : mem[a] = before[a]
  BY DEF LiveSound, LiveKept, Kept
<1>3. NextChunk(before, s) = NextChunk(mem, s)
  BY <1>2 DEF NextChunk
<1> QED
  BY <1>1, <1>2, <1>3, DataWords DEF IsRow

\* A mark taken from a live block, or a block freed that is not, leaves it so.
LEMMA RoundKeeps ==
    ASSUME Sound, LiveSound, phase \in {"sweep", "finalizing"}, InHeap,
           mem' = mem \/ mem' = Unmarked(mem, at) \/ (mem' = Freed(mem, at) /\ at \notin live)
    PROVE  Kept(mem', before, live)
<1>1. /\ Collecting /\ mem \in Memory /\ IsRow(mem, Row(mem)) /\ heapBasePtr = Base
      /\ at \in Row(mem) /\ at \in Addr /\ Row(mem) \subseteq Addr
  BY SweepPosition
<1>2. /\ mem' \in Memory /\ \A a \in Addr \ {at} : mem'[a] = mem[a]
      /\ \A s \in Row(mem) : mem'[s].val = mem[s].val
      /\ \A s \in Row(mem) : mem'[s].alloc => mem[s].alloc
      /\ at \in live => mem'[at].alloc
  <2>1. CASE mem' = mem
    BY <2>1, <1>1, LiveWords
  <2>2. CASE mem' = Unmarked(mem, at)
    <3>1. at \in live => mem[at].alloc
      BY <1>1, LiveWords
    <3>2. \A s \in Row(mem) : mem'[s].alloc = mem[s].alloc
      BY <2>2, <1>1, UnmarkedHeader
    <3> QED
      BY <3>1, <3>2, <2>2, <1>1, UnmarkedHeader
  <2>3. CASE mem' = Freed(mem, at) /\ at \notin live
    BY <2>3, <1>1, FreedHeader
  <2> QED
    BY <2>1, <2>2, <2>3
<1>3. Row(mem') = Row(mem)
  BY <1>1, <1>2, SameRow, RowOf
<1> SUFFICES ASSUME NEW s \in live
             PROVE  /\ s \in Row(mem') /\ mem'[s].alloc /\ mem'[s].val = before[s].val
                    /\ \A a \in s + 1 .. NextChunk(before, s) - 1 : mem'[a] = before[a]
  BY DEF Kept
<1>4. /\ s \in Row(mem) /\ s \in Addr /\ mem[s].alloc /\ mem[s].val = before[s].val
      /\ \A a \in s + 1 .. NextChunk(before, s) - 1 : a \in Addr \ Row(mem) /\ mem[a] = before[a]
  BY <1>1, LiveWords
<1>5. mem'[s].alloc
  <2>1. CASE s = at
    BY <2>1, <1>2
  <2>2. CASE s # at
    BY <2>2, <1>2, <1>4
  <2> QED
    BY <2>1, <2>2
<1>6. mem'[s].val = before[s].val
  BY <1>2, <1>4
<1>7. \A a \in s + 1 .. NextChunk(before, s) - 1 : mem'[a] = before[a]
  BY <1>1, <1>2, <1>4
<1> QED
  BY <1>3, <1>4, <1>5, <1>6, <1>7

\* A round of sweep, done with the chunk it stands on.
LEMMA RoundLive ==
    ASSUME Sound, LiveSound, phase \in {"sweep", "finalizing"}, InHeap, phase' = "sweep",
           mem' = mem \/ mem' = Unmarked(mem, at) \/ (mem' = Freed(mem, at) /\ at \notin live),
           at' = NextChunk(mem, at), UNCHANGED <<before, live>>, OnlyHolders'
    PROVE  LiveSound'
<1>1. /\ Collecting /\ mem \in Memory /\ IsRow(mem, Row(mem))
      /\ at \in Row(mem) /\ at \in Addr /\ Row(mem) \subseteq Addr
  BY SweepPosition
<1>2. \A a \in Addr \ {at} : mem'[a] = mem[a]
  <2>1. CASE mem' = mem
    BY <2>1
  <2>2. CASE mem' = Unmarked(mem, at)
    BY <2>2, <1>1, UnmarkedHeader
  <2>3. CASE mem' = Freed(mem, at)
    BY <2>3, <1>1, FreedHeader
  <2> QED
    BY <2>1, <2>2, <2>3
<1>3. ASSUME NEW s \in live, s >= NextChunk(mem, at) PROVE mem'[s].mark
  <2>1. /\ at \in Int /\ NextChunk(mem, at) \in Int /\ at < NextChunk(mem, at)
    BY <1>1, RowBounds
  <2>2. s \in Addr /\ s \in Int
    BY <1>1, LiveWords, AllocAssumption DEF Addr
  <2>3. s # at /\ s >= at
    BY <2>1, <2>2, <1>3
  <2>4. mem[s].mark
    BY <2>3 DEF LiveSound, SweepSound
  <2> QED
    BY <2>2, <2>3, <2>4, <1>2
<1>4. SweepSound'
  BY <1>3 DEF SweepSound
<1>5. Kept(mem', before, live)
  BY RoundKeeps
<1> QED
  BY <1>4, <1>5, SweepingLive

LEMMA KeepsLive == Sound /\ LiveSound /\ SweepKeeps => LiveSound'
<1> SUFFICES ASSUME Sound, LiveSound, SweepKeeps PROVE LiveSound'
  OBVIOUS
<1>1. /\ phase = "sweep" /\ phase' = "sweep" /\ InHeap /\ at' = NextChunk(mem, at)
      /\ mem' = mem \/ mem' = Unmarked(mem, at)
      /\ UNCHANGED <<place, before, live>>
  BY DEF SweepKeeps, Collect, history
<1>2. OnlyHolders'
  BY <1>1 DEF LiveSound, OnlyHolders
<1> QED
  BY <1>1, <1>2, RoundLive

\* What sweep finds unmarked was not reachable.
LEMMA UnmarkedDead ==
    ASSUME Sound, LiveSound, phase \in {"sweep", "finalizing"}, InHeap, ~mem[at].mark
    PROVE  at \notin live
<1>1. at \in Row(mem) /\ mem \in Memory /\ IsRow(mem, Row(mem))
  BY SweepPosition
<1>2. at \in Int
  BY <1>1, RowBounds
<1> QED
  BY <1>2 DEF LiveSound, SweepSound

LEMMA FreesLive == Sound /\ LiveSound /\ SweepFrees => LiveSound'
<1> SUFFICES ASSUME Sound, LiveSound, SweepFrees PROVE LiveSound'
  OBVIOUS
<1>1. /\ phase = "sweep" /\ phase' = "sweep" /\ InHeap /\ at' = NextChunk(mem, at)
      /\ ~mem[at].mark /\ mem' = Freed(mem, at)
      /\ UNCHANGED <<place, before, live>>
  BY DEF SweepFrees, Collect, Unreachable, history
<1>2. OnlyHolders' /\ at \notin live
  BY <1>1, UnmarkedDead DEF LiveSound, OnlyHolders
<1> QED
  BY <1>1, <1>2, RoundLive

LEMMA FinalizerLive == Sound /\ LiveSound /\ FinalizerReturns => LiveSound'
<1> SUFFICES ASSUME Sound, LiveSound, FinalizerReturns PROVE LiveSound'
  OBVIOUS
<1>1. /\ phase = "finalizing" /\ phase' = "sweep" /\ at' = NextChunk(mem, at)
      /\ mem' = Freed(mem, at) /\ UNCHANGED <<before, live>>
      /\ (\E g \in Globals \cap Holders : place' = [place EXCEPT ![g] = at + 2]) \/ place' = place
  BY DEF FinalizerReturns, Collect, history
<1>2. InHeap /\ ~mem[at].mark
  BY <1>1, FinalizingPosition DEF Sound, PositionSound
<1>3. at \notin live
  BY <1>1, <1>2, UnmarkedDead
<1>4. OnlyHolders'
  <2>1. CASE place' = place
    BY <2>1 DEF LiveSound, OnlyHolders
  <2>2. ASSUME NEW g \in Globals \cap Holders, place' = [place EXCEPT ![g] = at + 2]
        PROVE  OnlyHolders'
    BY <2>2, PutHolds DEF LiveSound
  <2> QED
    BY <1>1, <2>1, <2>2
<1> QED
  BY <1>1, <1>2, <1>3, <1>4, RoundLive

\* Steps that leave the heap as it is.
LEMMA RestLive ==
    ASSUME Sound, LiveSound,
           callDestructor \/ AllocateInFinalizer \/ SweepEnds \/ ConsolidateSkips \/ ConsolidateEnds
    PROVE  LiveSound'
<1>1. /\ phase \in {"sweep", "finalizing", "consolidate"}
      /\ phase' \in {"finalizing", "exited", "consolidate", "retry"}
      /\ phase' = "finalizing" => phase = "sweep" /\ at' = at
      /\ UNCHANGED <<mem, place, before, live>>
  BY DEF callDestructor, AllocateInFinalizer, SweepEnds, ConsolidateSkips, ConsolidateEnds,
         Collect, history
<1>2. Kept(mem', before, live)
  BY <1>1 DEF LiveSound, LiveKept, Collecting
<1>3. OnlyHolders'
  BY <1>1 DEF LiveSound, OnlyHolders
<1>4. SweepSound'
  BY <1>1 DEF LiveSound, SweepSound
<1> QED
  BY <1>1, <1>2, <1>3, <1>4, SweepingLive

\* Only free chunks are merged.
LEMMA MergesLive == Sound /\ LiveSound /\ ConsolidateMerges => LiveSound'
<1> SUFFICES ASSUME Sound, LiveSound, ConsolidateMerges PROVE LiveSound'
  OBVIOUS
<1>1. /\ phase = "consolidate" /\ phase' = "consolidate" /\ Collecting
      /\ UNCHANGED <<place, before, live>>
  BY DEF ConsolidateMerges, Collect, Collecting, history
<1>2. /\ at \in Row(mem) /\ ~mem[at].alloc /\ ~mem[NextChunk(mem, at)].alloc
      /\ Row(mem') = Row(mem) \ {NextChunk(mem, at)}
      /\ \A a \in Addr \ {at} : mem'[a] = mem[a]
  BY Merges
<1>3. ASSUME NEW s \in live
      PROVE  /\ s \in Row(mem') /\ mem'[s].alloc /\ mem'[s].val = before[s].val
             /\ \A a \in s + 1 .. NextChunk(before, s) - 1 : mem'[a] = before[a]
  <2>1. /\ s \in Row(mem) /\ s \in Addr /\ mem[s].alloc /\ mem[s].val = before[s].val
        /\ \A a \in s + 1 .. NextChunk(before, s) - 1 : a \in Addr \ Row(mem) /\ mem[a] = before[a]
    BY <1>1, LiveWords
  <2>2. s # at /\ s # NextChunk(mem, at)
    BY <2>1, <1>2
  <2>3. mem'[s] = mem[s]
    BY <2>1, <2>2, <1>2
  <2>4. \A a \in s + 1 .. NextChunk(before, s) - 1 : mem'[a] = before[a]
    BY <2>1, <1>2
  <2> QED
    BY <2>1, <2>2, <2>3, <2>4, <1>2
<1>4. Kept(mem', before, live)
  BY <1>3 DEF Kept
<1>5. OnlyHolders' /\ SweepSound'
  BY <1>1 DEF LiveSound, OnlyHolders, SweepSound
<1> QED
  BY <1>1, <1>4, <1>5, SweepingLive

LEMMA RetryLive == Sound /\ LiveSound /\ RetryAfterCollection => LiveSound'
<1> SUFFICES ASSUME Sound, LiveSound, RetryAfterCollection PROVE LiveSound'
  OBVIOUS
<1>1. phase = "retry" /\ phase' = "user" /\ live' = {} /\ \E v : Returns(request.dest, v)
  BY DEF RetryAfterCollection, Collect
<1>2. request.dest \in Holders \cup {Discard}
  BY <1>1 DEF Sound, RequestSound, Collecting
<1>3. OnlyHolders'
  BY <1>1, <1>2, ReturnsHolds DEF LiveSound
<1> QED
  BY <1>1, <1>3, OutsideLive

\* What the program and memAllocate do without a collection.
ProgramStep ==
    \/ memInitialize
    \/ \E d \in Holders \cup {Discard} :
           \/ AllocateUninitialized(d)
           \/ \E n \in Sizes, f \in Finalizers : AllocateFits(n, f, d)
    \/ AllocateAtNull
    \/ \E r \in Holders, v \in Values : Assign(r, v)
    \/ \E a \in Addr, v \in Values : Store(a, v)

LEMMA ProgramStepLive == Sound /\ LiveSound /\ ProgramStep => LiveSound' /\ live = {}
<1> SUFFICES ASSUME Sound, LiveSound, ProgramStep PROVE LiveSound' /\ live = {}
  OBVIOUS
<1>1. phase = "user" /\ phase' \in {"user", "fault"} /\ live' = live
  BY DEF ProgramStep, memInitialize, AllocateUninitialized, AllocateFits, AllocateAtNull,
         Assign, Store, history
<1>2. \/ place' = place
      \/ \E r \in Holders : \E v : place' = [place EXCEPT ![r] = v]
  BY <1>1 DEF ProgramStep, memInitialize, AllocateUninitialized, AllocateFits,
     AllocateAtNull, Assign, Store, Returns
<1> QED
  BY <1>1, <1>2, ProgramLive

\* The steps of a collection but its last.
CollectorStep ==
    \/ MarkRoots \/ checkAndMarkRegisters
    \/ traverseAndMarkHeap \/ recurseAndMarkHeap \/ RecursionReturns \/ MarkingEnds
    \/ SweepKeeps \/ SweepFrees \/ callDestructor \/ FinalizerReturns \/ AllocateInFinalizer
    \/ SweepEnds \/ ConsolidateSkips \/ ConsolidateMerges \/ ConsolidateEnds

LEMMA NextIs ==
    Next <=> \/ ProgramStep
             \/ \E d \in Holders \cup {Discard}, n \in Sizes, f \in Finalizers :
                    AllocateCollects(n, f, d)
             \/ CollectorStep
             \/ RetryAfterCollection
BY DEF Next, ProgramStep, CollectorStep, collectGarbage

LEMMA CollectorStepLive ==
    ASSUME InMemory, Sound, LiveSound, CollectorStep
    PROVE  LiveSound'
BY RootsLive, RegistersLive, TraverseLive, RecurseLive, ReturnLive, MarkingEndsLive, KeepsLive,
   FreesLive, FinalizerLive, RestLive, MergesLive DEF CollectorStep

LEMMA NextLive ==
    ASSUME InMemory, Sound, LiveSound, [Next]_vars
    PROVE  LiveSound'
<1>1. CASE ProgramStep
  BY <1>1, ProgramStepLive
<1>2. ASSUME NEW d \in Holders \cup {Discard}, NEW n \in Sizes, NEW f \in Finalizers,
             AllocateCollects(n, f, d)
      PROVE  LiveSound'
  BY <1>2, CollectsLive
<1>3. CASE CollectorStep
  BY <1>3, CollectorStepLive
<1>4. CASE RetryAfterCollection
  BY <1>4, RetryLive
<1>5. CASE UNCHANGED vars
  BY <1>5 DEF vars, LiveSound, OnlyHolders, LiveKept, MarkingSound, SweepSound, Collecting
<1> QED
  BY <1>1, <1>2, <1>3, <1>4, <1>5, NextIs

\* In a collection nothing but the collector runs, and it changes neither the
\* record of what was reachable nor what that was.
LEMMA CollectorStepKeeps ==
    ASSUME InMemory, Sound, LiveSound, CollectorStep
    PROVE  /\ Collecting /\ Collecting' /\ UNCHANGED <<before, live>>
           /\ Kept(mem', before, live)
<1>1. /\ Collecting /\ Collecting' /\ UNCHANGED <<before, live>>
  BY DEF CollectorStep, MarkRoots, checkAndMarkRegisters, traverseAndMarkHeap,
         recurseAndMarkHeap, RecursionReturns, MarkingEnds, SweepKeeps, SweepFrees,
         callDestructor, FinalizerReturns, AllocateInFinalizer, SweepEnds, ConsolidateSkips,
         ConsolidateMerges, ConsolidateEnds, Collect, Collecting, history
<1>2. LiveSound'
  BY CollectorStepLive
<1> QED
  BY <1>1, <1>2 DEF LiveSound, LiveKept

\* The allocation behind a collection takes none of the live blocks' words.
LEMMA RetryKeeps ==
    ASSUME Sound, Sound', LiveSound, RetryAfterCollection, NEW s \in live
    PROVE  /\ mem'[s].alloc /\ mem'[s].val = before[s].val
           /\ \A a \in s + 1 .. NextChunk(before, s) - 1 : mem'[a] = before[a]
<1>1. Collecting
  BY DEF RetryAfterCollection, Collect, Collecting
<1>2. /\ mem \in Memory /\ IsRow(mem, Row(mem)) /\ heapBasePtr = Base
      /\ s \in Row(mem) /\ mem[s].alloc /\ mem[s].val = before[s].val
      /\ NextChunk(before, s) = NextChunk(mem, s)
      /\ \A a \in s + 1 .. NextChunk(before, s) - 1 : mem[a] = before[a]
  BY <1>1, LiveWords
<1>3. CASE Takes
  <2>1. \A a \in s .. NextChunk(mem, s) - 1 : mem'[a] = mem[a]
    BY <1>2, <1>3, BlocksAre, TakesKeeps
  <2>2. s \in Int /\ NextChunk(mem, s) \in Int /\ s + 2 <= NextChunk(mem, s)
    BY <1>2, RowBounds
  <2>3. mem'[s] = mem[s]
    BY <2>1, <2>2
  <2>4. \A a \in s + 1 .. NextChunk(before, s) - 1 : mem'[a] = before[a]
    BY <2>1, <2>2, <1>2
  <2> QED
    BY <2>3, <2>4, <1>2
<1>4. CASE mem' = mem
  BY <1>2, <1>4
<1>5. Takes \/ mem' = mem
  <2>1. /\ UNCHANGED heapVars
        /\ \/ /\ findSpace(mem, request.size) # NULL
              /\ mem' = Allocated(mem, findSpace(mem, request.size), request.size, request.fin)
           \/ mem' = mem
    BY DEF RetryAfterCollection, Collect
  <2>2. request.size \in Sizes /\ request.fin \in Finalizers
    BY <1>1 DEF Sound, RequestSound
  <2> QED
    BY <2>1, <2>2, <1>2 DEF Takes, heapVars
<1> QED
  BY <1>3, <1>4, <1>5

\* A collection never changes a word of a block that the program could reach
\* when it began, and the block is still allocated when memAllocate returns, if
\* the program keeps its pointers in memory (LiveUntouched; alloc.c:103-254,
\* 278-304).
THEOREM LiveBlocksUntouched ==
    ASSUME InMemory
    PROVE  Spec => LiveUntouched
<1>1. Init => LiveSound
  BY InitLive
<1>2. Sound /\ LiveSound /\ [Next]_vars => LiveSound'
  BY NextLive
<1>3. Sound /\ Sound' /\ LiveSound /\ [Next]_vars => [LiveStep]_vars
  <2> SUFFICES ASSUME Sound, Sound', LiveSound, Next, NEW s \in live
               PROVE  /\ mem'[s].alloc /\ mem'[s].val = before[s].val
                      /\ \A a \in s + 1 .. NextChunk(before, s) - 1 : mem'[a] = before[a]
    BY DEF LiveStep
  <2>1. CASE ProgramStep
    BY <2>1, ProgramStepLive
  <2>2. ASSUME NEW d \in Holders \cup {Discard}, NEW n \in Sizes, NEW f \in Finalizers,
               AllocateCollects(n, f, d)
        PROVE  FALSE
    <3>1. ~Collecting
      BY <2>2 DEF AllocateCollects, Collecting
    <3> QED
      BY <3>1 DEF LiveSound, LiveKept
  <2>3. CASE CollectorStep
    BY <2>3, CollectorStepKeeps DEF Kept
  <2>4. CASE RetryAfterCollection
    BY <2>4, RetryKeeps
  <2> QED
    BY <2>1, <2>2, <2>3, <2>4, NextIs
<1> QED
  BY <1>1, <1>2, <1>3, Invariance, PTL DEF Spec, LiveUntouched

-----------------------------------------------------------------------------
(* What the program points to *)

\* No finalizer keeps the argument it gets.
NoSaves == saves \notin Finalizers

LEMMA InitPointers == Init => PointersSound
<1> SUFFICES ASSUME Init PROVE PointersSound
  OBVIOUS
<1>1. phase = "user" /\ heapBasePtr = NULL /\ \A r \in Holders : place[r] = NULL
  BY AllocAssumption DEF Init, Places
<1> QED
  BY <1>1, Bases DEF PointersSound, FinalizersKnown, NoDangling, Collecting

\* Marking, sweep and consolidate write headers only.
LEMMA CollectorHeaders ==
    ASSUME InMemory, Sound, LiveSound, CollectorStep
    PROVE  /\ mem' \in Memory /\ IsRow(mem', Row(mem')) /\ Row(mem') \subseteq Row(mem)
           /\ heapBasePtr = Base /\ heapBasePtr' = Base
           /\ \A a \in Addr \ Row(mem) : mem'[a] = mem[a]
           /\ \A s \in Row(mem') : mem'[s].alloc => mem[s].alloc /\ mem'[s].val = mem[s].val
<1>1. /\ Collecting /\ UNCHANGED heapVars /\ heapBasePtr = Base /\ heapBasePtr' = Base
      /\ mem \in Memory /\ IsRow(mem, Row(mem)) /\ Row(mem) \subseteq Addr
  <2>1. Collecting /\ UNCHANGED heapVars
    BY CollectorStepKeeps
       DEF CollectorStep, MarkRoots, checkAndMarkRegisters, traverseAndMarkHeap,
           recurseAndMarkHeap, RecursionReturns, MarkingEnds, SweepKeeps, SweepFrees,
           callDestructor, FinalizerReturns, AllocateInFinalizer, SweepEnds, ConsolidateSkips,
           ConsolidateMerges, ConsolidateEnds
  <2> QED
    BY <2>1, Basics DEF heapVars, IsRow
<1>2. ASSUME NEW S \in SUBSET Row(mem), mem' = Marked(mem, S)
      PROVE  /\ mem' \in Memory /\ Row(mem') = Row(mem) /\ IsRow(mem', Row(mem))
             /\ \A a \in Addr \ Row(mem) : mem'[a] = mem[a]
             /\ \A s \in Row(mem) : mem'[s].alloc => mem[s].alloc /\ mem'[s].val = mem[s].val
  <2>1. /\ mem' \in Memory /\ Row(mem') = Row(mem)
        /\ \A s \in Row(mem) : mem'[s].val = mem[s].val /\ mem'[s].alloc = mem[s].alloc
    BY <1>1, <1>2, MarksKeepRow
  <2>2. \A a \in Addr : a \notin S => mem'[a] = mem[a]
    BY <1>1, <1>2, MarksKeepRow
  <2> QED
    BY <2>1, <2>2, <1>1, SameHeaders
<1>3. CASE MarkRoots
  BY <1>3, <1>1, <1>2, RootsFound DEF MarkRoots
<1>4. CASE checkAndMarkRegisters
  BY <1>4, <1>1, <1>2, RegistersFound DEF checkAndMarkRegisters
<1>5. CASE recurseAndMarkHeap
  <2>1. phase = "heap" /\ frames # <<>> /\ Ahead # {} /\ mem' = Marked(mem, {BlockOf(mem, mem[Min(Ahead)])})
    BY <1>5 DEF recurseAndMarkHeap, Collect
  <2>2. {BlockOf(mem, mem[Min(Ahead)])} \in SUBSET Row(mem)
    BY <2>1, AheadFound
  <2> QED
    BY <2>1, <2>2, <1>1, <1>2
<1>6. CASE mem' = mem
  BY <1>6, <1>1
<1>7. CASE /\ phase \in {"sweep", "finalizing"} /\ InHeap
           /\ mem' = Unmarked(mem, at) \/ mem' = Freed(mem, at)
  <2>1. at \in Row(mem) /\ at \in Addr
    BY <1>1, <1>7, SweepPosition
  <2>2. /\ mem' \in Memory /\ \A a \in Addr \ {at} : mem'[a] = mem[a]
        /\ \A s \in Row(mem) : mem'[s].val = mem[s].val /\ (mem'[s].alloc => mem[s].alloc)
    <3>1. CASE mem' = Unmarked(mem, at)
      BY <3>1, <2>1, <1>1, UnmarkedHeader
    <3>2. CASE mem' = Freed(mem, at)
      BY <3>2, <2>1, <1>1, FreedHeader
    <3> QED
      BY <3>1, <3>2, <1>7
  <2>3. Row(mem') = Row(mem) /\ IsRow(mem', Row(mem))
    BY <2>2, <1>1, SameHeaders
  <2> QED
    BY <2>1, <2>2, <2>3, <1>1
<1>8. CASE SweepKeeps
  BY <1>6, <1>7, <1>8 DEF SweepKeeps, Collect
<1>9. CASE SweepFrees
  BY <1>7, <1>9 DEF SweepFrees, Collect, Unreachable
<1>10. CASE FinalizerReturns
  BY <1>7, <1>10, FinalizingPosition DEF FinalizerReturns, Collect
<1>11. CASE ConsolidateMerges
  <2>1. /\ mem' \in Memory /\ IsRow(mem', Row(mem')) /\ Row(mem') = Row(mem) \ {NextChunk(mem, at)}
        /\ at \in Row(mem) /\ \A a \in Addr \ {at} : mem'[a] = mem[a]
    BY <1>11, Merges
  <2>2. ~mem'[at].alloc
    BY <1>11, Merges DEF Plain
  <2> QED
    BY <2>1, <2>2, <1>1
<1>12. CASE \/ traverseAndMarkHeap \/ RecursionReturns \/ MarkingEnds \/ callDestructor
            \/ AllocateInFinalizer \/ SweepEnds \/ ConsolidateSkips \/ ConsolidateEnds
  BY <1>6, <1>12 DEF traverseAndMarkHeap, RecursionReturns, MarkingEnds, callDestructor,
     AllocateInFinalizer, SweepEnds, ConsolidateSkips, ConsolidateEnds
<1> QED
  BY <1>3, <1>4, <1>5, <1>8, <1>9, <1>10, <1>11, <1>12 DEF CollectorStep

\* The word of a block behind its header.
LEMMA FinalizerWord ==
    ASSUME NEW m \in Memory, NEW R, IsRow(m, R), NEW s \in R
    PROVE  s + 1 \in Addr \ R /\ s + 1 \in s .. NextChunk(m, s) - 1
<1>1. s \in Int /\ NextChunk(m, s) \in Int /\ s + 2 <= NextChunk(m, s)
  BY RowBounds
<1>2. s + 1 \in s + 1 .. NextChunk(m, s) - 1
  BY <1>1
<1> QED
  BY <1>1, <1>2, DataWords

\* A finalizer that does not keep its argument leaves the places alone, as the
\* collector does.
LEMMA PlacesStay ==
    ASSUME NoSaves, Sound, PointersSound, CollectorStep
    PROVE  place' = place
<1>1. CASE FinalizerReturns
  <2>1. /\ heapBasePtr = Base /\ mem \in Memory /\ IsRow(mem, Row(mem))
        /\ at \in Row(mem) /\ mem[at].alloc
    BY <1>1, Basics DEF FinalizerReturns, Collect, Collecting, Sound, PositionSound
  <2>2. at \in Blocks(mem)
    BY <2>1, RowOf
  <2>3. mem[at + 1].val # saves
    BY <2>1, <2>2 DEF NoSaves, PointersSound, FinalizersKnown
  <2> QED
    BY <2>3, <1>1 DEF FinalizerReturns
<1>2. CASE ~FinalizerReturns
  BY <1>2
     DEF CollectorStep, MarkRoots, checkAndMarkRegisters, traverseAndMarkHeap,
         recurseAndMarkHeap, RecursionReturns, MarkingEnds, SweepKeeps, SweepFrees,
         callDestructor, AllocateInFinalizer, SweepEnds, ConsolidateSkips,
         ConsolidateMerges, ConsolidateEnds
<1> QED
  BY <1>1, <1>2

LEMMA CollectorPointers ==
    ASSUME InMemory, NoSaves, Sound, Sound', LiveSound, PointersSound, CollectorStep
    PROVE  PointersSound'
<1>1. /\ mem' \in Memory /\ IsRow(mem', Row(mem')) /\ Row(mem') \subseteq Row(mem)
      /\ heapBasePtr = Base /\ heapBasePtr' = Base
      /\ \A a \in Addr \ Row(mem) : mem'[a] = mem[a]
      /\ \A s \in Row(mem') : mem'[s].alloc => mem[s].alloc
  BY CollectorHeaders
<1>2. mem \in Memory /\ IsRow(mem, Row(mem)) /\ Blocks(mem) = {s \in Row(mem) : mem[s].alloc}
  BY <1>1, Basics, RowOf
<1>3. /\ Collecting /\ Collecting' /\ UNCHANGED <<before, live>>
  BY CollectorStepKeeps
<1>4. \A s \in Blocks(mem) : mem[s + 1].val \in Finalizers
  BY <1>1 DEF PointersSound, FinalizersKnown
<1>5. FinalizersKnown'
  <2> SUFFICES ASSUME NEW s \in Blocks(mem') PROVE mem'[s + 1].val \in Finalizers
    BY DEF FinalizersKnown
  <2>1. s \in Row(mem) /\ s \in Blocks(mem)
    BY <1>1, <1>2, RowOf
  <2>2. s + 1 \in Addr \ Row(mem)
    BY <2>1, <1>2, FinalizerWord
  <2> QED
    BY <2>1, <2>2, <1>1, <1>4
<1>6. place' = place
  BY PlacesStay
<1>7. RequestSound'
  BY DEF Sound
<1> QED
  BY <1>3, <1>5, <1>6, <1>7 DEF PointersSound

\* An allocation: the new block belongs to the pointer that is returned, its
\* finalizer is the one given, and every other pointer keeps its block.
LEMMA TakesPointers ==
    ASSUME Sound, Sound', FinalizersKnown, heapBasePtr = Base, heapBasePtr' = Base,
           NEW k \in Sizes, NEW f \in Finalizers, findSpace(mem, k) # NULL,
           mem' = Allocated(mem, findSpace(mem, k), k, f)
    PROVE  /\ FinalizersKnown'
           /\ Owner(mem', findSpace(mem, k) + 2) # {}
           /\ \A v : Owner(mem, v) \subseteq Owner(mem', v)
<1> DEFINE s == findSpace(mem, k)
<1>1. /\ mem \in Memory /\ IsRow(mem, Row(mem)) /\ k \in Nat /\ f \in Nat /\ Takes
  BY Basics, AllocAssumption, FinalizerAssumption DEF Takes, NULL, prints, saves, allocates
<1>2. s \in Row(mem) /\ ~mem[s].alloc /\ mem[s].val > k + 2
  BY <1>1, SpaceFound
<1>3. /\ mem' \in Memory /\ IsRow(mem', Row(mem) \cup {s + k + 2})
      /\ mem'[s] = Header(k) /\ mem'[s + 1] = Plain(f) /\ ~mem'[s + k + 2].alloc
      /\ NextChunk(mem', s) = s + k + 2
  <2>1. IsRow(mem', Row(mem) \cup {s + k + 2})
    BY <1>1, <1>2, AllocatedHeap
  <2> QED
    BY <2>1, <1>1, <1>2, AllocatedHeap
<1>4. /\ Blocks(mem) \subseteq Blocks(mem')
      /\ \A t \in Blocks(mem) : /\ NextChunk(mem', t) = NextChunk(mem, t)
                                /\ \A a \in t .. NextChunk(mem, t) - 1 : mem'[a] = mem[a]
  BY <1>1, TakesKeeps
<1>5. \A v : Owner(mem, v) \subseteq Owner(mem', v)
  BY <1>4 DEF Owner
<1>6. /\ Blocks(mem') = {t \in Row(mem) \cup {s + k + 2} : mem'[t].alloc}
      /\ Blocks(mem) = {t \in Row(mem) : mem[t].alloc}
  BY <1>1, <1>3, RowOf
<1>7. Owner(mem', s + 2) # {}
  <2>1. s \in Int
    BY <1>1, <1>2, RowBounds
  <2>2. s \in Blocks(mem')
    BY <1>2, <1>3, <1>6 DEF Header
  <2>3. s + 2 <= NextChunk(mem', s)
    BY <2>1, <1>1, <1>3
  <2>4. s \in Owner(mem', s + 2)
    BY <2>1, <2>2, <2>3 DEF Owner
  <2> QED
    BY <2>4
<1>8. /\ mem' \in Memory /\ IsRow(mem', Row(mem) \cup {s + k + 2})
       /\ \A a \in Addr : a < s \/ a >= NextChunk(mem, s) => mem'[a] = mem[a]
       /\ \A t \in Row(mem) \ {s} : NextChunk(mem', t) = NextChunk(mem, t)
  <2>1. IsRow(mem', Row(mem) \cup {s + k + 2})
    BY <1>1, <1>2, AllocatedHeap
  <2> QED
    BY <2>1, <1>1, <1>2, AllocatedHeap
<1>9. ASSUME NEW t \in Blocks(mem') PROVE mem'[t + 1].val \in Finalizers
  <2>1. t \in Row(mem) /\ mem'[t].alloc
    BY <1>3, <1>6
  <2>2. CASE t = s
    BY <2>2, <1>3 DEF Plain
  <2>3. CASE t # s
    <3>1. /\ t \in Int /\ NextChunk(mem, t) \in Int /\ s \in Int /\ NextChunk(mem, s) \in Int
          /\ t + 2 <= NextChunk(mem, t)
      BY <2>1, <1>1, <1>2, RowBounds
    <3>2. t \in Addr /\ (s < t => NextChunk(mem, s) <= t)
      BY <2>1, <1>1, <1>2 DEF IsRow
    <3>3. mem'[t] = mem[t]
      BY <3>1, <3>2, <2>3, <1>8
    <3>4. t \in Blocks(mem)
      BY <2>1, <3>3, <1>6
    <3>5. t + 1 \in t .. NextChunk(mem, t) - 1
      BY <2>1, <1>1, FinalizerWord
    <3>6. mem'[t + 1] = mem[t + 1]
      BY <3>4, <3>5, <1>4
    <3> QED
      BY <3>4, <3>6 DEF FinalizersKnown
  <2> QED
    BY <2>2, <2>3
<1>10. FinalizersKnown'
  BY <1>9 DEF FinalizersKnown
<1> QED
  BY <1>5, <1>7, <1>10

\* A result is put where the caller wants it.
LEMMA ReturnedPointers ==
    ASSUME Sound, NEW d \in Holders \cup {Discard}, NEW v, Returns(d, v), v = NULL \/ Owner(mem', v) # {},
           \A r \in Holders : place[r] # NULL => Owner(mem', place[r]) # {}
    PROVE  NoDangling'
<1> SUFFICES ASSUME NEW r \in Holders, place'[r] # NULL PROVE Owner(mem', place'[r]) # {}
  BY DEF NoDangling
<1>1. place'[r] = place[r] \/ place'[r] = v
  BY Basics DEF Returns
<1> QED
  BY <1>1

\* Outside a collection every pointer has a block.
LEMMA UserPointers ==
    ASSUME PointersSound, phase = "user"
    PROVE  FinalizersKnown /\ \A r \in Holders : place[r] # NULL => Owner(mem, place[r]) # {}
BY DEF PointersSound, NoDangling, Collecting

LEMMA InitializePointers ==
    ASSUME Sound, Sound', PointersSound, memInitialize
    PROVE  PointersSound'
<1>1. phase = "user" /\ phase' = "user" /\ place' = place /\ heapBasePtr = NULL
  BY Basics, AllocAssumption DEF memInitialize, Sound, HeapSound
<1>2. ~Collecting' /\ \A r \in Holders : place'[r] = NULL
  <2>1. Blocks(mem) = {}
    BY <1>1, BlocksAre
  <2> QED
    BY <2>1, <1>1, UserPointers DEF Owner, Collecting
<1>3. FinalizersKnown'
  <2>1. CASE heapBasePtr' = Base /\ mem' = [mem EXCEPT ![Base] = Plain(Space)]
    <3>1. mem' \in Memory /\ mem'[Base] = Plain(Space)
      BY <2>1, Basics, Bases DEF Memory, Sound, TypeOK
    <3>2. IsRow(mem', {Base})
      BY <3>1, InitialRow
    <3>3. ~mem'[Base].alloc
      BY <3>1 DEF Plain
    <3>4. Blocks(mem') = {}
      BY <3>1, <3>2, <3>3, RowOf
    <3> QED
      BY <3>4 DEF FinalizersKnown
  <2>2. CASE heapBasePtr' = heapBasePtr
    BY <2>2, <1>1, Bases DEF FinalizersKnown
  <2> QED
    BY <2>1, <2>2 DEF memInitialize
<1> QED
  BY <1>2, <1>3 DEF PointersSound, NoDangling

\* What the program copies points to a block.
LEMMA ValuesPoint ==
    ASSUME Sound, PointersSound, phase = "user", NEW v \in Values
    PROVE  v = NULL \/ Owner(mem, v) # {}
<1>1. CASE v \in {place[r] : r \in Holders}
  BY <1>1, UserPointers
<1>2. CASE v \in {mem[a].val : a \in {b \in Accessible : Pointees(mem, mem[b]) # {}}}
  <2>1. PICK b \in Accessible : Pointees(mem, mem[b]) # {} /\ v = mem[b].val
    BY <1>2
  <2> QED
    BY <2>1 DEF Pointees
<1>3. CASE v \in {x \in {place[r] + 1 : r \in Holders} :
                    Interior /\ Owner(mem, x - 1) \cap Owner(mem, x) # {}}
  BY <1>3
<1> QED
  BY <1>1, <1>2, <1>3 DEF Values

LEMMA StorePointers ==
    ASSUME Sound, Sound', PointersSound, NEW a \in Addr, NEW v \in Values, Store(a, v)
    PROVE  PointersSound'
<1>1. /\ phase = "user" /\ phase' = "user" /\ a \in Accessible /\ place' = place
      /\ mem' = [mem EXCEPT ![a] = Plain(v)] /\ heapBasePtr' = heapBasePtr
  BY DEF Store, heapVars
<1>2. /\ heapBasePtr = Base /\ mem \in Memory /\ IsRow(mem, Row(mem))
      /\ a \in Addr \ Row(mem)
      /\ \E s \in Row(mem) : mem[s].alloc /\ a \in Data(mem, s)
  BY <1>1, AccessibleWords
<1>3. mem' \in Memory /\ \A b \in Addr \ {a} : mem'[b] = mem[b]
  BY <1>1, <1>2 DEF Sound, TypeOK, Memory
<1>4. \A s \in Row(mem) : mem'[s] = mem[s]
  BY <1>2, <1>3 DEF IsRow
<1>5. Blocks(mem') = Blocks(mem) /\ \A u : Owner(mem', u) = Owner(mem, u)
  BY <1>2, <1>3, <1>4, SameBlocks
<1>6. NoDangling'
  BY <1>1, <1>5, UserPointers DEF NoDangling
<1>7. ASSUME NEW s \in Blocks(mem) PROVE mem'[s + 1].val \in Finalizers
  <2>1. s \in Row(mem)
    BY <1>2, RowOf
  <2>2. s + 1 \in Addr /\ s + 1 \in s .. NextChunk(mem, s) - 1
    BY <2>1, <1>2, FinalizerWord
  <2>3. s + 1 # a
    <3> SUFFICES ASSUME s + 1 = a PROVE FALSE
      OBVIOUS
    <3>1. PICK t \in Row(mem) : a \in Data(mem, t)
      BY <1>2
    <3>2. /\ t \in Int /\ NextChunk(mem, t) \in Int /\ s \in Int /\ NextChunk(mem, s) \in Int
      BY <2>1, <3>1, <1>2, RowBounds
    <3>3. a \in Int /\ t + 2 <= a /\ a < NextChunk(mem, t) /\ s <= a /\ a < NextChunk(mem, s)
      BY <3>1, <3>2, <2>2 DEF Data
    <3>4. s = t
      BY <2>1, <3>1, <3>2, <3>3, <1>2, ChunksDisjoint
    <3> QED
      BY <3>2, <3>3, <3>4
  <2>4. mem'[s + 1] = mem[s + 1]
    BY <2>2, <2>3, <1>3
  <2> QED
    BY <2>4, <1>1, <1>2, UserPointers DEF FinalizersKnown
<1>8. FinalizersKnown'
  BY <1>5, <1>7 DEF FinalizersKnown
<1> QED
  BY <1>1, <1>6, <1>8 DEF PointersSound, Collecting

\* A step of the program that leaves the heap as it is.
LEMMA QuietPointers ==
    ASSUME Sound, PointersSound, phase = "user", phase' \in {"user", "fault"},
           UNCHANGED <<mem, heapBasePtr>>,
           \A r \in Holders : place'[r] # NULL => Owner(mem, place'[r]) # {}
    PROVE  PointersSound'
<1>1. FinalizersKnown' /\ NoDangling'
  BY UserPointers DEF FinalizersKnown, NoDangling
<1> QED
  BY <1>1 DEF PointersSound, Collecting

LEMMA ProgramPointers ==
    ASSUME Sound, Sound', PointersSound, ProgramStep
    PROVE  PointersSound'
<1>1. CASE memInitialize
  BY <1>1, InitializePointers
<1>2. ASSUME NEW d \in Holders \cup {Discard}, AllocateUninitialized(d) PROVE PointersSound'
  <2>1. phase = "user" /\ phase' = "user" /\ Returns(d, NULL) /\ UNCHANGED <<mem, heapBasePtr>>
    BY <1>2 DEF AllocateUninitialized, heapVars
  <2>2. NoDangling'
    BY <2>1, ReturnedPointers, UserPointers
  <2>3. FinalizersKnown'
    BY <2>1, UserPointers DEF FinalizersKnown
  <2> QED
    BY <2>1, <2>2, <2>3 DEF PointersSound, Collecting
<1>3. ASSUME NEW d \in Holders \cup {Discard}, NEW n \in Sizes, NEW f \in Finalizers,
             AllocateFits(n, f, d)
      PROVE  PointersSound'
  <2>1. /\ phase = "user" /\ phase' = "user" /\ heapBasePtr = Base /\ heapBasePtr' = Base
        /\ findSpace(mem, n) # NULL /\ mem' = Allocated(mem, findSpace(mem, n), n, f)
        /\ Returns(d, findSpace(mem, n) + 2)
    BY <1>3, Basics DEF AllocateFits, heapVars
  <2>2. /\ FinalizersKnown' /\ Owner(mem', findSpace(mem, n) + 2) # {}
        /\ \A v : Owner(mem, v) \subseteq Owner(mem', v)
    BY <2>1, TakesPointers, UserPointers
  <2>3. NoDangling'
    BY <2>1, <2>2, ReturnedPointers, UserPointers
  <2> QED
    BY <2>1, <2>2, <2>3 DEF PointersSound, Collecting
<1>4. CASE AllocateAtNull
  <2>1. /\ phase = "user" /\ phase' = "fault" /\ UNCHANGED <<mem, heapBasePtr, place>>
    BY <1>4 DEF AllocateAtNull, heapVars
  <2> QED
    BY <2>1, QuietPointers, UserPointers
<1>5. ASSUME NEW r \in Holders, NEW v \in Values, Assign(r, v) PROVE PointersSound'
  <2>1. /\ phase = "user" /\ phase' = "user" /\ UNCHANGED <<mem, heapBasePtr>>
        /\ place' = [place EXCEPT ![r] = v]
    BY <1>5 DEF Assign, heapVars
  <2>2. \A q \in Holders : place'[q] # NULL => Owner(mem, place'[q]) # {}
    BY <2>1, Basics, ValuesPoint, UserPointers
  <2> QED
    BY <2>1, <2>2, QuietPointers
<1>6. ASSUME NEW a \in Addr, NEW v \in Values, Store(a, v) PROVE PointersSound'
  BY <1>6, StorePointers
<1> QED
  BY <1>1, <1>2, <1>3, <1>4, <1>5, <1>6 DEF ProgramStep

\* A collection begins: what the program points to is reachable.
LEMMA CollectsPointers ==
    ASSUME Sound, Sound', PointersSound, NEW k, NEW f, NEW d, AllocateCollects(k, f, d)
    PROVE  PointersSound'
<1>1. /\ phase = "user" /\ phase' = "roots" /\ heapBasePtr' = heapBasePtr
      /\ before' = mem /\ live' = Reachable(mem, place) /\ mem' = mem /\ place' = place
  BY DEF AllocateCollects, heapVars
<1>2. Collecting' /\ FinalizersKnown' /\ RequestSound'
  BY <1>1, UserPointers DEF Collecting, FinalizersKnown, Sound
<1>3. ASSUME NEW r \in Holders, place[r] # NULL
      PROVE  \E s \in live' : s + 2 <= place[r] /\ place[r] <= NextChunk(mem, s)
  <2>1. PICK s : s \in Owner(mem, place[r])
    BY <1>1, <1>3, UserPointers
  <2>2. s \in UNION {Owner(mem, place[q]) : q \in Places}
    BY <2>1, Basics
  <2>3. s \in live'
    BY <2>2, <1>1, ReachableBlocks DEF ClosedSets
  <2> QED
    BY <2>1, <2>3 DEF Owner
<1> QED
  BY <1>1, <1>2, <1>3 DEF PointersSound

\* The pointers of the program still have their blocks when a collection ends.
LEMMA RetryPointers ==
    ASSUME Sound, Sound', LiveSound, PointersSound, RetryAfterCollection
    PROVE  PointersSound'
<1> DEFINE k == request.size
           f == request.fin
           d == request.dest
<1>1. /\ phase = "retry" /\ phase' = "user" /\ UNCHANGED heapVars
      /\ IF findSpace(mem, k) # NULL
         THEN mem' = Allocated(mem, findSpace(mem, k), k, f) /\ Returns(d, findSpace(mem, k) + 2)
         ELSE Returns(d, NULL) /\ mem' = mem
  BY DEF RetryAfterCollection, Collect
<1>2. /\ Collecting /\ heapBasePtr = Base /\ heapBasePtr' = Base
      /\ k \in Sizes /\ f \in Finalizers /\ d \in Holders \cup {Discard}
  BY <1>1, Basics DEF Collecting, Sound, RequestSound, heapVars
<1>3. ASSUME NEW r \in Holders, place[r] # NULL PROVE Owner(mem, place[r]) # {}
  <2>1. PICK s \in live : s + 2 <= place[r] /\ place[r] <= NextChunk(before, s)
    BY <1>2, <1>3 DEF PointersSound
  <2>2. /\ s \in Row(mem) /\ mem[s].alloc /\ NextChunk(before, s) = NextChunk(mem, s)
        /\ mem \in Memory /\ IsRow(mem, Row(mem))
    BY <1>2, LiveWords
  <2>3. s \in Blocks(mem)
    BY <2>2, RowOf
  <2>4. s \in Owner(mem, place[r])
    BY <2>1, <2>2, <2>3 DEF Owner
  <2> QED
    BY <2>4
<1>4. FinalizersKnown' /\ NoDangling'
  <2>1. CASE findSpace(mem, k) # NULL
    <3>1. /\ FinalizersKnown' /\ Owner(mem', findSpace(mem, k) + 2) # {}
          /\ \A v : Owner(mem, v) \subseteq Owner(mem', v)
      BY <2>1, <1>1, <1>2, TakesPointers DEF PointersSound
    <3> QED
      BY <3>1, <2>1, <1>1, <1>2, <1>3, ReturnedPointers
  <2>2. CASE findSpace(mem, k) = NULL
    BY <2>2, <1>1, <1>2, <1>3, ReturnedPointers DEF PointersSound, FinalizersKnown
  <2> QED
    BY <2>1, <2>2
<1> QED
  BY <1>1, <1>4 DEF PointersSound, Collecting

\* No pointer of the program ever loses its block, however many collections
\* there were, if the program keeps its pointers in memory and no finalizer
\* keeps the pointer it is called with (NoDangling; alloc.c:69-101, 103-254,
\* 278-304).
THEOREM NothingDangles ==
    ASSUME InMemory, NoSaves
    PROVE  Spec => []NoDangling
<1>1. Init => LiveSound /\ PointersSound
  BY InitLive, InitPointers
<1>2. Sound /\ Sound' /\ LiveSound /\ PointersSound /\ [Next]_vars => LiveSound' /\ PointersSound'
  <2> SUFFICES ASSUME Sound, Sound', LiveSound, PointersSound, [Next]_vars
               PROVE  LiveSound' /\ PointersSound'
    OBVIOUS
  <2>1. LiveSound'
    BY NextLive
  <2>2. CASE UNCHANGED vars
    BY <2>1, <2>2 DEF vars, PointersSound, FinalizersKnown, NoDangling, RequestSound, Collecting
  <2> QED
    BY <2>1, <2>2, NextIs, ProgramPointers, CollectsPointers, CollectorPointers, RetryPointers
<1>3. PointersSound => NoDangling
  BY DEF PointersSound, NoDangling, Collecting
<1> QED
  BY <1>1, <1>2, <1>3, Invariance, PTL DEF Spec

-----------------------------------------------------------------------------
(* What a collection leaves *)

\* The sets of blocks to which the values given lead and which are closed.
SuspectSets(m, values) ==
    {B \in SUBSET Blocks(m) :
        /\ \A v \in values : Suspects(m, v) \subseteq B
        /\ \A s \in B : \A a \in Data(m, s) :
               ~m[a].alloc /\ ~m[a].mark => Suspects(m, m[a].val) \subseteq B}

\* There is a smallest one.
LEMMA SuspectedIsLeast ==
    ASSUME NEW m, NEW values
    PROVE  /\ Suspected(m, values) \in SuspectSets(m, values)
           /\ \A C \in SuspectSets(m, values) : Suspected(m, values) \subseteq C
<1> DEFINE closed == SuspectSets(m, values)
           least == {s \in Blocks(m) : \A C \in closed : s \in C}
<1>1. \A v : Suspects(m, v) \subseteq Blocks(m)
  BY DEF Suspects
<1>2. ASSUME NEW s \in least, NEW a \in Data(m, s), ~m[a].alloc, ~m[a].mark,
             NEW t \in Suspects(m, m[a].val)
      PROVE  t \in least
  <2>1. ASSUME NEW C \in closed PROVE t \in C
    BY <1>2 DEF SuspectSets
  <2> QED
    BY <2>1, <1>1, <1>2
<1>3. ASSUME NEW v \in values, NEW t \in Suspects(m, v) PROVE t \in least
  <2>1. ASSUME NEW C \in closed PROVE t \in C
    BY <1>3 DEF SuspectSets
  <2> QED
    BY <2>1, <1>1, <1>3
<1>4. least \in closed
  BY <1>2, <1>3 DEF SuspectSets
<1>5. \A C \in closed : least \subseteq C
  OBVIOUS
<1>6. Suspected(m, values) = CHOOSE B \in closed : \A C \in closed : B \subseteq C
  BY DEF Suspected, SuspectSets
<1> QED
  BY <1>4, <1>5, <1>6

\* The blocks that may survive the collection, and those that must.
May == Suspected(before, RootValues(place))
Must == Closure(before, live \cup Pinned(before))

\* Only blocks that may survive are marked and scanned.
MayMark ==
    /\ phase \in {"user", "roots"} => \A s \in Blocks(mem) : ~mem[s].mark
    /\ Collecting => \A s \in Blocks(mem) : mem[s].mark => s \in May
    /\ phase = "heap" => \A k \in DOMAIN frames :
                             frames[k].chunk \in May /\ frames[k].chunk <= frames[k].word

\* What is still allocated was so before, and behind sweep it may be.
MaySurvive ==
    /\ Collecting => \A s \in Blocks(mem) : s \in Blocks(before) /\ mem[s].val = before[s].val
    /\ phase \in {"sweep", "finalizing"} =>
           \A s \in Blocks(mem) : s < at => s \in May /\ ~mem[s].mark
    /\ phase \in {"consolidate", "retry"} => \A s \in Blocks(mem) : s \in May /\ ~mem[s].mark

\* What must survive is still allocated, and before sweep has come to it, marked.
MustSurvive ==
    /\ phase \in {"registers", "heap"} /\ Base \in Blocks(mem) => mem[Base].mark
    /\ phase \in {"sweep", "finalizing"} =>
           \A s \in Must : s \in Blocks(mem) /\ (s >= at => mem[s].mark)
    /\ phase \in {"consolidate", "retry"} => Must \subseteq Blocks(mem)

\* The chunk at s is not one of two free ones in a row.
Apart(m, s) == m[s].alloc \/ NextChunk(m, s) = End \/ m[NextChunk(m, s)].alloc

FreeApart ==
    /\ phase = "consolidate" => \A s \in Row(mem) : s < at => Apart(mem, s)
    /\ phase = "retry" => \A s \in Row(mem) : Apart(mem, s)

LEMMA InitLeaves == Init => MayMark /\ MaySurvive /\ MustSurvive /\ FreeApart
<1> SUFFICES ASSUME Init PROVE MayMark /\ MaySurvive /\ MustSurvive /\ FreeApart
  OBVIOUS
<1>1. phase = "user" /\ heapBasePtr = NULL
  BY DEF Init
<1>2. Blocks(mem) = {}
  BY <1>1, InitSound, BlocksAre
<1> QED
  BY <1>1, <1>2 DEF MayMark, MaySurvive, MustSurvive, FreeApart, Collecting

\* A collection changes neither the blocks that may nor those that must survive
\* it, and no block appears.
LEMMA CollectorStays ==
    ASSUME InMemory, NoSaves, Sound, LiveSound, PointersSound, CollectorStep
    PROVE  /\ Collecting /\ Collecting' /\ heapBasePtr = Base
           /\ mem \in Memory /\ IsRow(mem, Row(mem)) /\ mem' \in Memory /\ IsRow(mem', Row(mem'))
           /\ Blocks(mem) = {s \in Row(mem) : mem[s].alloc}
           /\ Blocks(mem') = {s \in Row(mem') : mem'[s].alloc}
           /\ \A s \in Blocks(mem') : s \in Blocks(mem) /\ mem'[s].val = mem[s].val
           /\ UNCHANGED <<place, before, live>> /\ May' = May /\ Must' = Must
<1>1. /\ mem' \in Memory /\ IsRow(mem', Row(mem')) /\ Row(mem') \subseteq Row(mem)
      /\ heapBasePtr = Base /\ heapBasePtr' = Base
      /\ \A s \in Row(mem') : mem'[s].alloc => mem[s].alloc /\ mem'[s].val = mem[s].val
  BY CollectorHeaders
<1>2. mem \in Memory /\ IsRow(mem, Row(mem))
  BY <1>1, Basics
<1>3. /\ Blocks(mem) = {s \in Row(mem) : mem[s].alloc}
      /\ Blocks(mem') = {s \in Row(mem') : mem'[s].alloc}
  BY <1>1, <1>2, RowOf
<1>4. \A s \in Blocks(mem') : s \in Blocks(mem) /\ mem'[s].val = mem[s].val
  BY <1>1, <1>3
<1>5. Collecting /\ Collecting' /\ UNCHANGED <<before, live>>
  BY CollectorStepKeeps
<1>6. UNCHANGED place
  BY PlacesStay
<1>7. May' = May
  BY <1>1, <1>5, <1>6 DEF May, RootValues
<1>8. Must' = Must
  BY <1>5 DEF Must
<1> QED
  BY <1>1, <1>2, <1>3, <1>4, <1>5, <1>6, <1>7, <1>8

\* While blocks are marked, the heap is as it was but for the marks.
LEMMA MarkingWords ==
    ASSUME Sound, LiveSound, phase \in {"roots", "registers", "heap"}
    PROVE  /\ Collecting /\ heapBasePtr = Base /\ mem \in Memory /\ IsRow(mem, Row(mem))
           /\ before \in Memory /\ IsRow(before, Row(before)) /\ Row(mem) = Row(before)
           /\ Blocks(mem) = {s \in Row(mem) : mem[s].alloc} /\ Blocks(mem) = Blocks(before)
           /\ \A s \in Row(mem) : NextChunk(mem, s) = NextChunk(before, s)
           /\ \A s \in Row(mem) : mem[s].val = before[s].val
           /\ \A a \in Addr \ Row(mem) : mem[a] = before[a]
<1>1. Collecting
  BY DEF Collecting
<1>2. mem \in Memory /\ IsRow(mem, Row(mem)) /\ heapBasePtr = Base
  BY <1>1, Basics
<1>3. before \in Memory /\ IsRow(before, Row(before)) /\ OnlyMarks(mem, before)
  BY <1>1 DEF LiveSound, LiveKept, MarkingSound
<1>4. /\ Row(mem) = Row(before)
      /\ \A s \in Row(before) : mem[s].val = before[s].val /\ mem[s].alloc = before[s].alloc
      /\ \A a \in Addr \ Row(before) : mem[a] = before[a]
  BY <1>3 DEF OnlyMarks
<1>5. /\ Blocks(mem) = Blocks(before)
      /\ \A s \in Row(before) : NextChunk(mem, s) = NextChunk(before, s)
  BY <1>2, <1>3, <1>4, SameBlocks
<1> QED
  BY <1>1, <1>2, <1>3, <1>4, <1>5, RowOf

\* The block found for a value is one the value leads to.
LEMMA FoundIsSuspect ==
    ASSUME Sound, LiveSound, phase \in {"roots", "registers", "heap"}, NEW v \in Nat,
           checkIfValueIsAllocatedBlockAddr(mem, v) # NULL
    PROVE  checkIfValueIsAllocatedBlockAddr(mem, v) \in Suspects(before, v)
<1> DEFINE b == checkIfValueIsAllocatedBlockAddr(mem, v)
<1>1. /\ mem \in Memory /\ IsRow(mem, Row(mem))
      /\ Blocks(mem) = {s \in Row(mem) : mem[s].alloc} /\ Blocks(mem) = Blocks(before)
      /\ \A s \in Row(mem) : NextChunk(mem, s) = NextChunk(before, s)
  BY MarkingWords
<1>2. b \in Row(mem) /\ mem[b].alloc /\ b <= v /\ v <= NextChunk(mem, b)
  BY <1>1, BlockFound
<1>3. b \in Blocks(before) /\ v <= NextChunk(before, b)
  BY <1>1, <1>2
<1> QED
  BY <1>2, <1>3 DEF Suspects

\* The last chunk is free, and so are the words that the registers mark.
LEMMA RegistersFree ==
    ASSUME InMemory, Sound, LiveSound, Collecting
    PROVE  \A v \in {w \in Registers : checkIfValueIsAllocatedBlockAddr(mem, w) # NULL} :
               v \notin Blocks(mem)
<1>1. mem \in Memory /\ IsRow(mem, Row(mem)) /\ heapBasePtr = Base
  BY Basics
<1>2. Max(Visited(mem)) \in Row(mem) /\ \A s \in Row(mem) : s <= Max(Visited(mem))
  <2>1. Visited(mem) = Row(mem)
    BY <1>1, RowOf
  <2>2. \A s \in Row(mem) : s \in 0 .. End
    BY <1>1, RowBounds, AllocAssumption DEF End
  <2>3. End \in Nat /\ Row(mem) # {}
    BY <1>1, AllocAssumption DEF End, IsRow
  <2> QED
    BY <2>1, <2>2, <2>3, MaxOf
<1>3. place[rbx] = NULL /\ place[lastStack] = NULL
  BY AllocAssumption DEF LiveSound, OnlyHolders, InMemory, Places
<1>4. ~mem[Max(Visited(mem))].alloc
  <2> DEFINE s == Max(Visited(mem))
  <2>1. s \in Int /\ NextChunk(mem, s) \in Row(mem) \cup {End} /\ s + 2 <= NextChunk(mem, s)
        /\ NextChunk(mem, s) \in Int
        /\ (NextChunk(mem, s) = End => ~mem[s].alloc)
    BY <1>1, <1>2, RowBounds
  <2>2. NextChunk(mem, s) \notin Row(mem)
    BY <2>1, <1>2
  <2> QED
    BY <2>1, <2>2
<1>5. Blocks(mem) = {s \in Row(mem) : mem[s].alloc}
  BY <1>1, RowOf
<1> QED
  BY <1>1, <1>3, <1>4, <1>5, NullOwner DEF Registers

\* Only the marking of roots and pointers marks blocks.
LEMMA NoNewMarks ==
    ASSUME InMemory, NoSaves, Sound, LiveSound, PointersSound, CollectorStep,
           ~MarkRoots, ~recurseAndMarkHeap, NEW s \in Blocks(mem'), mem'[s].mark
    PROVE  mem[s].mark
<1>1. /\ Collecting /\ mem \in Memory /\ s \in Blocks(mem) /\ s \in Row(mem) /\ s \in Addr /\ mem'[s].alloc
  BY CollectorStays DEF IsRow
<1>2. CASE checkAndMarkRegisters
  <2> DEFINE used == {w \in Registers : checkIfValueIsAllocatedBlockAddr(mem, w) # NULL}
  <2>1. mem' = Marked(mem, used)
    BY <1>2 DEF checkAndMarkRegisters
  <2>2. s \notin used
    BY <1>1, RegistersFree
  <2> QED
    BY <2>1, <2>2, <1>1, MarkedHeap
<1>3. CASE mem' = mem
  BY <1>3
<1>4. CASE /\ phase \in {"sweep", "finalizing"} /\ InHeap
           /\ mem' = Unmarked(mem, at) \/ mem' = Freed(mem, at)
  <2>1. at \in Addr
    BY <1>4, SweepPosition
  <2>2. CASE mem' = Unmarked(mem, at)
    BY <2>1, <2>2, <1>1, UnmarkedHeader
  <2>3. CASE mem' = Freed(mem, at)
    BY <2>1, <2>3, <1>1, FreedHeader
  <2> QED
    BY <2>2, <2>3, <1>4
<1>5. CASE SweepKeeps
  BY <1>3, <1>4, <1>5 DEF SweepKeeps, Collect
<1>6. CASE SweepFrees
  BY <1>4, <1>6 DEF SweepFrees, Collect, Unreachable
<1>7. CASE FinalizerReturns
  BY <1>4, <1>7, FinalizingPosition DEF FinalizerReturns, Collect
<1>8. CASE ConsolidateMerges
  <2>1. ~mem'[at].alloc /\ \A a \in Addr \ {at} : mem'[a] = mem[a]
    BY <1>8, Merges DEF Plain
  <2> QED
    BY <2>1, <1>1
<1>9. CASE \/ traverseAndMarkHeap \/ RecursionReturns \/ MarkingEnds \/ callDestructor
           \/ AllocateInFinalizer \/ SweepEnds \/ ConsolidateSkips \/ ConsolidateEnds
  BY <1>3, <1>9 DEF traverseAndMarkHeap, RecursionReturns, MarkingEnds, callDestructor,
     AllocateInFinalizer, SweepEnds, ConsolidateSkips, ConsolidateEnds
<1> QED
  BY <1>2, <1>5, <1>6, <1>7, <1>8, <1>9 DEF CollectorStep

\* What the roots lead to may survive.
LEMMA RootsMay ==
    ASSUME Sound, LiveSound, MayMark, MarkRoots, NEW s \in Blocks(mem'), mem'[s].mark
    PROVE  s \in May
<1> DEFINE found == {checkIfValueIsAllocatedBlockAddr(mem, v) : v \in RootValues(place)}
<1>1. phase = "roots" /\ Collecting /\ UNCHANGED heapVars /\ mem' = Marked(mem, found \ {NULL})
  BY DEF MarkRoots, Collect, Collecting
<1>2. s \in Blocks(mem) /\ s \in Row(mem)
  BY <1>1, MarkedPointers, MarkingWords
<1>3. ~mem[s].mark
  BY <1>1, <1>2 DEF MayMark
<1>4. s \in found \ {NULL}
  BY <1>1, <1>2, <1>3, MarksGrow
<1>5. PICK v \in RootValues(place) : s = checkIfValueIsAllocatedBlockAddr(mem, v)
  BY <1>4
<1>6. s \in Suspects(before, v)
  BY <1>1, <1>4, <1>5, RootsFound, FoundIsSuspect
<1>7. \A w \in RootValues(place) : Suspects(before, w) \subseteq May
  BY SuspectedIsLeast DEF May, SuspectSets
<1> QED
  BY <1>6, <1>7

\* What the data of a block lead to that may survive, may survive.
LEMMA DataMay ==
    ASSUME NEW s \in May, NEW a \in Data(before, s), ~before[a].alloc, ~before[a].mark
    PROVE  Suspects(before, before[a].val) \subseteq May
BY SuspectedIsLeast DEF May, SuspectSets

\* The block that recurseAndMarkHeap finds is one of these: the header points to
\* nothing, nor does the word of the finalizer.
LEMMA AheadMay ==
    ASSUME Sound, LiveSound, PointersSound, MayMark, phase = "heap", frames # <<>>, Ahead # {}
    PROVE  BlockOf(mem, mem[Min(Ahead)]) \in May
<1> DEFINE w == Min(Ahead)
           b == BlockOf(mem, mem[w])
           c == Innermost.chunk
<1>1. /\ Innermost.word <= w /\ w < NextChunk(mem, c) /\ w \in Addr /\ w \in Int
      /\ b \in Row(mem) /\ c \in Row(mem)
  BY AheadFound
<1>2. /\ mem \in Memory /\ IsRow(mem, Row(mem)) /\ heapBasePtr = Base
      /\ Blocks(mem) = {s \in Row(mem) : mem[s].alloc} /\ Blocks(mem) = Blocks(before)
      /\ \A s \in Row(mem) : NextChunk(mem, s) = NextChunk(before, s)
      /\ \A a \in Addr \ Row(mem) : mem[a] = before[a]
  BY MarkingWords
<1>3. c \in May /\ c <= Innermost.word /\ Innermost.word \in Int
  <2>1. Len(frames) \in DOMAIN frames
    BY Basics
  <2>2. Innermost \in Frame
    BY AheadFound
  <2> QED
    BY <2>1, <2>2, AllocAssumption DEF MayMark, Innermost, Frame, End
<1>4. May \subseteq Blocks(before)
  BY SuspectedIsLeast DEF May, SuspectSets
<1>5. mem[c].alloc /\ c \in Int /\ NextChunk(mem, c) \in Int
  BY <1>1, <1>2, <1>3, <1>4, RowBounds
<1>6. b # NULL
  BY <1>1, <1>2, Bases DEF IsRow
<1>7. ~mem[w].alloc /\ ~mem[w].mark /\ b = checkIfValueIsAllocatedBlockAddr(mem, mem[w].val)
  BY <1>6 DEF BlockOf
<1>8. mem[w].val \in Nat
  BY <1>1, <1>2 DEF Memory, Word
<1>9. w # c
  BY <1>5, <1>7
<1>10. w # c + 1
  <2> SUFFICES ASSUME w = c + 1 PROVE FALSE
    OBVIOUS
  <2>1. mem[w].val \in Finalizers
    BY <1>2, <1>3, <1>4 DEF PointersSound, FinalizersKnown
  <2>2. mem[w].val < Base
    BY <2>1, <1>8, AllocAssumption, FinalizerAssumption DEF NULL, prints, saves, allocates
  <2> QED
    BY <2>2, <1>6, <1>7 DEF checkIfValueIsAllocatedBlockAddr
<1>11. w \in c + 1 .. NextChunk(mem, c) - 1 /\ w \in Data(before, c)
  BY <1>1, <1>2, <1>3, <1>5, <1>9, <1>10 DEF Data
<1>12. w \in Addr \ Row(mem)
  BY <1>1, <1>2, <1>11, DataWords
<1>13. mem[w] = before[w]
  BY <1>12, <1>2
<1>14. b \in Suspects(before, before[w].val)
  BY <1>6, <1>7, <1>8, <1>13, FoundIsSuspect
<1>15. Suspects(before, before[w].val) \subseteq May
  BY <1>3, <1>7, <1>11, <1>13, DataMay
<1> QED
  BY <1>14, <1>15

\* A call goes on to the word x and calls itself for b.
LEMMA MovedFrames ==
    ASSUME NEW fs \in Seq(Frame), Len(fs) \in DOMAIN fs, NEW x \in Base .. End, NEW b,
           NEW k \in DOMAIN Append([fs EXCEPT ![Len(fs)].word = x], Call(b))
    PROVE  LET gs == Append([fs EXCEPT ![Len(fs)].word = x], Call(b))
           IN  \/ k = Len(fs) + 1 /\ gs[k] = Call(b)
               \/ k = Len(fs) /\ gs[k].chunk = fs[k].chunk /\ gs[k].word = x
               \/ k \in DOMAIN fs /\ gs[k] = fs[k]
<1> DEFINE last == Len(fs)
           frame == [fs[last] EXCEPT !.word = x]
           moved == [fs EXCEPT ![last] = frame]
<1>1. fs[last] \in Frame
  OBVIOUS
<1>2. frame \in Frame /\ frame.chunk = fs[last].chunk /\ frame.word = x
  BY <1>1 DEF Frame
<1> HIDE DEF frame
<1>3. moved \in Seq(Frame) /\ Len(moved) = last /\ last \in Nat
  BY <1>1, <1>2
<1>4. \A j \in DOMAIN fs : moved[j] = IF j = last THEN frame ELSE fs[j]
  OBVIOUS
<1>5. [fs EXCEPT ![Len(fs)].word = x] = moved
  BY DEF frame
<1> HIDE DEF moved
<1>6. k \in 1 .. last + 1
  BY <1>3, <1>5
<1>7. Append(moved, Call(b))[k] = IF k = last + 1 THEN Call(b) ELSE moved[k]
  BY <1>3, <1>6
<1>8. k # last + 1 => k \in DOMAIN fs
  BY <1>3, <1>6
<1> QED
  BY <1>2, <1>4, <1>5, <1>7, <1>8

LEMMA FramesMay ==
    ASSUME InMemory, NoSaves, Sound, Sound', LiveSound, PointersSound, MayMark, CollectorStep,
           phase' = "heap", NEW k \in DOMAIN frames'
    PROVE  frames'[k].chunk \in May /\ frames'[k].chunk <= frames'[k].word
<1>1. CASE checkAndMarkRegisters
  <2>1. frames' = <<>>
    BY <1>1, Basics DEF checkAndMarkRegisters, Collect, calls
  <2> QED
    BY <2>1
<1>2. CASE traverseAndMarkHeap
  <2>1. /\ phase = "heap" /\ mem' = mem
        /\ frames' = IF mem[at].alloc /\ mem[at].mark THEN <<Call(at)>> ELSE <<>>
        /\ InHeap
    BY <1>2 DEF traverseAndMarkHeap, Collect
  <2>2. frames' = <<Call(at)>> /\ k = 1 /\ mem[at].alloc /\ mem[at].mark
    BY <2>1
  <2>3. /\ heapBasePtr = Base /\ mem \in Memory /\ IsRow(mem, Row(mem))
        /\ Blocks(mem) = {s \in Row(mem) : mem[s].alloc}
    BY <2>1, MarkingWords
  <2>4. at \in Row(mem)
    BY <2>1, <2>3, NextPosition DEF Sound, PositionSound
  <2>5. at \in May /\ at \in Int
    BY <2>1, <2>2, <2>3, <2>4, RowBounds DEF MayMark, Collecting
  <2> QED
    BY <2>2, <2>5 DEF Call
<1>3. CASE recurseAndMarkHeap
  <2> DEFINE b == BlockOf(mem, mem[Min(Ahead)])
             w == Min(Ahead)
  <2>1. /\ phase = "heap" /\ frames # <<>> /\ Ahead # {}
        /\ frames' = Append([frames EXCEPT ![Len(frames)].word = w + 1], Call(b))
    BY <1>3 DEF recurseAndMarkHeap, Collect
  <2>2. b \in May
    BY <2>1, AheadMay
  <2>3. b \in Int
    <3>1. b \in Row(mem) /\ mem \in Memory /\ IsRow(mem, Row(mem))
      BY <2>1, AheadFound, MarkingWords
    <3> QED
      BY <3>1, RowBounds
  <2>4. Innermost.word <= w /\ w \in Int /\ w + 1 \in Base .. End
    BY <2>1, AheadFound
  <2>5. frames \in Seq(Frame) /\ Len(frames) \in DOMAIN frames
    BY <2>1, Basics
  <2>6. \/ k = Len(frames) + 1 /\ frames'[k] = Call(b)
        \/ k = Len(frames) /\ frames'[k].chunk = frames[k].chunk /\ frames'[k].word = w + 1
        \/ k \in DOMAIN frames /\ frames'[k] = frames[k]
    <3> HIDE DEF w, b
    <3> QED
      BY <2>1, <2>4, <2>5, MovedFrames
  <2>7. \A j \in DOMAIN frames : frames[j].chunk \in May /\ frames[j].chunk <= frames[j].word
    BY <2>1 DEF MayMark
  <2>8. CASE frames'[k] = Call(b)
    BY <2>2, <2>3, <2>8 DEF Call
  <2>9. CASE k = Len(frames) /\ frames'[k].chunk = frames[k].chunk /\ frames'[k].word = w + 1
    <3>1. Innermost.chunk \in May /\ Innermost.chunk <= Innermost.word
      BY <2>5, <2>7 DEF Innermost
    <3>2. Innermost.chunk \in Int /\ Innermost.word \in Int
      <4>1. Innermost \in Frame
        BY <2>1, AheadFound
      <4> QED
        BY <4>1, AllocAssumption DEF Frame, Addr, End
    <3>3. frames'[k].chunk = Innermost.chunk
      BY <2>9 DEF Innermost
    <3>4. frames'[k].word = w + 1
      BY <2>9
    <3> HIDE DEF w
    <3> QED
      BY <3>1, <3>2, <3>3, <3>4, <2>4
  <2>10. CASE k \in DOMAIN frames /\ frames'[k] = frames[k]
    BY <2>7, <2>10
  <2> QED
    BY <2>6, <2>8, <2>9, <2>10
<1>4. CASE RecursionReturns
  <2>1. phase = "heap" /\ frames # <<>> /\ frames' = SubSeq(frames, 1, Len(frames) - 1)
    BY <1>4 DEF RecursionReturns, Collect
  <2>2. k \in DOMAIN frames /\ frames'[k] = frames[k]
    BY <2>1, Basics
  <2> QED
    BY <2>1, <2>2 DEF MayMark
<1>5. CASE \/ MarkRoots \/ MarkingEnds \/ SweepKeeps \/ SweepFrees \/ callDestructor
           \/ FinalizerReturns \/ AllocateInFinalizer \/ SweepEnds \/ ConsolidateSkips
           \/ ConsolidateMerges \/ ConsolidateEnds
  BY <1>5 DEF MarkRoots, MarkingEnds, SweepKeeps, SweepFrees, callDestructor, FinalizerReturns,
     AllocateInFinalizer, SweepEnds, ConsolidateSkips, ConsolidateMerges, ConsolidateEnds, Collect
<1> QED
  BY <1>1, <1>2, <1>3, <1>4, <1>5 DEF CollectorStep

LEMMA CollectorMayMark ==
    ASSUME InMemory, NoSaves, Sound, Sound', LiveSound, PointersSound, MayMark, CollectorStep
    PROVE  MayMark'
<1>1. /\ Collecting /\ May' = May /\ \A s \in Blocks(mem') : s \in Blocks(mem) /\ s \in Row(mem)
  BY CollectorStays
<1>2. ASSUME NEW s \in Blocks(mem'), mem'[s].mark PROVE s \in May
  <2>1. CASE MarkRoots
    BY <2>1, <1>2, RootsMay
  <2>2. CASE recurseAndMarkHeap
    <3> DEFINE b == BlockOf(mem, mem[Min(Ahead)])
    <3>1. /\ phase = "heap" /\ frames # <<>> /\ Ahead # {} /\ UNCHANGED heapVars
          /\ mem' = Marked(mem, {b})
      BY <2>2 DEF recurseAndMarkHeap, Collect
    <3>2. mem[s].mark \/ s = b
      <4> HIDE DEF b
      <4>1. s \in Row(mem)
        BY <1>1
      <4>2. mem'[s].mark => mem[s].mark \/ s \in {b}
        BY <3>1, <4>1, <1>1, MarksGrow
      <4> QED
        BY <4>2, <1>2
    <3>3. mem[s].mark => s \in May
      BY <1>1 DEF MayMark
    <3> QED
      BY <3>1, <3>2, <3>3, AheadMay
  <2>3. CASE ~MarkRoots /\ ~recurseAndMarkHeap
    <3>1. mem[s].mark
      BY <2>3, <1>2, NoNewMarks
    <3> QED
      BY <3>1, <1>1 DEF MayMark
  <2> QED
    BY <2>1, <2>2, <2>3
<1>3. phase' \notin {"user", "roots"}
  BY DEF CollectorStep, MarkRoots, checkAndMarkRegisters, traverseAndMarkHeap,
         recurseAndMarkHeap, RecursionReturns, MarkingEnds, SweepKeeps, SweepFrees,
         callDestructor, FinalizerReturns, AllocateInFinalizer, SweepEnds, ConsolidateSkips,
         ConsolidateMerges, ConsolidateEnds, Collect
<1>4. phase' = "heap" => \A k \in DOMAIN frames' :
                             frames'[k].chunk \in May /\ frames'[k].chunk <= frames'[k].word
  BY FramesMay
<1> QED
  BY <1>1, <1>2, <1>3, <1>4 DEF MayMark

\* Behind the chunk that sweep stands on only blocks that may survive are left.
LEMMA SweepMay ==
    ASSUME InMemory, NoSaves, Sound, Sound', LiveSound, PointersSound, MayMark, MaySurvive,
           CollectorStep, phase' \in {"sweep", "finalizing"}, NEW s \in Blocks(mem'), s < at'
    PROVE  s \in May /\ ~mem'[s].mark
<1>1. /\ Collecting /\ heapBasePtr = Base /\ mem \in Memory /\ IsRow(mem, Row(mem))
      /\ Blocks(mem) = {t \in Row(mem) : mem[t].alloc}
      /\ s \in Blocks(mem) /\ s \in Row(mem) /\ mem[s].alloc /\ mem'[s].alloc
  BY CollectorStays
<1>2. s \in Int /\ Base <= s /\ s \in Addr
  BY <1>1, RowBounds
<1>3. CASE MarkingEnds
  <2>1. at' = Base
    BY <1>1, <1>3 DEF MarkingEnds
  <2> QED
    BY <2>1, <1>2, AllocAssumption
<1>4. CASE callDestructor
  <2>1. phase = "sweep" /\ mem' = mem /\ at' = at
    BY <1>4 DEF callDestructor, Collect
  <2> QED
    BY <2>1, <1>1 DEF MaySurvive
<1>5. CASE /\ phase \in {"sweep", "finalizing"} /\ InHeap /\ at' = NextChunk(mem, at)
           /\ \/ mem' = mem /\ ~mem[at].alloc
              \/ mem' = Unmarked(mem, at) /\ mem[at].mark
              \/ mem' = Freed(mem, at)
  <2>1. at \in Row(mem) /\ at \in Addr
    BY <1>1, <1>5, SweepPosition
  <2>2. at \in Int /\ NextChunk(mem, at) \in Int /\ (at < s => NextChunk(mem, at) <= s)
    BY <1>1, <2>1, RowBounds DEF IsRow
  <2>3. s < at \/ s = at
    BY <1>2, <1>5, <2>2
  <2>4. \A a \in Addr \ {at} : mem'[a] = mem[a]
    <3>1. CASE mem' = Unmarked(mem, at)
      BY <3>1, <1>1, <2>1, UnmarkedHeader
    <3>2. CASE mem' = Freed(mem, at)
      BY <3>2, <1>1, <2>1, FreedHeader
    <3> QED
      BY <3>1, <3>2, <1>5
  <2>5. CASE s < at
    <3>1. mem'[s] = mem[s]
      BY <1>2, <2>2, <2>4, <2>5
    <3> QED
      BY <3>1, <2>5, <1>1, <1>5 DEF MaySurvive
  <2>6. CASE s = at
    <3>1. mem' = Unmarked(mem, at) /\ mem[at].mark
      BY <1>1, <1>5, <2>1, <2>6, FreedHeader
    <3>2. ~mem'[at].mark
      BY <3>1, <1>1, <2>1, UnmarkedHeader
    <3> QED
      BY <3>1, <3>2, <2>6, <1>1 DEF MayMark
  <2> QED
    BY <2>3, <2>5, <2>6
<1>6. CASE SweepKeeps
  BY <1>5, <1>6 DEF SweepKeeps, Collect
<1>7. CASE SweepFrees
  BY <1>5, <1>7 DEF SweepFrees, Collect, Unreachable
<1>8. CASE FinalizerReturns
  BY <1>5, <1>8, FinalizingPosition DEF FinalizerReturns, Collect
<1>9. CASE \/ MarkRoots \/ checkAndMarkRegisters \/ traverseAndMarkHeap \/ recurseAndMarkHeap
           \/ RecursionReturns \/ AllocateInFinalizer \/ SweepEnds \/ ConsolidateSkips
           \/ ConsolidateMerges \/ ConsolidateEnds
  BY <1>9 DEF MarkRoots, checkAndMarkRegisters, traverseAndMarkHeap, recurseAndMarkHeap,
     RecursionReturns, AllocateInFinalizer, SweepEnds, ConsolidateSkips,
     ConsolidateMerges, ConsolidateEnds, Collect
<1> QED
  BY <1>3, <1>4, <1>6, <1>7, <1>8, <1>9 DEF CollectorStep

LEMMA CollectorMaySurvive ==
    ASSUME InMemory, NoSaves, Sound, Sound', LiveSound, PointersSound, MayMark, MaySurvive,
           CollectorStep
    PROVE  MaySurvive'
<1>1. /\ Collecting /\ heapBasePtr = Base /\ mem \in Memory /\ IsRow(mem, Row(mem))
      /\ May' = May /\ before' = before
      /\ \A s \in Blocks(mem') : s \in Blocks(mem) /\ mem'[s].val = mem[s].val /\ s \in Row(mem)
  BY CollectorStays
<1>2. \A s \in Blocks(mem') : s \in Blocks(before) /\ mem'[s].val = before[s].val
  BY <1>1 DEF MaySurvive
<1>3. ASSUME phase' \in {"consolidate", "retry"}, NEW s \in Blocks(mem')
      PROVE  s \in May /\ ~mem'[s].mark
  <2>1. SweepEnds \/ ConsolidateSkips \/ ConsolidateMerges \/ ConsolidateEnds
    BY <1>3 DEF CollectorStep, MarkRoots, checkAndMarkRegisters, traverseAndMarkHeap,
       recurseAndMarkHeap, RecursionReturns, MarkingEnds, SweepKeeps, SweepFrees,
       callDestructor, FinalizerReturns, AllocateInFinalizer, Collect
  <2>2. s \in Blocks(mem) /\ s \in Row(mem)
    BY <1>1
  <2>3. ~MarkRoots /\ ~recurseAndMarkHeap
    BY <1>3 DEF MarkRoots, recurseAndMarkHeap, Collect
  <2>4. mem'[s].mark => mem[s].mark
    BY <2>3, NoNewMarks
  <2>5. CASE SweepEnds
    <3>1. phase = "sweep" /\ ~InHeap
      BY <2>5 DEF SweepEnds, Collect
    <3>2. at \in Row(mem) \cup {End}
      BY <3>1 DEF Sound, PositionSound
    <3>3. s < at
      <4>1. at = End
        BY <3>1, <3>2, <1>1, RowBounds, AllocAssumption DEF InHeap
      <4>2. s \in Int /\ s <= Base + Space - 1
        BY <2>2, <1>1, RowBounds
      <4> QED
        BY <4>1, <4>2, AllocAssumption DEF End
    <3>4. s \in May /\ ~mem[s].mark
      BY <3>1, <3>3, <2>2 DEF MaySurvive
    <3> QED
      BY <3>4, <2>4
  <2>6. CASE ConsolidateSkips \/ ConsolidateMerges \/ ConsolidateEnds
    <3>1. phase = "consolidate"
      BY <2>6 DEF ConsolidateSkips, ConsolidateMerges, ConsolidateEnds, Collect
    <3>2. s \in May /\ ~mem[s].mark
      BY <3>1, <2>2 DEF MaySurvive
    <3> QED
      BY <3>2, <2>4
  <2> QED
    BY <2>1, <2>5, <2>6
<1>4. phase' \in {"sweep", "finalizing"} =>
          \A s \in Blocks(mem') : s < at' => s \in May /\ ~mem'[s].mark
  BY SweepMay
<1> QED
  BY <1>1, <1>2, <1>3, <1>4 DEF MaySurvive

\* The scan of the roots meets heapBasePtr, and so marks the first block.
LEMMA BaseFound ==
    ASSUME Sound, Collecting, Base \in Blocks(mem)
    PROVE  checkIfValueIsAllocatedBlockAddr(mem, Base) = Base
<1> DEFINE S == {s \in Row(mem) : mem[s].alloc /\ s <= Base /\ Base <= NextChunk(mem, s)}
<1>1. mem \in Memory /\ IsRow(mem, Row(mem))
  BY Basics
<1>2. /\ Visited(mem) = Row(mem) /\ Base \in Row(mem) /\ mem[Base].alloc
  BY <1>1, RowOf
<1>3. Base \in Nat /\ ~(Base < Base \/ Base > End)
  BY AllocAssumption DEF End
<1>4. checkIfValueIsAllocatedBlockAddr(mem, Base) = First(S)
  BY <1>2, <1>3 DEF checkIfValueIsAllocatedBlockAddr
<1>5. \A s \in S : s \in Nat /\ s = Base
  BY <1>1, <1>3, RowBounds
<1>6. Base \in S
  <2>1. Base + 2 <= NextChunk(mem, Base) /\ NextChunk(mem, Base) \in Int
    BY <1>1, <1>2, RowBounds
  <2> QED
    BY <2>1, <1>2, <1>3
<1>7. First(S) \in S
  BY <1>5, <1>6, FirstOf
<1> QED
  BY <1>4, <1>5, <1>7

LEMMA CollectorBaseMarked ==
    ASSUME InMemory, NoSaves, Sound, Sound', LiveSound, PointersSound, MustSurvive, CollectorStep,
           phase' \in {"registers", "heap"}, Base \in Blocks(mem')
    PROVE  mem'[Base].mark
<1>1. /\ Collecting /\ heapBasePtr = Base /\ Base \in Blocks(mem) /\ Base \in Row(mem)
  BY CollectorStays
<1>2. CASE MarkRoots
  <2> DEFINE found == {checkIfValueIsAllocatedBlockAddr(mem, v) : v \in RootValues(place)}
  <2>1. mem' = Marked(mem, found \ {NULL}) /\ UNCHANGED heapVars
    BY <1>2 DEF MarkRoots
  <2>2. Base \in RootValues(place)
    BY <1>1 DEF RootValues
  <2>3. Base \in found \ {NULL}
    BY <2>2, <1>1, BaseFound, Bases
  <2> QED
    BY <2>1, <2>3, <1>1, MarksGrow
<1>3. CASE phase \in {"registers", "heap"} /\ UNCHANGED heapVars /\ \E S : mem' = Marked(mem, S)
  <2>1. mem[Base].mark
    BY <1>1, <1>3 DEF MustSurvive
  <2> QED
    BY <2>1, <1>1, <1>3, MarksGrow
<1>4. CASE checkAndMarkRegisters
  BY <1>3, <1>4 DEF checkAndMarkRegisters, Collect
<1>5. CASE recurseAndMarkHeap
  BY <1>3, <1>5 DEF recurseAndMarkHeap, Collect
<1>6. CASE traverseAndMarkHeap \/ RecursionReturns
  BY <1>1, <1>6 DEF traverseAndMarkHeap, RecursionReturns, Collect, MustSurvive
<1>7. CASE \/ MarkingEnds \/ SweepKeeps \/ SweepFrees \/ callDestructor \/ FinalizerReturns
           \/ AllocateInFinalizer \/ SweepEnds \/ ConsolidateSkips
           \/ ConsolidateMerges \/ ConsolidateEnds
  BY <1>7 DEF MarkingEnds, SweepKeeps, SweepFrees, callDestructor, FinalizerReturns,
     AllocateInFinalizer, SweepEnds, ConsolidateSkips, ConsolidateMerges, ConsolidateEnds, Collect
<1> QED
  BY <1>2, <1>4, <1>5, <1>6, <1>7 DEF CollectorStep

\* The marked blocks are closed and hold what was reachable and the first block,
\* so they hold what must survive.
LEMMA MustMarked ==
    ASSUME Sound, Sound', LiveSound, LiveSound', MustSurvive, MarkingEnds
    PROVE  \A s \in Must : s \in Blocks(mem) /\ mem[s].mark
<1> DEFINE M == {s \in Blocks(mem) : mem[s].mark}
<1>1. /\ phase = "heap" /\ phase' = "sweep" /\ Collecting /\ at' = heapBasePtr
      /\ mem' = mem /\ frames = <<>> /\ ~InHeap /\ UNCHANGED <<before, live>>
  BY DEF MarkingEnds, Collect, Collecting, calls, history
<1>2. /\ heapBasePtr = Base /\ mem \in Memory /\ IsRow(mem, Row(mem))
      /\ Blocks(mem) = {s \in Row(mem) : mem[s].alloc} /\ Blocks(mem) = Blocks(before)
  BY <1>1, MarkingWords
<1>3. /\ M \subseteq Blocks(before)
      /\ \A s \in M : \A a \in Data(before, s) : Pointees(before, before[a]) \subseteq M
  BY <1>1, MarkedAreClosed
<1>4. live \subseteq M
  <2> SUFFICES ASSUME NEW s \in live PROVE s \in M
    OBVIOUS
  <2>1. s \in Row(mem) /\ mem[s].alloc
    BY <1>1, LiveWords
  <2>2. s \in Int /\ s >= Base
    BY <2>1, <1>2, RowBounds, AllocAssumption
  <2>3. mem[s].mark
    BY <2>2, <1>1, <1>2 DEF LiveSound, SweepSound
  <2> QED
    BY <2>1, <2>3, <1>2
<1>5. Pinned(before) \subseteq M
  BY <1>1, <1>2 DEF Pinned, MustSurvive
<1>6. live \cup Pinned(before) \in SUBSET Blocks(before)
  BY <1>3, <1>4, <1>5
<1>7. M \in ClosedSets(before, live \cup Pinned(before))
  BY <1>3, <1>4, <1>5 DEF ClosedSets
<1>8. Must \subseteq M
  BY <1>6, <1>7, ClosureIsLeast DEF Must
<1> QED
  BY <1>8

\* Sweep frees none of what must survive.
LEMMA SweepMust ==
    ASSUME InMemory, NoSaves, Sound, Sound', LiveSound, PointersSound, MustSurvive,
           CollectorStep, phase' \in {"sweep", "finalizing"}, NEW s \in Must
    PROVE  s \in Blocks(mem') /\ (s >= at' => mem'[s].mark)
<1>1. /\ Collecting /\ heapBasePtr = Base /\ mem \in Memory /\ IsRow(mem, Row(mem))
      /\ Blocks(mem) = {t \in Row(mem) : mem[t].alloc}
      /\ mem' \in Memory /\ IsRow(mem', Row(mem'))
      /\ Blocks(mem') = {t \in Row(mem') : mem'[t].alloc}
  BY CollectorStays
<1>2. CASE MarkingEnds
  <2>1. LiveSound' /\ mem' = mem
    BY <1>2, CollectorStepLive DEF MarkingEnds
  <2> QED
    BY <2>1, <1>2, MustMarked
<1>3. CASE callDestructor
  BY <1>3 DEF callDestructor, Collect, MustSurvive
<1>4. CASE /\ phase \in {"sweep", "finalizing"} /\ InHeap /\ at' = NextChunk(mem, at)
           /\ \/ mem' = mem
              \/ mem' = Unmarked(mem, at)
              \/ mem' = Freed(mem, at) /\ ~mem[at].mark
  <2>1. at \in Row(mem) /\ at \in Addr
    BY <1>1, <1>4, SweepPosition
  <2>2. /\ at \in Int /\ NextChunk(mem, at) \in Int /\ at + 2 <= NextChunk(mem, at)
    BY <1>1, <2>1, RowBounds
  <2>3. s \in Row(mem) /\ mem[s].alloc /\ (s >= at => mem[s].mark)
    BY <1>1, <1>4 DEF MustSurvive
  <2>4. s \in Int /\ s \in Addr
    BY <1>1, <2>3, RowBounds
  <2>5. /\ \A a \in Addr \ {at} : mem'[a] = mem[a]
        /\ \A t \in Addr : mem'[t].val = mem[t].val /\ (mem'[t].alloc => mem[t].alloc)
        /\ mem[at].alloc /\ mem[at].mark => mem'[at].alloc
    <3>1. CASE mem' = mem
      BY <3>1
    <3>2. CASE mem' = Unmarked(mem, at)
      BY <3>2, <1>1, <2>1, UnmarkedHeader
    <3>3. CASE mem' = Freed(mem, at) /\ ~mem[at].mark
      BY <3>3, <1>1, <2>1, FreedHeader
    <3> QED
      BY <3>1, <3>2, <3>3, <1>4
  <2>6. Row(mem') = Row(mem)
    BY <1>1, <2>5, SameRow, RowOf DEF IsRow
  <2>7. mem'[s].alloc
    <3>1. CASE s = at
      <4>1. mem[at].alloc /\ mem[at].mark
        BY <3>1, <2>3, <2>4
      <4> QED
        BY <3>1, <4>1, <2>5
    <3>2. CASE s # at
      BY <3>2, <2>3, <2>4, <2>5
    <3> QED
      BY <3>1, <3>2
  <2>8. ASSUME s >= at' PROVE mem'[s].mark
    <3>1. s # at /\ s >= at
      BY <1>4, <2>2, <2>4, <2>8
    <3> QED
      BY <3>1, <2>3, <2>4, <2>5
  <2> QED
    BY <1>1, <2>3, <2>6, <2>7, <2>8
<1>5. CASE SweepKeeps
  BY <1>4, <1>5 DEF SweepKeeps, Collect
<1>6. CASE SweepFrees
  BY <1>4, <1>6 DEF SweepFrees, Collect, Unreachable
<1>7. CASE FinalizerReturns
  BY <1>4, <1>7, FinalizingPosition DEF FinalizerReturns, Collect, Sound, PositionSound
<1>8. CASE \/ MarkRoots \/ checkAndMarkRegisters \/ traverseAndMarkHeap \/ recurseAndMarkHeap
           \/ RecursionReturns \/ AllocateInFinalizer \/ SweepEnds \/ ConsolidateSkips
           \/ ConsolidateMerges \/ ConsolidateEnds
  BY <1>8 DEF MarkRoots, checkAndMarkRegisters, traverseAndMarkHeap, recurseAndMarkHeap,
     RecursionReturns, AllocateInFinalizer, SweepEnds, ConsolidateSkips,
     ConsolidateMerges, ConsolidateEnds, Collect
<1> QED
  BY <1>2, <1>3, <1>5, <1>6, <1>7, <1>8 DEF CollectorStep

LEMMA CollectorMustSurvive ==
    ASSUME InMemory, NoSaves, Sound, Sound', LiveSound, PointersSound, MustSurvive, CollectorStep
    PROVE  MustSurvive'
<1>1. /\ Must' = Must
      /\ Blocks(mem) = {s \in Row(mem) : mem[s].alloc}
      /\ Blocks(mem') = {s \in Row(mem') : mem'[s].alloc}
  BY CollectorStays
<1>2. ASSUME phase' \in {"consolidate", "retry"}, NEW s \in Must PROVE s \in Blocks(mem')
  <2>1. SweepEnds \/ ConsolidateSkips \/ ConsolidateMerges \/ ConsolidateEnds
    BY <1>2 DEF CollectorStep, MarkRoots, checkAndMarkRegisters, traverseAndMarkHeap,
       recurseAndMarkHeap, RecursionReturns, MarkingEnds, SweepKeeps, SweepFrees,
       callDestructor, FinalizerReturns, AllocateInFinalizer, Collect
  <2>2. s \in Blocks(mem)
    BY <2>1 DEF SweepEnds, ConsolidateSkips, ConsolidateMerges, ConsolidateEnds, Collect, MustSurvive
  <2>3. CASE ConsolidateMerges
    <3>1. /\ ~mem[at].alloc /\ ~mem[NextChunk(mem, at)].alloc
          /\ Row(mem') = Row(mem) \ {NextChunk(mem, at)} /\ Row(mem) \subseteq Addr
          /\ \A a \in Addr \ {at} : mem'[a] = mem[a]
      BY <2>3, Merges DEF IsRow
    <3> QED
      BY <3>1, <2>2, <1>1
  <2>4. CASE SweepEnds \/ ConsolidateSkips \/ ConsolidateEnds
    BY <2>2, <2>4 DEF SweepEnds, ConsolidateSkips, ConsolidateEnds
  <2> QED
    BY <2>1, <2>3, <2>4
<1>3. phase' \in {"sweep", "finalizing"} =>
          \A s \in Must : s \in Blocks(mem') /\ (s >= at' => mem'[s].mark)
  BY SweepMust
<1>4. phase' \in {"registers", "heap"} /\ Base \in Blocks(mem') => mem'[Base].mark
  BY CollectorBaseMarked
<1> QED
  BY <1>1, <1>2, <1>3, <1>4 DEF MustSurvive

\* Behind the chunk that consolidate stands on no two free chunks are neighbours.
LEMMA ConsolidateApart ==
    ASSUME InMemory, NoSaves, Sound, Sound', LiveSound, PointersSound, FreeApart, CollectorStep,
           phase' = "consolidate", NEW s \in Row(mem'), s < at'
    PROVE  Apart(mem', s)
<1>1. /\ Collecting /\ heapBasePtr = Base /\ mem \in Memory /\ IsRow(mem, Row(mem))
      /\ mem' \in Memory /\ IsRow(mem', Row(mem'))
  BY CollectorStays
<1>2. s \in Int /\ Base <= s /\ s \in Addr
  BY <1>1, RowBounds
<1>3. CASE SweepEnds
  <2>1. at' = Base
    BY <1>1, <1>3 DEF SweepEnds
  <2> QED
    BY <2>1, <1>2, AllocAssumption
<1>4. CASE ConsolidateSkips
  <2>1. /\ phase = "consolidate" /\ InHeap /\ mem' = mem /\ at' = NextChunk(mem, at)
        /\ mem[at].alloc \/ mem[NextChunk(mem, at)].alloc
    BY <1>4 DEF ConsolidateSkips, Collect
  <2>2. at \in Row(mem)
    BY <2>1, SweepPosition
  <2>3. at \in Int /\ NextChunk(mem, at) \in Int /\ (at < s => NextChunk(mem, at) <= s)
    BY <1>1, <2>1, <2>2, RowBounds DEF IsRow
  <2>4. s < at \/ s = at
    BY <1>2, <2>1, <2>3
  <2> QED
    BY <2>1, <2>4 DEF FreeApart, Apart
<1>5. CASE ConsolidateMerges
  <2> DEFINE next == NextChunk(mem, at)
  <2>1. /\ phase = "consolidate" /\ at' = at
    BY <1>5 DEF ConsolidateMerges, Collect
  <2>2. /\ at \in Row(mem) /\ at \in Addr /\ ~mem[at].alloc
        /\ Row(mem') = Row(mem) \ {next} /\ \A a \in Addr \ {at} : mem'[a] = mem[a]
    BY <1>5, Merges
  <2>3. s \in Row(mem) /\ s # at /\ s < at
    BY <1>2, <2>1, <2>2, AllocAssumption DEF Addr
  <2>4. Apart(mem, s)
    BY <2>1, <2>3 DEF FreeApart
  <2>5. mem'[s] = mem[s]
    BY <1>2, <2>2, <2>3
  <2>6. NextChunk(mem', s) = NextChunk(mem, s)
    BY <2>5 DEF NextChunk
  <2>7. NextChunk(mem, s) = End \/ NextChunk(mem, s) \in Addr
    BY <1>1, <2>3 DEF IsRow
  <2>8. mem[NextChunk(mem, s)].alloc => NextChunk(mem, s) # at
    BY <2>2
  <2> QED
    BY <2>2, <2>4, <2>5, <2>6, <2>7, <2>8 DEF Apart
<1>6. SweepEnds \/ ConsolidateSkips \/ ConsolidateMerges
  BY DEF CollectorStep, MarkRoots, checkAndMarkRegisters, traverseAndMarkHeap,
     recurseAndMarkHeap, RecursionReturns, MarkingEnds, SweepKeeps, SweepFrees,
     callDestructor, FinalizerReturns, AllocateInFinalizer, ConsolidateEnds, Collect
<1> QED
  BY <1>3, <1>4, <1>5, <1>6

LEMMA CollectorFreeApart ==
    ASSUME InMemory, NoSaves, Sound, Sound', LiveSound, PointersSound, FreeApart, CollectorStep
    PROVE  FreeApart'
<1>1. ASSUME phase' = "retry", NEW s \in Row(mem') PROVE Apart(mem', s)
  <2>1. ConsolidateEnds
    BY <1>1 DEF CollectorStep, MarkRoots, checkAndMarkRegisters, traverseAndMarkHeap,
       recurseAndMarkHeap, RecursionReturns, MarkingEnds, SweepKeeps, SweepFrees, callDestructor,
       FinalizerReturns, AllocateInFinalizer, SweepEnds, ConsolidateSkips, ConsolidateMerges, Collect
  <2>2. phase = "consolidate" /\ mem' = mem /\ (~InHeap \/ LastChunk)
    BY <2>1 DEF ConsolidateEnds, Collect
  <2>3. /\ mem \in Memory /\ IsRow(mem, Row(mem)) /\ s \in Row(mem) /\ heapBasePtr = Base
        /\ at \in Row(mem) \cup {End}
    BY <2>2, <1>1, CollectorStays DEF Sound, PositionSound
  <2>4. /\ s \in Int /\ s <= Base + Space - 1 /\ NextChunk(mem, s) \in Int
        /\ \A t \in Row(mem) : t \in Int /\ t <= Base + Space - 1
    BY <2>3, RowBounds
  <2>5. CASE s < at
    BY <2>2, <2>5 DEF FreeApart
  <2>6. CASE ~(s < at)
    <3>1. at \in Row(mem) /\ at < Base + Space
      BY <2>3, <2>4, <2>6, AllocAssumption DEF End
    <3>2. LastChunk
      BY <2>2, <3>1 DEF InHeap
    <3>3. NextChunk(mem, at) \in Row(mem) \cup {End}
      BY <2>3, <3>1 DEF IsRow
    <3>4. NextChunk(mem, at) = End
      <4> DEFINE next == NextChunk(mem, at)
      <4>1. next >= Base + Space
        BY <3>2 DEF LastChunk
      <4>2. next \in Row(mem) => next \in Int /\ next <= Base + Space - 1
        BY <2>4
      <4> HIDE DEF next
      <4>3. next \notin Row(mem)
        BY <4>1, <4>2, AllocAssumption
      <4> QED
        BY <3>3, <4>3 DEF next
    <3>5. s = at
      <4>1. at < s => NextChunk(mem, at) <= s
        BY <2>3, <3>1 DEF IsRow
      <4> QED
        BY <4>1, <3>1, <3>4, <2>4, <2>6, AllocAssumption DEF End
    <3> QED
      BY <3>4, <3>5, <2>2 DEF Apart
  <2> QED
    BY <2>5, <2>6
<1>2. phase' = "consolidate" => \A s \in Row(mem') : s < at' => Apart(mem', s)
  BY ConsolidateApart
<1> QED
  BY <1>1, <1>2 DEF FreeApart

\* Between two collections no block is marked.
LEMMA TakesUnmarked ==
    ASSUME Sound, Sound', Takes, \A s \in Blocks(mem) : ~mem[s].mark
    PROVE  \A s \in Blocks(mem') : ~mem'[s].mark
<1>1. PICK k \in Sizes, f \in Finalizers :
          findSpace(mem, k) # NULL /\ mem' = Allocated(mem, findSpace(mem, k), k, f)
  BY DEF Takes
<1> DEFINE t == findSpace(mem, k)
<1>2. /\ mem \in Memory /\ IsRow(mem, Row(mem)) /\ k \in Nat /\ f \in Nat
  BY Basics, AllocAssumption, FinalizerAssumption DEF Takes, NULL, prints, saves, allocates
<1>3. t \in Row(mem) /\ ~mem[t].alloc /\ mem[t].val > k + 2
  BY <1>1, <1>2, SpaceFound
<1>4. /\ mem' \in Memory /\ IsRow(mem', Row(mem) \cup {t + k + 2})
      /\ mem'[t] = Header(k) /\ ~mem'[t + k + 2].alloc
      /\ \A a \in Addr : a < t \/ a >= NextChunk(mem, t) => mem'[a] = mem[a]
  <2>1. IsRow(mem', Row(mem) \cup {t + k + 2})
    BY <1>1, <1>2, <1>3, AllocatedHeap
  <2> QED
    BY <2>1, <1>1, <1>2, <1>3, AllocatedHeap
<1>5. /\ Blocks(mem) = {s \in Row(mem) : mem[s].alloc}
      /\ Blocks(mem') = {s \in Row(mem) \cup {t + k + 2} : mem'[s].alloc}
  BY <1>2, <1>4, RowOf
<1> SUFFICES ASSUME NEW s \in Blocks(mem') PROVE ~mem'[s].mark
  OBVIOUS
<1>6. s \in Row(mem)
  BY <1>4, <1>5
<1>7. CASE s = t
  BY <1>4, <1>7 DEF Header
<1>8. CASE s # t
  <2>1. /\ s \in Int /\ t \in Int /\ s \in Addr /\ NextChunk(mem, t) \in Int
        /\ (t < s => NextChunk(mem, t) <= s)
    BY <1>2, <1>3, <1>6, RowBounds DEF IsRow
  <2>2. mem'[s] = mem[s]
    BY <1>4, <1>8, <2>1
  <2> QED
    BY <2>2, <1>5, <1>6
<1> QED
  BY <1>7, <1>8

LEMMA ProgramUnmarked ==
    ASSUME Sound, Sound', MayMark, ProgramStep, NEW s \in Blocks(mem')
    PROVE  ~mem'[s].mark
<1>1. phase = "user" /\ \A t \in Blocks(mem) : ~mem[t].mark
  BY DEF MayMark, ProgramStep, memInitialize, AllocateUninitialized, AllocateFits,
     AllocateAtNull, Assign, Store
<1>2. CASE memInitialize
  <2>1. CASE mem' = mem
    BY <2>1, <1>1
  <2>2. CASE heapBasePtr' = Base /\ mem' = [mem EXCEPT ![Base] = Plain(Space)]
    <3>1. mem \in Memory /\ Base \in Addr /\ mem'[Base] = Plain(Space) /\ mem' \in Memory
      BY <2>2, Basics, Bases DEF Memory, Sound, TypeOK
    <3>2. IsRow(mem', {Base})
      BY <3>1, InitialRow
    <3>3. s = Base /\ mem'[Base].alloc
      BY <3>1, <3>2, RowOf
    <3> QED
      BY <3>1, <3>3 DEF Plain
  <2> QED
    BY <2>1, <2>2, <1>2 DEF memInitialize
<1>3. CASE mem' = mem
  BY <1>1, <1>3
<1>4. ASSUME NEW d \in Holders \cup {Discard}, AllocateUninitialized(d) PROVE ~mem'[s].mark
  BY <1>3, <1>4 DEF AllocateUninitialized
<1>5. ASSUME NEW d \in Holders \cup {Discard}, NEW n \in Sizes, NEW f \in Finalizers,
             AllocateFits(n, f, d)
      PROVE  ~mem'[s].mark
  <2>1. Takes
    BY <1>5, Basics DEF AllocateFits, Takes, heapVars
  <2> QED
    BY <2>1, <1>1, TakesUnmarked
<1>6. CASE AllocateAtNull
  BY <1>3, <1>6 DEF AllocateAtNull
<1>7. ASSUME NEW r \in Holders, NEW v \in Values, Assign(r, v) PROVE ~mem'[s].mark
  BY <1>3, <1>7 DEF Assign
<1>8. ASSUME NEW a \in Addr, NEW v \in Values, Store(a, v) PROVE ~mem'[s].mark
  <2>1. a \in Accessible /\ mem' = [mem EXCEPT ![a] = Plain(v)]
    BY <1>8 DEF Store
  <2>2. /\ a \in Addr \ Row(mem) /\ mem \in Memory /\ IsRow(mem, Row(mem))
    BY <2>1, AccessibleWords
  <2>3. Row(mem') = Row(mem) /\ mem' \in Memory
    <3>1. Row(mem') = Row(mem)
      BY <1>8, StoreSound
    <3>2. mem' \in Memory
      BY DEF Sound, TypeOK, Memory
    <3> QED
      BY <3>1, <3>2
  <2>4. \A t \in Row(mem) : mem'[t] = mem[t]
    BY <2>1, <2>2 DEF Memory, IsRow
  <2>5. IsRow(mem', Row(mem))
    BY <2>2, <2>3, <2>4, SameRow
  <2>6. /\ Blocks(mem) = {t \in Row(mem) : mem[t].alloc}
        /\ Blocks(mem') = {t \in Row(mem) : mem'[t].alloc}
    BY <2>2, <2>3, <2>5, RowOf
  <2> QED
    BY <2>4, <2>6, <1>1
<1> QED
  BY <1>2, <1>4, <1>5, <1>6, <1>7, <1>8 DEF ProgramStep

LeavesSound == MayMark /\ MaySurvive /\ MustSurvive /\ FreeApart

LEMMA ProgramLeaves ==
    ASSUME Sound, Sound', LeavesSound, ProgramStep
    PROVE  LeavesSound'
<1>1. phase' \in {"user", "fault"}
  BY DEF ProgramStep, memInitialize, AllocateUninitialized, AllocateFits, AllocateAtNull,
     Assign, Store
<1>2. \A s \in Blocks(mem') : ~mem'[s].mark
  BY ProgramUnmarked DEF LeavesSound
<1> QED
  BY <1>1, <1>2 DEF LeavesSound, MayMark, MaySurvive, MustSurvive, FreeApart, Collecting

\* A collection begins with the heap as it is recorded, and without marks.
LEMMA CollectsLeaves ==
    ASSUME LeavesSound, NEW k, NEW f, NEW d, AllocateCollects(k, f, d)
    PROVE  LeavesSound'
<1>1. phase = "user" /\ phase' = "roots" /\ before' = mem /\ mem' = mem
  BY DEF AllocateCollects
<1>2. \A s \in Blocks(mem) : ~mem[s].mark
  BY <1>1 DEF LeavesSound, MayMark
<1> QED
  BY <1>1, <1>2 DEF LeavesSound, MayMark, MaySurvive, MustSurvive, FreeApart, Collecting

LEMMA RetryLeaves ==
    ASSUME Sound, Sound', LeavesSound, RetryAfterCollection
    PROVE  LeavesSound'
<1>1. phase = "retry" /\ phase' = "user" /\ Collecting
  BY DEF RetryAfterCollection, Collect, Collecting
<1>2. \A s \in Blocks(mem) : ~mem[s].mark
  BY <1>1 DEF LeavesSound, MaySurvive
<1>3. Takes \/ mem' = mem
  <2>1. /\ UNCHANGED heapVars
        /\ \/ /\ findSpace(mem, request.size) # NULL
              /\ mem' = Allocated(mem, findSpace(mem, request.size), request.size, request.fin)
           \/ mem' = mem
    BY DEF RetryAfterCollection, Collect
  <2>2. request.size \in Sizes /\ request.fin \in Finalizers /\ heapBasePtr = Base
    BY <1>1, Basics DEF Sound, RequestSound
  <2> QED
    BY <2>1, <2>2 DEF Takes, heapVars
<1>4. \A s \in Blocks(mem') : ~mem'[s].mark
  BY <1>2, <1>3, TakesUnmarked
<1> QED
  BY <1>1, <1>4 DEF LeavesSound, MayMark, MaySurvive, MustSurvive, FreeApart, Collecting

LEMMA NextLeaves ==
    ASSUME InMemory, NoSaves, Sound, Sound', LiveSound, PointersSound, LeavesSound, [Next]_vars
    PROVE  LeavesSound'
<1>1. CASE ProgramStep
  BY <1>1, ProgramLeaves
<1>2. ASSUME NEW d \in Holders \cup {Discard}, NEW n \in Sizes, NEW f \in Finalizers,
             AllocateCollects(n, f, d)
      PROVE  LeavesSound'
  BY <1>2, CollectsLeaves
<1>3. CASE CollectorStep
  BY <1>3, CollectorMayMark, CollectorMaySurvive, CollectorMustSurvive, CollectorFreeApart
     DEF LeavesSound
<1>4. CASE RetryAfterCollection
  BY <1>4, RetryLeaves
<1>5. CASE UNCHANGED vars
  <2>1. UNCHANGED <<mem, place, phase, at, frames, before, live, heapBasePtr>>
    BY <1>5 DEF vars
  <2>2. May' = May /\ Must' = Must
    BY <2>1 DEF May, Must, RootValues
  <2> QED
    BY <2>1, <2>2 DEF LeavesSound, MayMark, MaySurvive, MustSurvive, FreeApart, Collecting
<1> QED
  BY <1>1, <1>2, <1>3, <1>4, <1>5, NextIs

LEMMA NextPointers ==
    ASSUME InMemory, NoSaves, Sound, Sound', LiveSound, PointersSound, [Next]_vars
    PROVE  PointersSound'
<1>1. CASE UNCHANGED vars
  BY <1>1 DEF vars, PointersSound, FinalizersKnown, NoDangling, RequestSound, Collecting
<1> QED
  BY <1>1, NextIs, ProgramPointers, CollectsPointers, CollectorPointers, RetryPointers

\* What is left when a collection has ended.
Survivors ==
    phase = "retry" =>
        /\ Must \subseteq Blocks(mem) /\ Blocks(mem) \subseteq May
        /\ \A s \in Blocks(mem) : ~mem[s].mark
        /\ \A s \in Row(mem) : Apart(mem, s)

\* A collection leaves no more than what the words of the program and of the
\* blocks they lead to may be taken to point to, no less than what they do point
\* to and the first block leads to, no mark, and no two free chunks side by
\* side, if the program keeps its pointers in memory and no finalizer keeps the
\* pointer it is called with (alloc.c:103-254).
THEOREM SurvivorsBetween ==
    ASSUME InMemory, NoSaves
    PROVE  Spec => []Survivors
<1>1. Init => LiveSound /\ PointersSound /\ LeavesSound
  BY InitLive, InitPointers, InitLeaves DEF LeavesSound
<1>2. Sound /\ Sound' /\ LiveSound /\ PointersSound /\ LeavesSound /\ [Next]_vars =>
          LiveSound' /\ PointersSound' /\ LeavesSound'
  BY NextLive, NextPointers, NextLeaves
<1>3. LeavesSound => Survivors
  BY DEF LeavesSound, MaySurvive, MustSurvive, FreeApart, Survivors
<1> QED
  BY <1>1, <1>2, <1>3, Invariance, PTL DEF Spec

\* Every word of the heap lies in a chunk.
LEMMA ChunkOfWord ==
    ASSUME NEW m \in Memory, NEW R, IsRow(m, R), NEW a \in Addr
    PROVE  \E c \in R : c <= a /\ a < NextChunk(m, c)
<1> DEFINE S == {s \in R : s <= a}
<1>1. a \in Nat /\ End \in Nat /\ Base <= a /\ a < End
  BY AllocAssumption DEF Addr, End
<1>2. \A s \in R : s \in 0 .. End /\ s \in Int
  BY <1>1, RowBounds, AllocAssumption DEF End
<1>3. Base \in S
  BY <1>1 DEF IsRow
<1>4. S \in SUBSET (0 .. End) /\ S # {}
  BY <1>2, <1>3
<1>5. PICK c \in S : \A s \in S : s <= c
  BY <1>1, <1>4, GreatestNat
<1>6. /\ c \in R /\ c <= a /\ c \in Int /\ NextChunk(m, c) \in Int /\ c + 2 <= NextChunk(m, c)
      /\ NextChunk(m, c) \in R \cup {End}
  BY <1>5, RowBounds
<1>7. NextChunk(m, c) \notin S
  BY <1>5, <1>6
<1>8. NextChunk(m, c) \in R => ~(NextChunk(m, c) <= a)
  BY <1>7
<1> QED
  BY <1>1, <1>6, <1>8

\* No chunk is found only if none is large enough.
LEMMA NoSpace ==
    ASSUME NEW m \in Memory, NEW R, IsRow(m, R), NEW k \in Nat, findSpace(m, k) = NULL,
           NEW s \in R, ~m[s].alloc
    PROVE  m[s].val <= k + 2
<1> DEFINE S == {t \in R : ~m[t].alloc /\ m[t].val > k + 2}
<1>1. \A t \in R : t \in Nat /\ t # NULL
  BY RowBounds, AllocAssumption DEF NULL
<1>2. findSpace(m, k) = First(S)
  BY RowOf DEF findSpace
<1>3. S = {}
  <2>1. S \in SUBSET Nat
    BY <1>1
  <2> HIDE DEF S
  <2>2. S # {} => First(S) \in S
    BY <2>1, FirstOf
  <2> QED
    BY <2>2, <1>1, <1>2 DEF S
<1>4. m[s].val \in Nat
  BY RowBounds
<1> QED
  BY <1>3, <1>4

\* A block that survives the collection had its size before.
LEMMA SurvivorTakes ==
    ASSUME Sound, LiveSound, LeavesSound, phase = "retry", NEW s \in Row(mem), mem[s].alloc
    PROVE  s \in May /\ NextChunk(before, s) = NextChunk(mem, s)
<1>1. Collecting
  BY DEF Collecting
<1>2. s \in Blocks(mem)
  BY <1>1, Basics, RowOf
<1>3. mem[s].val = before[s].val /\ s \in May
  BY <1>1, <1>2 DEF LeavesSound, MaySurvive
<1> QED
  BY <1>3 DEF NextChunk

LEMMA FullIfNull ==
    ASSUME Sound, LiveSound, LeavesSound
    PROVE  NullMeansFull
<1> DEFINE k == request.size
           taken == UNION {s .. NextChunk(before, s) - 1 : s \in May}
<1> SUFFICES ASSUME phase = "retry", findSpace(mem, k) = NULL,
                    NEW a \in Addr, a + k + 4 \in Addr
             PROVE  a .. a + k + 4 \cap taken # {}
  BY DEF NullMeansFull, May
<1>1. Collecting
  BY DEF Collecting
<1>2. mem \in Memory /\ IsRow(mem, Row(mem)) /\ k \in Nat /\ a \in Int /\ a + k + 4 < End
  <2>1. mem \in Memory /\ IsRow(mem, Row(mem))
    BY <1>1, Basics
  <2>2. k \in Nat
    BY <1>1, AllocAssumption DEF Sound, RequestSound
  <2> HIDE DEF k
  <2> QED
    BY <2>1, <2>2, AllocAssumption DEF Addr, End
<1> HIDE DEF k
<1>3. PICK c \in Row(mem) : c <= a /\ a < NextChunk(mem, c)
  BY <1>2, ChunkOfWord
<1>4. /\ c \in Int /\ NextChunk(mem, c) \in Int /\ mem[c].val \in Nat
      /\ NextChunk(mem, c) = c + mem[c].val + 2 /\ NextChunk(mem, c) \in Row(mem) \cup {End}
  BY <1>2, RowBounds
<1>5. CASE mem[c].alloc
  <2>1. c \in May /\ NextChunk(before, c) = NextChunk(mem, c)
    BY <1>5, SurvivorTakes
  <2>2. a \in c .. NextChunk(before, c) - 1 /\ a \in a .. a + k + 4
    BY <2>1, <1>2, <1>3, <1>4
  <2>3. a \in taken
    BY <2>1, <2>2
  <2> QED
    BY <2>2, <2>3
<1>6. CASE ~mem[c].alloc
  <2> DEFINE next == NextChunk(mem, c)
  <2>1. mem[c].val <= k + 2
    BY <1>2, <1>6, NoSpace DEF k
  <2>2. next \in a .. a + k + 4 /\ next # End
    BY <2>1, <1>2, <1>3, <1>4, AllocAssumption DEF End
  <2>3. next \in Row(mem) /\ mem[next].alloc
    BY <2>2, <1>4, <1>6 DEF LeavesSound, FreeApart, Apart
  <2>4. next \in May /\ NextChunk(before, next) = NextChunk(mem, next)
    BY <2>3, SurvivorTakes
  <2>5. next + 2 <= NextChunk(mem, next) /\ NextChunk(mem, next) \in Int /\ next \in Int
    BY <2>3, <1>2, RowBounds
  <2> HIDE DEF next
  <2>6. next \in next .. NextChunk(before, next) - 1
    BY <2>4, <2>5
  <2>7. next \in taken
    BY <2>4, <2>6
  <2> QED
    BY <2>2, <2>7
<1> QED
  BY <1>5, <1>6

\* memAllocate gives up only if between the blocks that any collector must keep
\* that cannot tell a pointer from another word there is nowhere room, if the
\* program keeps its pointers in memory and no finalizer keeps the pointer it is
\* called with (NullMeansFull; alloc.c:278-304).
THEOREM GivesUpOnlyIfFull ==
    ASSUME InMemory, NoSaves
    PROVE  Spec => []NullMeansFull
<1>1. Init => LiveSound /\ PointersSound /\ LeavesSound
  BY InitLive, InitPointers, InitLeaves DEF LeavesSound
<1>2. Sound /\ Sound' /\ LiveSound /\ PointersSound /\ LeavesSound /\ [Next]_vars =>
          LiveSound' /\ PointersSound' /\ LeavesSound'
  BY NextLive, NextPointers, NextLeaves
<1>3. Sound /\ LiveSound /\ LeavesSound => NullMeansFull
  BY FullIfNull
<1> QED
  BY <1>1, <1>2, <1>3, Invariance, PTL DEF Spec

-----------------------------------------------------------------------------
(* Collections that keep nothing by chance *)

\* The sizes of which the program asks make all blocks, with their two words of
\* header, multiples of some stride.
Strides(p) == p > 2 /\ \A n \in Sizes : \E j \in Nat : n + 2 = j * p

\* What the collector takes for a pointer then is one: blocks begin at multiples
\* of the stride, and all pointers there have ever been, stale ones in the data of
\* new blocks included, are behind the header of such a place.
NoChance == ~Interior /\ \E p \in Nat : Strides(p)

Stride == CHOOSE p \in Nat : Strides(p)
Grid == {Base + i * Stride : i \in Nat}

\* A word that is no address of the heap, or one behind a header.
Aligned(v) == v < Base \/ v - 2 \in Grid

LEMMA StrideIs == NoChance => Stride \in Nat /\ Strides(Stride)
BY DEF NoChance, Stride

LEMMA GridStep ==
    ASSUME NoChance, NEW s \in Grid, NEW k \in Sizes
    PROVE  s + k + 2 \in Grid
<1>1. Base \in Nat /\ k \in Nat /\ Stride \in Nat
  BY AllocAssumption, StrideIs
<1>2. PICK i \in Nat : s = Base + i * Stride
  BY DEF Grid
<1>3. PICK j \in Nat : k + 2 = j * Stride
  BY StrideIs DEF Strides
<1>4. i + j \in Nat /\ (i + j) * Stride = i * Stride + j * Stride
  BY <1>1
<1>5. i * Stride \in Nat /\ j * Stride \in Nat
  BY <1>1
<1>6. s + k + 2 = Base + (i + j) * Stride
  BY <1>1, <1>2, <1>3, <1>4, <1>5
<1> QED
  BY <1>4, <1>6 DEF Grid

LEMMA GridGap ==
    ASSUME NoChance, NEW s \in Grid, NEW t \in Grid, s <= t + 2
    PROVE  s <= t
<1>1. Base \in Nat /\ Stride \in Nat /\ Stride > 2
  BY AllocAssumption, StrideIs DEF Strides
<1>2. PICK i \in Nat : s = Base + i * Stride
  BY DEF Grid
<1>3. PICK j \in Nat : t = Base + j * Stride
  BY DEF Grid
<1>4. i * Stride \in Nat /\ j * Stride \in Nat
  BY <1>1
<1>5. CASE i > j
  <2> DEFINE d == i - j - 1
  <2>1. d \in Nat /\ i = j + d + 1
    BY <1>5
  <2> HIDE DEF d
  <2>2. i * Stride = j * Stride + d * Stride + Stride /\ d * Stride \in Nat
    BY <2>1, <1>1
  <2> QED
    BY <2>2, <1>1, <1>2, <1>3, <1>4
<1>6. CASE i <= j
  <2> DEFINE d == j - i
  <2>1. d \in Nat /\ j = i + d
    BY <1>6
  <2> HIDE DEF d
  <2>2. j * Stride = i * Stride + d * Stride /\ d * Stride \in Nat
    BY <2>1, <1>1
  <2> QED
    BY <2>2, <1>1, <1>2, <1>3, <1>4
<1> QED
  BY <1>5, <1>6

\* What a word may be taken to point to, it points to.
LEMMA SuspectsAreOwners ==
    ASSUME NoChance, NEW m \in Memory, IsRow(m, Row(m)), Row(m) \subseteq Grid,
           NEW v \in Nat, Aligned(v)
    PROVE  Suspects(m, v) \subseteq Owner(m, v)
<1> SUFFICES ASSUME NEW s \in Suspects(m, v) PROVE s \in Owner(m, v)
  OBVIOUS
<1>1. s \in Blocks(m) /\ s <= v /\ v <= NextChunk(m, s)
  BY DEF Suspects
<1>2. s \in Row(m) /\ s \in Grid /\ s \in Int /\ Base <= s
  BY <1>1, RowOf, RowBounds
<1>3. v - 2 \in Grid
  BY <1>1, <1>2, AllocAssumption DEF Aligned
<1>4. s <= (v - 2) + 2
  BY <1>1, <1>2
<1>5. s <= v - 2
  BY <1>2, <1>3, <1>4, GridGap
<1>6. s + 2 <= v
  BY <1>2, <1>5
<1> QED
  BY <1>1, <1>6 DEF Owner

AlignedHeap(m) == Row(m) \subseteq Grid /\ \A a \in Addr : Aligned(m[a].val)

AlignedSound ==
    /\ \A a \in Addr : Aligned(mem[a].val)
    /\ heapBasePtr = Base => Row(mem) \subseteq Grid
    /\ \A r \in Places : Aligned(place[r])
    /\ Collecting => AlignedHeap(before) /\ live = Reachable(before, place)

LEMMA BaseOnGrid == NoChance => Base \in Grid /\ Aligned(NULL) /\ Aligned(Space)
<1> SUFFICES ASSUME NoChance PROVE Base \in Grid /\ Aligned(NULL) /\ Aligned(Space)
  OBVIOUS
<1>1. Stride \in Nat /\ Base \in Nat /\ 0 \in Nat
  BY StrideIs, AllocAssumption
<1>2. Base = Base + 0 * Stride
  BY <1>1
<1> QED
  BY <1>1, <1>2, AllocAssumption DEF Grid, Aligned, NULL

LEMMA InitAligned == NoChance /\ Init => AlignedSound
<1> SUFFICES ASSUME NoChance, Init PROVE AlignedSound
  OBVIOUS
<1>1. /\ \A a \in Addr : mem[a].val = NULL
      /\ \A r \in Places : place[r] = NULL
      /\ heapBasePtr = NULL /\ ~Collecting
  BY DEF Init, Plain, NULL, Collecting
<1> QED
  BY <1>1, BaseOnGrid, Bases DEF AlignedSound

\* A header holds less than an address.
LEMMA HeaderAligned ==
    ASSUME NEW m \in Memory, NEW R, IsRow(m, R), NEW s \in R
    PROVE  Aligned(m[s].val)
BY RowBounds, AllocAssumption DEF Aligned, End

\* Allocation writes three words.
LEMMA AllocatedWords ==
    ASSUME NEW m \in Memory, NEW R, IsRow(m, R), NEW k \in Nat, NEW f \in Nat,
           NEW s \in R, ~m[s].alloc, m[s].val > k + 2,
           NEW a \in Addr, a # s, a # s + 1, a # s + k + 2
    PROVE  Allocated(m, s, k, f)[a] = m[a]
<1>1. DOMAIN m = Addr
  BY DEF Memory
<1> QED
  BY <1>1 DEF Allocated

\* A new block, its finalizer and the rest of the chunk.
LEMMA AllocatedAligned ==
    ASSUME NoChance, NEW m \in Memory, IsRow(m, Row(m)), AlignedHeap(m),
           NEW k \in Sizes, NEW f \in Finalizers, findSpace(m, k) # NULL
    PROVE  /\ AlignedHeap(Allocated(m, findSpace(m, k), k, f))
           /\ Aligned(findSpace(m, k) + 2)
<1> DEFINE s == findSpace(m, k)
           n == Allocated(m, s, k, f)
<1>1. k \in Nat /\ f \in Nat /\ f < Base
  BY AllocAssumption, FinalizerAssumption DEF NULL, prints, saves, allocates
<1>2. s \in Row(m) /\ ~m[s].alloc /\ m[s].val > k + 2
  BY <1>1, SpaceFound
<1> HIDE DEF s
<1>3. n = Allocated(m, s, k, f)
  OBVIOUS
<1> HIDE DEF n
<1>4. IsRow(n, Row(m) \cup {s + k + 2})
  BY <1>1, <1>2, <1>3, AllocatedHeap
<1>5. n \in Memory /\ n[s + 1] = Plain(f)
  BY <1>1, <1>2, <1>3, <1>4, AllocatedHeap
<1>6. s \in Grid
  BY <1>2 DEF AlignedHeap
<1>7. s + k + 2 \in Grid
  BY <1>6, GridStep
<1>8. Row(n) \subseteq Grid
  BY <1>5, <1>4, <1>7, RowOf DEF AlignedHeap
<1>9. ASSUME NEW a \in Addr PROVE Aligned(n[a].val)
  <2>1. CASE a = s \/ a = s + k + 2
    <3>1. a \in Row(m) \cup {s + k + 2}
      BY <2>1, <1>2
    <3> QED
      BY <3>1, <1>5, <1>4, HeaderAligned
  <2>2. CASE a = s + 1
    BY <2>2, <1>1, <1>5 DEF Plain, Aligned
  <2>3. CASE a # s /\ a # s + 1 /\ a # s + k + 2
    <3>1. n[a] = m[a]
      BY <2>3, <1>1, <1>2, <1>3, AllocatedWords
    <3> QED
      BY <3>1 DEF AlignedHeap
  <2> QED
    BY <2>1, <2>2, <2>3
<1>10. Aligned(s + 2)
  <2>1. s \in Int /\ (s + 2) - 2 = s
    BY <1>2, RowBounds
  <2> QED
    BY <2>1, <1>6 DEF Aligned
<1> QED
  BY <1>8, <1>9, <1>10 DEF AlignedHeap, s, n

LEMMA ReturnsAligned ==
    ASSUME NoChance, Sound, AlignedSound, NEW d \in Holders \cup {Discard}, NEW v,
           Returns(d, v), v = NULL \/ Aligned(v)
    PROVE  \A r \in Places : Aligned(place'[r])
<1>1. Aligned(v) /\ \A r \in Places : Aligned(place[r])
  BY BaseOnGrid DEF AlignedSound
<1>2. place \in [Places -> {NULL} \cup Base .. End]
  BY Basics
<1> QED
  BY <1>1, <1>2 DEF Returns

\* What the program copies is NULL, a word it has or a word it reads.
LEMMA ValuesAligned ==
    ASSUME NoChance, Sound, AlignedSound, NEW v \in Values
    PROVE  Aligned(v)
<1>1. \A b \in Accessible : b \in Addr
  BY AccessibleWords
<1>2. \A r \in Holders : Aligned(place[r])
  BY Basics DEF AlignedSound
<1>3. \A a \in Addr : Aligned(mem[a].val)
  BY DEF AlignedSound
<1>4. \/ v = NULL
      \/ \E r \in Holders : v = place[r]
      \/ \E a \in Accessible : v = mem[a].val
  BY DEF Values, NoChance
<1> QED
  BY <1>1, <1>2, <1>3, <1>4, BaseOnGrid

LEMMA ProgramAligned ==
    ASSUME NoChance, Sound, Sound', AlignedSound, ProgramStep
    PROVE  AlignedSound'
<1>1. ~Collecting'
  BY DEF Collecting, ProgramStep, memInitialize, AllocateUninitialized, AllocateFits,
     AllocateAtNull, Assign, Store
<1>2. ASSUME UNCHANGED <<mem, heapBasePtr>>, \A r \in Places : Aligned(place'[r])
      PROVE  AlignedSound'
  BY <1>1, <1>2 DEF AlignedSound
<1>3. CASE memInitialize
  <2>1. CASE UNCHANGED <<mem, heapBasePtr>>
    BY <2>1, <1>2, <1>3 DEF memInitialize, AlignedSound
  <2>2. CASE heapBasePtr' = Base /\ mem' = [mem EXCEPT ![Base] = Plain(Space)]
    <3>1. mem' \in Memory /\ mem'[Base] = Plain(Space) /\ \A a \in Addr : a # Base => mem'[a] = mem[a]
      BY <2>2, Basics, Bases DEF Memory, Sound, TypeOK
    <3>2. Row(mem') = {Base}
      BY <3>1, InitialRow, RowOf
    <3>3. \A a \in Addr : Aligned(mem'[a].val)
      BY <3>1, BaseOnGrid DEF AlignedSound, Plain
    <3>4. place' = place
      BY <1>3 DEF memInitialize
    <3> QED
      BY <3>2, <3>3, <3>4, <1>1, BaseOnGrid DEF AlignedSound
  <2> QED
    BY <2>1, <2>2, <1>3 DEF memInitialize
<1>4. ASSUME NEW d \in Holders \cup {Discard}, AllocateUninitialized(d) PROVE AlignedSound'
  BY <1>2, <1>4, ReturnsAligned DEF AllocateUninitialized, heapVars
<1>5. ASSUME NEW d \in Holders \cup {Discard}, NEW n \in Sizes, NEW f \in Finalizers,
             AllocateFits(n, f, d)
      PROVE  AlignedSound'
  <2>1. /\ heapBasePtr # NULL /\ heapBasePtr' = heapBasePtr /\ findSpace(mem, n) # NULL
        /\ mem' = Allocated(mem, findSpace(mem, n), n, f) /\ Returns(d, findSpace(mem, n) + 2)
    BY <1>5 DEF AllocateFits, heapVars
  <2>2. mem \in Memory /\ IsRow(mem, Row(mem)) /\ AlignedHeap(mem)
    BY <2>1, Basics DEF AlignedSound, AlignedHeap
  <2>3. AlignedHeap(mem') /\ Aligned(findSpace(mem, n) + 2)
    BY <2>1, <2>2, AllocatedAligned
  <2>4. \A r \in Places : Aligned(place'[r])
    BY <2>1, <2>3, ReturnsAligned
  <2> QED
    BY <2>3, <2>4, <1>1 DEF AlignedSound, AlignedHeap
<1>6. CASE AllocateAtNull
  BY <1>2, <1>6 DEF AllocateAtNull, heapVars, AlignedSound
<1>7. ASSUME NEW r \in Holders, NEW v \in Values, Assign(r, v) PROVE AlignedSound'
  <2>1. place' = [place EXCEPT ![r] = v] /\ UNCHANGED <<mem, heapBasePtr>>
    BY <1>7 DEF Assign, heapVars
  <2>2. \A q \in Places : place'[q] = v \/ place'[q] = place[q]
    BY <2>1, Basics
  <2>3. \A q \in Places : Aligned(place'[q])
    BY <2>2, ValuesAligned DEF AlignedSound
  <2> QED
    BY <2>1, <2>3, <1>2
<1>8. ASSUME NEW a \in Addr, NEW v \in Values, Store(a, v) PROVE AlignedSound'
  <2>1. /\ mem' = [mem EXCEPT ![a] = Plain(v)] /\ place' = place /\ heapBasePtr' = heapBasePtr
    BY <1>8 DEF Store, heapVars
  <2>2. Row(mem') = Row(mem)
    BY <1>8, StoreSound
  <2>3. mem \in Memory
    BY Basics
  <2>4. \A b \in Addr : mem'[b] = mem[b] \/ mem'[b].val = v
    BY <2>1, <2>3 DEF Memory, Plain
  <2>5. \A b \in Addr : Aligned(mem'[b].val)
    BY <2>4, ValuesAligned DEF AlignedSound
  <2> QED
    BY <2>1, <2>2, <2>5, <1>1 DEF AlignedSound
<1> QED
  BY <1>3, <1>4, <1>5, <1>6, <1>7, <1>8 DEF ProgramStep

\* The collector writes sizes only into headers.
LEMMA CollectorValues ==
    ASSUME InMemory, NoSaves, Sound, LiveSound, PointersSound, CollectorStep, NEW a \in Addr
    PROVE  mem'[a].val = mem[a].val \/ a \in Row(mem')
<1>1. /\ Collecting /\ mem \in Memory
  BY CollectorStays
<1>2. ASSUME NEW S, mem' = Marked(mem, S) PROVE mem'[a].val = mem[a].val
  BY <1>1, <1>2, MarkedHeap
<1>3. CASE mem' = mem
  BY <1>3
<1>4. CASE /\ phase \in {"sweep", "finalizing"} /\ InHeap
           /\ mem' = Unmarked(mem, at) \/ mem' = Freed(mem, at)
  <2>1. at \in Addr
    BY <1>4, SweepPosition
  <2>2. CASE mem' = Unmarked(mem, at)
    BY <2>1, <2>2, <1>1, UnmarkedHeader
  <2>3. CASE mem' = Freed(mem, at)
    BY <2>1, <2>3, <1>1, FreedHeader
  <2> QED
    BY <2>2, <2>3, <1>4
<1>5. CASE MarkRoots
  BY <1>2, <1>5 DEF MarkRoots
<1>6. CASE checkAndMarkRegisters
  BY <1>2, <1>6 DEF checkAndMarkRegisters
<1>7. CASE recurseAndMarkHeap
  BY <1>2, <1>7 DEF recurseAndMarkHeap
<1>8. CASE SweepKeeps
  BY <1>3, <1>4, <1>8 DEF SweepKeeps, Collect
<1>9. CASE SweepFrees
  BY <1>4, <1>9 DEF SweepFrees, Collect, Unreachable
<1>10. CASE FinalizerReturns
  BY <1>4, <1>10, FinalizingPosition DEF FinalizerReturns, Collect
<1>11. CASE ConsolidateMerges
  <2>1. /\ at \in Row(mem) /\ at # NextChunk(mem, at) /\ Row(mem') = Row(mem) \ {NextChunk(mem, at)}
        /\ \A b \in Addr \ {at} : mem'[b] = mem[b]
    BY <1>11, Merges
  <2> QED
    BY <2>1
<1>12. CASE \/ traverseAndMarkHeap \/ RecursionReturns \/ MarkingEnds \/ callDestructor
            \/ AllocateInFinalizer \/ SweepEnds \/ ConsolidateSkips \/ ConsolidateEnds
  BY <1>3, <1>12 DEF traverseAndMarkHeap, RecursionReturns, MarkingEnds, callDestructor,
     AllocateInFinalizer, SweepEnds, ConsolidateSkips, ConsolidateEnds
<1> QED
  BY <1>5, <1>6, <1>7, <1>8, <1>9, <1>10, <1>11, <1>12 DEF CollectorStep

LEMMA CollectorAligned ==
    ASSUME NoChance, InMemory, NoSaves, Sound, LiveSound, PointersSound, AlignedSound, CollectorStep
    PROVE  AlignedSound'
<1>1. /\ Collecting /\ heapBasePtr = Base
      /\ mem' \in Memory /\ IsRow(mem', Row(mem')) /\ UNCHANGED <<place, before, live>>
  BY CollectorStays
<1>2. Row(mem') \subseteq Row(mem)
  BY CollectorHeaders
<1>3. \A a \in Addr : mem'[a].val = mem[a].val \/ a \in Row(mem')
  BY CollectorValues
<1>4. \A a \in Row(mem') : Aligned(mem'[a].val)
  BY <1>1, HeaderAligned
<1>5. \A a \in Addr : Aligned(mem'[a].val)
  BY <1>3, <1>4 DEF AlignedSound
<1>6. AlignedHeap(before) /\ live = Reachable(before, place)
  BY <1>1 DEF AlignedSound
<1> QED
  BY <1>1, <1>2, <1>5, <1>6 DEF AlignedSound

LEMMA NextAligned ==
    ASSUME NoChance, InMemory, NoSaves, Sound, Sound', LiveSound, PointersSound, AlignedSound,
           [Next]_vars
    PROVE  AlignedSound'
<1>1. CASE ProgramStep
  BY <1>1, ProgramAligned
<1>2. ASSUME NEW d \in Holders \cup {Discard}, NEW n \in Sizes, NEW f \in Finalizers,
             AllocateCollects(n, f, d)
      PROVE  AlignedSound'
  <2>1. /\ heapBasePtr # NULL /\ before' = mem /\ live' = Reachable(mem, place)
        /\ UNCHANGED <<mem, place, heapBasePtr>>
    BY <1>2 DEF AllocateCollects, heapVars
  <2>2. heapBasePtr = Base
    BY <2>1, Basics
  <2> QED
    BY <2>1, <2>2 DEF AlignedSound, AlignedHeap
<1>3. CASE CollectorStep
  BY <1>3, CollectorAligned
<1>4. CASE RetryAfterCollection
  <2> DEFINE k == request.size
             f == request.fin
             d == request.dest
  <2>1. /\ phase = "retry" /\ ~Collecting' /\ UNCHANGED heapVars
        /\ IF findSpace(mem, k) # NULL
           THEN mem' = Allocated(mem, findSpace(mem, k), k, f) /\ Returns(d, findSpace(mem, k) + 2)
           ELSE Returns(d, NULL) /\ mem' = mem
    BY <1>4 DEF RetryAfterCollection, Collect, Collecting
  <2>2. /\ k \in Sizes /\ f \in Finalizers /\ d \in Holders \cup {Discard} /\ heapBasePtr = Base
    BY <2>1, Basics DEF Collecting, Sound, RequestSound
  <2>3. mem \in Memory /\ IsRow(mem, Row(mem)) /\ AlignedHeap(mem)
    BY <2>2, Basics DEF AlignedSound, AlignedHeap
  <2> HIDE DEF k, f, d
  <2>4. AlignedHeap(mem') /\ \A r \in Places : Aligned(place'[r])
    <3>1. CASE findSpace(mem, k) # NULL
      BY <3>1, <2>1, <2>2, <2>3, AllocatedAligned, ReturnsAligned
    <3>2. CASE findSpace(mem, k) = NULL
      BY <3>2, <2>1, <2>2, <2>3, ReturnsAligned
    <3> QED
      BY <3>1, <3>2
  <2> QED
    BY <2>1, <2>4 DEF AlignedSound, AlignedHeap
<1>5. CASE UNCHANGED vars
  BY <1>5 DEF vars, AlignedSound, Collecting
<1> QED
  BY <1>1, <1>2, <1>3, <1>4, <1>5, NextIs

\* If every suspect is a block pointed to, only what must survive may survive.
LEMMA MayAreMust ==
    ASSUME NoChance, Sound, LiveSound, AlignedSound, Collecting
    PROVE  May \subseteq Must
<1> DEFINE start == live \cup Pinned(before)
<1>1. /\ before \in Memory /\ IsRow(before, Row(before)) /\ live \subseteq Blocks(before)
      /\ Row(before) \subseteq Grid /\ \A a \in Addr : Aligned(before[a].val)
      /\ live = Reachable(before, place) /\ heapBasePtr = Base
  BY Basics DEF LiveSound, LiveKept, AlignedSound, AlignedHeap
<1>2. start \in SUBSET Blocks(before)
  BY <1>1 DEF Pinned
<1>3. /\ Must \subseteq Blocks(before) /\ start \subseteq Must
      /\ \A s \in Must : \A a \in Data(before, s) : Pointees(before, before[a]) \subseteq Must
  BY <1>2, ClosureIsLeast DEF Must, ClosedSets
<1>4. ASSUME NEW v \in RootValues(place) PROVE Suspects(before, v) \subseteq Must
  <2>1. CASE v = Base
    <3> SUFFICES ASSUME NEW s \in Suspects(before, v) PROVE s \in Must
      OBVIOUS
    <3>1. s \in Blocks(before) /\ s <= Base
      BY <2>1 DEF Suspects
    <3>2. s \in Int /\ Base <= s
      BY <3>1, <1>1, RowOf, RowBounds
    <3>3. s = Base
      BY <3>1, <3>2, AllocAssumption
    <3> QED
      BY <3>1, <3>3, <1>3 DEF Pinned
  <2>2. ASSUME NEW r \in Globals \cup Stack, v = place[r] PROVE Suspects(before, v) \subseteq Must
    <3>1. r \in Places
      BY DEF Places
    <3>2. v \in Nat /\ Aligned(v)
      BY <2>2, <3>1, Basics, AllocAssumption DEF AlignedSound, End, NULL
    <3>3. Suspects(before, v) \subseteq Owner(before, v)
      BY <3>2, <1>1, SuspectsAreOwners
    <3>4. Owner(before, v) \subseteq Reachable(before, place)
      BY <2>2, <3>1, ReachableBlocks DEF ClosedSets
    <3> QED
      BY <3>3, <3>4, <1>1, <1>3
  <2> QED
    BY <2>1, <2>2, <1>1 DEF RootValues
<1>5. ASSUME NEW s \in Must, NEW a \in Data(before, s), ~before[a].alloc, ~before[a].mark
      PROVE  Suspects(before, before[a].val) \subseteq Must
  <2>1. s \in Row(before)
    BY <1>1, <1>3, RowOf
  <2>2. s \in Int /\ NextChunk(before, s) \in Int
    BY <2>1, <1>1, RowBounds
  <2>3. a \in s + 1 .. NextChunk(before, s) - 1
    BY <2>2, <1>5 DEF Data
  <2>4. a \in Addr
    BY <2>1, <2>3, <1>1, DataWords
  <2>5. before[a].val \in Nat
    BY <2>4, <1>1 DEF Memory, Word
  <2>6. Suspects(before, before[a].val) \subseteq Owner(before, before[a].val)
    BY <2>4, <2>5, <1>1, SuspectsAreOwners
  <2>7. Pointees(before, before[a]) = Owner(before, before[a].val)
    BY <1>5 DEF Pointees
  <2> QED
    BY <2>6, <2>7, <1>3
<1>6. Must \in SuspectSets(before, RootValues(place))
  BY <1>3, <1>4, <1>5 DEF SuspectSets
<1> QED
  BY <1>6, SuspectedIsLeast DEF May

LEMMA NothingByChance ==
    ASSUME NoChance, Sound, LiveSound, LeavesSound, AlignedSound
    PROVE  Collected
<1> SUFFICES ASSUME phase = "retry"
             PROVE  /\ Blocks(mem) = Must
                    /\ \A s \in Blocks(mem) : ~mem[s].mark
                    /\ \A s \in Visited(mem) : ~mem[s].alloc /\ NextChunk(mem, s) # End =>
                                                   mem[NextChunk(mem, s)].alloc
  BY DEF Collected, Must
<1>1. Collecting
  BY DEF Collecting
<1>2. Visited(mem) = Row(mem)
  BY <1>1, Basics, RowOf
<1>3. Must \subseteq Blocks(mem) /\ Blocks(mem) \subseteq May /\ \A s \in Blocks(mem) : ~mem[s].mark
  BY DEF LeavesSound, MaySurvive, MustSurvive
<1>4. \A s \in Row(mem) : Apart(mem, s)
  BY DEF LeavesSound, FreeApart
<1>5. May \subseteq Must
  BY <1>1, MayAreMust
<1> QED
  BY <1>2, <1>3, <1>4, <1>5 DEF Apart

\* A collection leaves exactly the blocks that the program could reach when it
\* began and those the first block leads to, without marks, and no two free
\* chunks side by side, if the program keeps its pointers in memory, no finalizer
\* keeps the pointer it is called with, and nothing is taken for a pointer by
\* chance (Collected; alloc.c:103-254).
THEOREM CollectsTheRest ==
    ASSUME InMemory, NoSaves, NoChance
    PROVE  Spec => []Collected
<1>1. Init => LiveSound /\ PointersSound /\ LeavesSound /\ AlignedSound
  BY InitLive, InitPointers, InitLeaves, InitAligned DEF LeavesSound
<1>2. /\ Sound /\ Sound' /\ LiveSound /\ PointersSound /\ LeavesSound /\ AlignedSound /\ [Next]_vars
      => LiveSound' /\ PointersSound' /\ LeavesSound' /\ AlignedSound'
  BY NextLive, NextPointers, NextLeaves, NextAligned
<1>3. Sound /\ LiveSound /\ LeavesSound /\ AlignedSound => Collected
  BY NothingByChance
<1> QED
  BY <1>1, <1>2, <1>3, Invariance, PTL DEF Spec
=============================================================================
