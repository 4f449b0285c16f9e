--------------------------- MODULE ThreadsProofs ---------------------------
(***************************************************************************)
(* The lists of the thread library stay sound, for every set of addresses, *)
(* mutexes and condition variables.                                        *)
(***************************************************************************)
EXTENDS Threads, SequenceTheorems, TLAPS

Lists == [ListHead -> Seq(TCB)]

-----------------------------------------------------------------------------
(* What the list operators do, in terms of the sets of elements.  Sequences  *)
(* are opened in this section only.                                          *)

LEMMA AppendInjective1 ==
  ASSUME NEW S, NEW s \in Seq(S), NEW t \in S, IsInjective(s), t \notin Range(s)
  PROVE  /\ Append(s, t) \in Seq(S)
         /\ IsInjective(Append(s, t))
         /\ Range(Append(s, t)) = Range(s) \cup {t}
<1>1. /\ Append(s, t) \in Seq(S)
      /\ DOMAIN Append(s, t) = 1 .. (Len(s) + 1)
      /\ \A i \in 1 .. Len(s) : Append(s, t)[i] = s[i]
      /\ Append(s, t)[Len(s) + 1] = t
      /\ DOMAIN s = 1 .. Len(s) /\ Len(s) \in Nat
  OBVIOUS
<1>2. IsInjective(Append(s, t))
  BY <1>1 DEF IsInjective, Range
<1>3. Range(Append(s, t)) = Range(s) \cup {t}
  BY <1>1 DEF Range
<1> QED BY <1>1, <1>2, <1>3

LEMMA TailInjective ==
  ASSUME NEW S, NEW s \in Seq(S), IsInjective(s), s # <<>>
  PROVE  /\ Tail(s) \in Seq(S)
         /\ Head(s) \in S /\ Head(s) \in Range(s)
         /\ IsInjective(Tail(s))
         /\ Range(Tail(s)) = Range(s) \ {Head(s)}
         /\ Len(s) > 1 => Tail(s) # <<>>
<1>1. /\ Tail(s) \in Seq(S)
      /\ Head(s) = s[1] /\ Head(s) \in S
      /\ Len(s) \in Nat /\ Len(s) >= 1
      /\ DOMAIN s = 1 .. Len(s)
      /\ DOMAIN Tail(s) = 1 .. (Len(s) - 1)
      /\ \A i \in 1 .. (Len(s) - 1) : Tail(s)[i] = s[i + 1]
  BY HeadTailProperties, LenProperties
<1>2. IsInjective(Tail(s))
  BY <1>1 DEF IsInjective
<1>3. Range(Tail(s)) \subseteq Range(s) \ {Head(s)}
  BY <1>1 DEF IsInjective, Range
<1>4. ASSUME NEW x \in Range(s), x # Head(s)
      PROVE  x \in Range(Tail(s))
  <2>1. PICK i \in 1 .. Len(s) : s[i] = x
    BY <1>1 DEF Range
  <2>2. i - 1 \in 1 .. (Len(s) - 1) /\ Tail(s)[i - 1] = x
    BY <1>1, <1>4, <2>1
  <2> QED BY <1>1, <2>2 DEF Range
<1>5. Head(s) \in Range(s)
  BY <1>1 DEF Range
<1>6. Range(Tail(s)) = Range(s) \ {Head(s)}
  BY <1>3, <1>4
<1>7. ASSUME Len(s) > 1
      PROVE  Tail(s) # <<>>
  <2>1. 1 \in DOMAIN Tail(s)
    BY <1>1, <1>7
  <2>2. DOMAIN << >> = {}
    BY EmptySeq
  <2> QED BY <2>1, <2>2
<1> QED BY <1>1, <1>2, <1>5, <1>6, <1>7

LEMMA EmptyRange ==
  ASSUME NEW S, NEW s \in Seq(S)
  PROVE  /\ s = <<>> <=> Range(s) = {}
         /\ Range(s) \subseteq S
         /\ s # <<>> => Head(s) \in Range(s)
<1>1. DOMAIN s = 1 .. Len(s) /\ Len(s) \in Nat /\ \A i \in 1 .. Len(s) : s[i] \in S
  BY LenProperties, ElementOfSeq
<1>2. CASE s = <<>>
  BY <1>2 DEF Range
<1>3. CASE s # <<>>
  <2>1. 1 \in DOMAIN s /\ Head(s) = s[1]
    BY <1>1, <1>3, EmptySeq
  <2> QED BY <1>1, <1>3, <2>1 DEF Range
<1> QED BY <1>2, <1>3

LEMMA RemoveInjective ==
  ASSUME NEW S, NEW s \in Seq(S), IsInjective(s), NEW t \in Range(s)
  PROVE  LET r == RemoveAt(s, Position(s, t)) IN
         /\ r \in Seq(S) /\ t \in S
         /\ IsInjective(r)
         /\ Range(r) = Range(s) \ {t}
<1> DEFINE p == Position(s, t)
           a == SubSeq(s, 1, p - 1)
           b == SubSeq(s, p + 1, Len(s))
           r == a \o b
<1>1. Len(s) \in Nat /\ DOMAIN s = 1 .. Len(s) /\ \A i \in 1 .. Len(s) : s[i] \in S
  BY LenProperties, ElementOfSeq
<1>2. p \in 1 .. Len(s) /\ s[p] = t
  BY <1>1 DEF Position, Range
<1> HIDE DEF p
<1>3. /\ a \in Seq(S) /\ Len(a) = p - 1
      /\ \A i \in 1 .. (p - 1) : a[i] = s[i]
  BY <1>1, <1>2
<1>4. /\ b \in Seq(S) /\ Len(b) = Len(s) - p
      /\ \A i \in 1 .. (Len(s) - p) : b[i] = s[p + i]
  <2>1. p + 1 \in 1 .. (Len(s) + 1) /\ Len(s) - p \in Nat
    BY <1>1, <1>2
  <2>2. /\ b \in Seq(S)
        /\ Len(b) = IF p + 1 <= Len(s) THEN Len(s) - (p + 1) + 1 ELSE 0
        /\ \A i \in 1 .. (Len(s) - (p + 1) + 1) : b[i] = s[(p + 1) + i - 1]
    BY <1>1, <2>1, SubSeqProperties
  <2> HIDE DEF b
  <2>3. Len(b) = Len(s) - p
    <3>1. Len(s) \in Nat /\ p \in Nat /\ p <= Len(s)
      BY <1>1, <1>2
    <3>2. CASE p = Len(s)
      BY <2>2, <3>1, <3>2
    <3>3. CASE p < Len(s)
      <4>1. p + 1 <= Len(s) /\ Len(s) - (p + 1) + 1 = Len(s) - p
        BY <3>1, <3>3
      <4> QED BY <2>2, <4>1
    <3> QED BY <3>1, <3>2, <3>3
  <2>4. ASSUME NEW i \in 1 .. (Len(s) - p)
        PROVE  b[i] = s[p + i]
    <3>1. (p + 1) + i - 1 = p + i /\ i \in 1 .. (Len(s) - (p + 1) + 1)
      BY <1>1, <1>2
    <3> QED BY <2>2, <3>1
  <2> QED BY <2>2, <2>3, <2>4
<1> HIDE DEF a, b
<1>5. /\ r \in Seq(S) /\ Len(r) = Len(s) - 1 /\ DOMAIN r = 1 .. (Len(s) - 1)
      /\ \A i \in 1 .. (Len(s) - 1) : r[i] = IF i < p THEN s[i] ELSE s[i + 1]
  <2>1. /\ r \in Seq(S) /\ Len(r) = Len(a) + Len(b)
        /\ \A i \in 1 .. Len(r) :
              r[i] = IF i <= Len(a) THEN a[i] ELSE b[i - Len(a)]
    BY <1>3, <1>4, ConcatProperties
  <2> HIDE DEF r
  <2>2. Len(r) = Len(s) - 1 /\ DOMAIN r = 1 .. (Len(s) - 1)
    BY <1>1, <1>2, <1>3, <1>4, <2>1, LenProperties
  <2>3. ASSUME NEW i \in 1 .. (Len(s) - 1)
        PROVE  r[i] = IF i < p THEN s[i] ELSE s[i + 1]
    <3>1. CASE i < p
      BY <1>1, <1>2, <1>3, <2>1, <2>2, <3>1
    <3>2. CASE i >= p
      <4>1. /\ i - (p - 1) \in 1 .. (Len(s) - p)
            /\ p + (i - (p - 1)) = i + 1
            /\ ~(i <= p - 1)
        BY <1>1, <1>2, <3>2
      <4>2. r[i] = b[i - (p - 1)]
        BY <1>3, <2>1, <2>2, <4>1
      <4>3. b[i - (p - 1)] = s[p + (i - (p - 1))]
        BY <1>4, <4>1
      <4> QED BY <1>1, <1>2, <3>2, <4>1, <4>2, <4>3
    <3> QED BY <1>1, <1>2, <3>1, <3>2
  <2> QED BY <2>1, <2>2, <2>3
<1>6. RemoveAt(s, Position(s, t)) = r
  BY DEF RemoveAt, a, b, p
<1> HIDE DEF r
<1>7. IsInjective(r)
  <2> SUFFICES ASSUME NEW i \in DOMAIN r, NEW j \in DOMAIN r, r[i] = r[j]
               PROVE  i = j
    BY DEF IsInjective
  <2>1. PICK k \in 1 .. Len(s) : k = (IF i < p THEN i ELSE i + 1) /\ r[i] = s[k]
    BY <1>1, <1>2, <1>5
  <2>2. PICK l \in 1 .. Len(s) : l = (IF j < p THEN j ELSE j + 1) /\ r[j] = s[l]
    BY <1>1, <1>2, <1>5
  <2>3. k = l
    BY <1>1, <2>1, <2>2 DEF IsInjective
  <2> QED BY <1>2, <1>5, <2>1, <2>2, <2>3
<1>8. Range(r) \subseteq Range(s) \ {t}
  BY <1>1, <1>2, <1>5 DEF IsInjective, Range
<1>9. ASSUME NEW x \in Range(s), x # t
      PROVE  x \in Range(r)
  <2>1. PICK i \in 1 .. Len(s) : s[i] = x
    BY <1>1 DEF Range
  <2>2. CASE i < p
    BY <1>1, <1>2, <1>5, <2>1, <2>2 DEF Range
  <2>3. CASE i > p
    <3>1. i - 1 \in 1 .. (Len(s) - 1) /\ r[i - 1] = s[i]
      BY <1>1, <1>2, <1>5, <2>1, <2>3
    <3> QED BY <1>5, <2>1, <3>1 DEF Range
  <2> QED BY <1>1, <1>2, <1>9, <2>1, <2>2, <2>3
<1>10. Range(r) = Range(s) \ {t} /\ t \in S
  BY <1>1, <1>2, <1>8, <1>9
<1> QED BY <1>5, <1>6, <1>7, <1>10

LEMMA EmptyElems ==
  ASSUME NEW l \in Lists, NEW h \in ListHead
  PROVE  /\ l[h] = <<>> <=> Elems(l, h) = {}
         /\ Elems(l, h) \subseteq TCB
         /\ l[h] # <<>> => Head(l[h]) \in Elems(l, h)
BY EmptyRange DEF Lists, Elems

LEMMA PushLemma ==
  ASSUME NEW l \in Lists, OnePlace(l), NEW h \in ListHead, NEW t \in TCB,
         \A g \in ListHead : t \notin Elems(l, g)
  PROVE  LET k == Push(l, h, t) IN
         /\ k \in Lists /\ OnePlace(k)
         /\ k[h] = Append(l[h], t)
         /\ \A g \in ListHead \ {h} : k[g] = l[g]
         /\ \A g \in ListHead :
               Elems(k, g) = IF g = h THEN Elems(l, h) \cup {t} ELSE Elems(l, g)
<1> DEFINE k == Push(l, h, t)
<1>1. /\ l[h] \in Seq(TCB) /\ IsInjective(l[h]) /\ t \notin Range(l[h])
      /\ k[h] = Append(l[h], t) /\ DOMAIN k = ListHead
      /\ \A g \in ListHead \ {h} : k[g] = l[g]
      /\ k = [l EXCEPT ![h] = Append(l[h], t)]
  BY DEF Lists, OnePlace, Elems, Push
<1>2. /\ k[h] \in Seq(TCB) /\ IsInjective(k[h])
      /\ Range(k[h]) = Range(l[h]) \cup {t}
  BY <1>1, AppendInjective1
<1>3. k \in Lists
  BY <1>1, <1>2 DEF Lists
<1> HIDE DEF k
<1>4. \A g \in ListHead :
         Elems(k, g) = IF g = h THEN Elems(l, h) \cup {t} ELSE Elems(l, g)
  BY <1>1, <1>2 DEF Elems
<1>5. OnePlace(k)
  <2>1. \A g \in ListHead : IsInjective(k[g])
    BY <1>1, <1>2 DEF OnePlace
  <2>2. ASSUME NEW f \in ListHead, NEW g \in ListHead, f # g
        PROVE  Elems(k, f) \cap Elems(k, g) = {}
    BY <1>4, <2>2 DEF OnePlace
  <2> QED BY <2>1, <2>2 DEF OnePlace
<1> QED BY <1>1, <1>3, <1>4, <1>5 DEF k

\* Only list h changes, and t, wherever it stood, is what it loses.
LEMMA TakeLemma ==
  ASSUME NEW l \in Lists, OnePlace(l), NEW h \in ListHead, NEW t \in Elems(l, h),
         NEW k \in Lists, \A g \in ListHead \ {h} : k[g] = l[g],
         IsInjective(k[h]), Range(k[h]) = Elems(l, h) \ {t}
  PROVE  /\ OnePlace(k)
         /\ \A g \in ListHead : Elems(k, g) = Elems(l, g) \ {t}
<1>1. \A g \in ListHead : Elems(k, g) = Elems(l, g) \ {t}
  BY DEF Elems, OnePlace
<1>2. \A g \in ListHead : IsInjective(k[g])
  BY DEF OnePlace
<1>3. OnePlace(k)
  BY <1>1, <1>2 DEF OnePlace
<1> QED BY <1>1, <1>3

LEMMA PopLemma ==
  ASSUME NEW l \in Lists, OnePlace(l), NEW h \in ListHead, l[h] # <<>>
  PROVE  LET k == Pop(l, h)
             t == Head(l[h])
         IN  /\ k \in Lists /\ OnePlace(k)
             /\ t \in TCB /\ t \in Elems(l, h)
             /\ k[h] = Tail(l[h])
             /\ \A g \in ListHead \ {h} : k[g] = l[g]
             /\ \A g \in ListHead : Elems(k, g) = Elems(l, g) \ {t}
             /\ Len(l[h]) > 1 => k[h] # <<>>
<1>1. l[h] \in Seq(TCB) /\ IsInjective(l[h])
  BY DEF Lists, OnePlace
<1>2. /\ Tail(l[h]) \in Seq(TCB) /\ IsInjective(Tail(l[h]))
      /\ Head(l[h]) \in TCB /\ Head(l[h]) \in Elems(l, h)
      /\ Range(Tail(l[h])) = Elems(l, h) \ {Head(l[h])}
      /\ Len(l[h]) > 1 => Tail(l[h]) # <<>>
  BY <1>1, TailInjective DEF Elems
<1> DEFINE k == Pop(l, h)
<1>3. /\ k \in Lists /\ k[h] = Tail(l[h])
      /\ \A g \in ListHead \ {h} : k[g] = l[g]
  BY <1>2 DEF Pop, Lists
<1> HIDE DEF k
<1>4. OnePlace(k) /\ \A g \in ListHead : Elems(k, g) = Elems(l, g) \ {Head(l[h])}
  BY <1>2, <1>3, TakeLemma
<1> QED BY <1>2, <1>3, <1>4 DEF k

LEMMA UnlinkLemma ==
  ASSUME NEW l \in Lists, OnePlace(l), NEW h \in ListHead, NEW t \in Elems(l, h)
  PROVE  LET k == Unlink(l, h, t) IN
         /\ k \in Lists /\ OnePlace(k) /\ t \in TCB
         /\ \A g \in ListHead \ {h} : k[g] = l[g]
         /\ \A g \in ListHead : Elems(k, g) = Elems(l, g) \ {t}
<1> DEFINE s == RemoveAt(l[h], Position(l[h], t))
<1>1. l[h] \in Seq(TCB) /\ IsInjective(l[h]) /\ t \in Range(l[h])
  BY DEF Lists, OnePlace, Elems
<1>2. /\ s \in Seq(TCB) /\ IsInjective(s) /\ t \in TCB
      /\ Range(s) = Elems(l, h) \ {t}
  BY <1>1, RemoveInjective DEF Elems
<1> DEFINE k == Unlink(l, h, t)
<1>3. /\ k \in Lists /\ k[h] = s
      /\ \A g \in ListHead \ {h} : k[g] = l[g]
  <2>1. k = [l EXCEPT ![h] = s]
    BY DEF Unlink
  <2> HIDE DEF k, s
  <2> QED BY <1>2, <2>1 DEF Lists
<1> HIDE DEF k, s
<1>4. OnePlace(k) /\ \A g \in ListHead : Elems(k, g) = Elems(l, g) \ {t}
  BY <1>2, <1>3, TakeLemma
<1> QED BY <1>2, <1>3, <1>4 DEF k

LEMMA MoveLemma ==
  ASSUME NEW l \in Lists, OnePlace(l), NEW g \in ListHead, NEW h \in ListHead,
         l[g] # <<>>
  PROVE  LET k == Move(l, g, h)
             t == Head(l[g])
         IN  /\ k \in Lists /\ OnePlace(k)
             /\ t \in TCB /\ t \in Elems(l, g)
             /\ \A f \in ListHead : Elems(k, f) = IF f = h THEN Elems(l, f) \cup {t}
                                                  ELSE Elems(l, f) \ {t}
             /\ Len(l[g]) > 1 => k[g] # <<>>
             /\ \A f \in ListHead \ {g, h} : k[f] = l[f]
             /\ g # h => k[g] = Tail(l[g]) /\ k[h] = Append(l[h], t)
             /\ g = h => k[g] = Append(Tail(l[g]), t)
<1> DEFINE p == Pop(l, g)
           t == Head(l[g])
           k == Move(l, g, h)
<1>1. /\ p \in Lists /\ OnePlace(p)
      /\ t \in TCB /\ t \in Elems(l, g)
      /\ \A f \in ListHead : Elems(p, f) = Elems(l, f) \ {t}
      /\ Len(l[g]) > 1 => p[g] # <<>>
      /\ p[g] = Tail(l[g]) /\ \A f \in ListHead \ {g} : p[f] = l[f]
  BY PopLemma
<1>2. k = Push(p, h, t)
  BY DEF Move
<1> HIDE DEF p, t, k
<1>3. /\ k \in Lists /\ OnePlace(k)
      /\ k[h] = Append(p[h], t)
      /\ \A f \in ListHead \ {h} : k[f] = p[f]
      /\ \A f \in ListHead :
            Elems(k, f) = IF f = h THEN Elems(p, h) \cup {t} ELSE Elems(p, f)
  BY <1>1, <1>2, PushLemma
<1>4. \A f \in ListHead : Elems(k, f) = IF f = h THEN Elems(l, f) \cup {t}
                                        ELSE Elems(l, f) \ {t}
  BY <1>1, <1>3
<1>5. Len(l[g]) > 1 => k[g] # <<>>
  <2>1. CASE g = h
    BY <1>1, <1>3, <2>1, EmptyElems
  <2>2. CASE g # h
    BY <1>1, <1>3, <2>2
  <2> QED BY <2>1, <2>2
<1> QED BY <1>1, <1>3, <1>4, <1>5 DEF k, t

-----------------------------------------------------------------------------
(* The inductive invariant.  ThreadInv is about threads and joins, SyncInv   *)
(* about mutexes and condition variables.                                    *)

ThreadInv == Placement /\ HeapExact /\ JoinersListed /\ NoMutualJoin

SyncInv == LockQueues /\ CondWaiters

Inv == TypeOK /\ ThreadInv /\ SyncInv /\ ReadyNonEmpty

LEMMA HeadsDiffer ==
  /\ readyQueue \in ListHead /\ joiningList \in ListHead
  /\ readyQueue # joiningList
  /\ \A m \in Mutex : m \in ListHead /\ m \notin Cond /\ m # NULL
                      /\ m # readyQueue /\ m # joiningList
  /\ \A c \in Cond : c \in ListHead /\ c # readyQueue /\ c # joiningList
  /\ NULL \notin TCB /\ Main \in TCB
BY ThreadsAssumption DEF ListHead

\* The running thread is a live thread at the head of the ready queue.
LEMMA SelfFacts ==
  ASSUME Inv, status = "running"
  PROVE  /\ list \in Lists /\ OnePlace(list) /\ list[readyQueue] # <<>>
         /\ thread_self \in TCB /\ thread_self \in Elems(list, readyQueue)
         /\ \A h \in ListHead \ {readyQueue} : thread_self \notin Elems(list, h)
         /\ thread_self \in Live
<1>1. list \in Lists /\ OnePlace(list) /\ list[readyQueue] # <<>>
  BY DEF Inv, TypeOK, Lists, ThreadInv, Placement, ReadyNonEmpty
<1>2. thread_self \in TCB /\ thread_self \in Elems(list, readyQueue)
  BY <1>1, PopLemma, HeadsDiffer DEF thread_self
<1>3. \A h \in ListHead \ {readyQueue} : thread_self \notin Elems(list, h)
  BY <1>1, <1>2, HeadsDiffer DEF OnePlace
<1>4. thread_self \in Live
  BY <1>2, HeadsDiffer DEF Inv, ThreadInv, Placement, Listed
<1> QED BY <1>1, <1>2, <1>3, <1>4

\* Threads that change lists, joiningList excepted, disturb no join.
LEMMA ThreadInvKept ==
  ASSUME TypeOK, ThreadInv, UNCHANGED threadVars,
         list' \in Lists, OnePlace(list)',
         Listed(list)' = Listed(list),
         Elems(list, joiningList)' = Elems(list, joiningList)
  PROVE  ThreadInv'
<1>1. Live' = Live /\ UNCHANGED <<waitingThread, heap, waitingForCleanup>>
  BY DEF threadVars, Live, isThreadAlive
<1>2. Placement'
  BY <1>1 DEF ThreadInv, Placement
<1>3. HeapExact' /\ JoinersListed' /\ NoMutualJoin'
  BY <1>1 DEF ThreadInv, HeapExact, JoinersListed, NoMutualJoin
<1> QED BY <1>2, <1>3 DEF ThreadInv

\* A move of a list's head loses and adds no thread.
LEMMA MoveListed ==
  ASSUME NEW l \in Lists, OnePlace(l), NEW g \in ListHead, NEW h \in ListHead,
         l[g] # <<>>
  PROVE  Listed(Move(l, g, h)) = Listed(l)
<1> DEFINE k == Move(l, g, h)
           t == Head(l[g])
<1>1. /\ t \in Elems(l, g)
      /\ \A f \in ListHead : Elems(k, f) = IF f = h THEN Elems(l, f) \cup {t}
                                           ELSE Elems(l, f) \ {t}
  BY MoveLemma
<1> HIDE DEF k, t
<1>2. ASSUME NEW x \in TCB
      PROVE  (\E f \in ListHead : x \in Elems(k, f))
                <=> (\E f \in ListHead : x \in Elems(l, f))
  <2>1. CASE x = t
    BY <1>1, <2>1
  <2>2. CASE x # t
    BY <1>1, <2>2
  <2> QED BY <2>1, <2>2
<1> QED BY <1>2 DEF Listed, k

LEMMA InitInv == Init => Inv
<1> SUFFICES ASSUME Init PROVE Inv
  OBVIOUS
<1>1. /\ list[readyQueue] = <<Main>>
      /\ \A h \in ListHead \ {readyQueue} : list[h] = <<>>
  BY HeadsDiffer DEF Init
<1>2. TypeOK
  <2>1. list \in [ListHead -> Seq(TCB)]
    BY HeadsDiffer DEF Init
  <2>2. mutexList \in Registry(Mutex) /\ condList \in Registry(Cond)
    BY DEF Init, Registry
  <2> QED BY <2>1, <2>2, HeadsDiffer DEF Init, TypeOK
<1>3. /\ Elems(list, readyQueue) = {Main}
      /\ \A h \in ListHead \ {readyQueue} : Elems(list, h) = {}
  BY <1>1 DEF Elems, Range
<1>4. Live = {Main}
  BY HeadsDiffer DEF Init, Live, isThreadAlive
<1>5. OnePlace(list)
  <2>1. \A h \in ListHead : IsInjective(list[h])
    BY <1>1 DEF IsInjective
  <2> QED BY <1>3, <2>1 DEF OnePlace
<1>6. Placement
  BY <1>3, <1>4, <1>5, HeadsDiffer DEF Placement, Listed
<1>7. HeapExact /\ JoinersListed /\ NoMutualJoin
  BY <1>3, <1>4, HeadsDiffer
     DEF Init, HeapExact, JoinersListed, NoMutualJoin
<1>8. LockQueues /\ CondWaiters /\ ReadyNonEmpty
  BY <1>1, <1>3, HeadsDiffer DEF LockQueues, CondWaiters, ReadyNonEmpty
<1> QED BY <1>2, <1>6, <1>7, <1>8 DEF Inv, ThreadInv, SyncInv

LEMMA CreateStep == Inv /\ thread_create => Inv'
<1> SUFFICES ASSUME Inv, thread_create PROVE Inv'
  OBVIOUS
<1>1. PICK t \in TCB \ heap :
        /\ status = "running"
        /\ list' = Push(list, readyQueue, t)
        /\ waitingThread' = [waitingThread EXCEPT ![t] = NULL]
        /\ condVarMutex'  = [condVarMutex  EXCEPT ![t] = NULL]
        /\ ter'  = [ter EXCEPT ![t] = "alive"]
        /\ heap' = heap \cup {t}
        /\ UNCHANGED <<waitingForCleanup, owner, registryVars, status>>
  BY DEF thread_create
<1>2. /\ list \in Lists /\ OnePlace(list) /\ TypeOK
      /\ t \notin Live /\ t # waitingForCleanup
      /\ \A h \in ListHead : t \notin Elems(list, h)
  BY <1>1, HeadsDiffer
     DEF Inv, TypeOK, Lists, ThreadInv, Placement, Listed, HeapExact
<1>3. /\ list' \in Lists /\ OnePlace(list')
      /\ list'[readyQueue] = Append(list[readyQueue], t)
      /\ \A g \in ListHead \ {readyQueue} : list'[g] = list[g]
      /\ \A g \in ListHead :
            Elems(list', g) = IF g = readyQueue THEN Elems(list, g) \cup {t}
                              ELSE Elems(list, g)
  BY <1>1, <1>2, PushLemma, HeadsDiffer
<1>4. TypeOK'
  BY <1>1, <1>2, <1>3, HeadsDiffer DEF TypeOK, Lists, registryVars
<1>5. Live' = Live \cup {t}
  BY <1>1, <1>2 DEF Live, isThreadAlive, TypeOK
<1>6. Placement'
  <2>1. \A x \in TCB : (\E h \in ListHead : x \in Elems(list', h)) <=> x \in Live'
    BY <1>3, <1>5, HeadsDiffer DEF Inv, ThreadInv, Placement, Listed
  <2>2. Live' \subseteq TCB
    BY DEF Live
  <2> QED BY <1>3, <2>1, <2>2 DEF Placement, Listed
<1>7. HeapExact'
  BY <1>1, <1>2, <1>5 DEF Inv, ThreadInv, HeapExact
<1>8. /\ waitingThread'[t] = NULL
      /\ \A x \in TCB \ {t} : waitingThread'[x] = waitingThread[x]
      /\ Live \subseteq TCB /\ t \in TCB
      /\ Elems(list', joiningList) = Elems(list, joiningList)
  BY <1>1, <1>2, <1>3, HeadsDiffer DEF TypeOK, Live
<1>9. JoinersListed'
  BY <1>2, <1>5, <1>8 DEF Inv, ThreadInv, JoinersListed
<1>10. NoMutualJoin'
  BY <1>2, <1>5, <1>8, HeadsDiffer DEF Inv, ThreadInv, NoMutualJoin
<1>11. LockQueues'
  BY <1>1, <1>2, <1>3, HeadsDiffer DEF Inv, SyncInv, LockQueues, registryVars
<1>12. CondWaiters'
  BY <1>1, <1>2, <1>3, HeadsDiffer
     DEF Inv, SyncInv, CondWaiters, registryVars, TypeOK
<1>13. ReadyNonEmpty'
  BY <1>3, HeadsDiffer, EmptyElems DEF ReadyNonEmpty
<1> QED BY <1>4, <1>6, <1>7, <1>9, <1>10, <1>11, <1>12, <1>13
        DEF Inv, ThreadInv, SyncInv

LEMMA YieldStep == Inv /\ thread_yield => Inv'
<1> SUFFICES ASSUME Inv, thread_yield PROVE Inv'
  OBVIOUS
<1>1. /\ status = "running"
      /\ list' = Move(list, readyQueue, readyQueue)
      /\ UNCHANGED <<threadVars, condVarMutex, owner, registryVars, status>>
  BY DEF thread_yield
<1>2. /\ list \in Lists /\ OnePlace(list) /\ list[readyQueue] # <<>>
      /\ \A h \in ListHead \ {readyQueue} : Head(list[readyQueue]) \notin Elems(list, h)
  BY <1>1, SelfFacts DEF thread_self
<1>3. /\ list' \in Lists /\ OnePlace(list') /\ Listed(list') = Listed(list)
      /\ \A f \in ListHead : Elems(list', f) = Elems(list, f)
  <2>1. /\ list' \in Lists /\ OnePlace(list') /\ Listed(list') = Listed(list)
        /\ Head(list[readyQueue]) \in Elems(list, readyQueue)
        /\ \A f \in ListHead :
              Elems(list', f) = IF f = readyQueue
                                THEN Elems(list, f) \cup {Head(list[readyQueue])}
                                ELSE Elems(list, f) \ {Head(list[readyQueue])}
    BY <1>2, <1>1, MoveLemma, MoveListed, HeadsDiffer
  <2> QED BY <1>2, <2>1
<1>4. TypeOK'
  BY <1>1, <1>3 DEF Inv, TypeOK, Lists, threadVars, registryVars
<1>5. ThreadInv'
  BY <1>1, <1>3, ThreadInvKept, HeadsDiffer DEF Inv
<1>6. /\ \A f \in ListHead : list'[f] = <<>> <=> list[f] = <<>>
  BY <1>2, <1>3, EmptyElems
<1>7. LockQueues' /\ CondWaiters'
  BY <1>1, <1>3, <1>6, HeadsDiffer
     DEF Inv, SyncInv, LockQueues, CondWaiters, registryVars
<1>8. ReadyNonEmpty'
  BY <1>2, <1>6, HeadsDiffer DEF ReadyNonEmpty
<1> QED BY <1>4, <1>5, <1>7, <1>8 DEF Inv, SyncInv

LEMMA JoinStep == Inv /\ thread_join => Inv'
<1> SUFFICES ASSUME Inv, thread_join PROVE Inv'
  OBVIOUS
<1> DEFINE self == thread_self
<1>1. PICK t \in TCB :
        /\ status = "running"
        /\ ~JoinRefused(t)
        /\ list' = Move(list, readyQueue, joiningList)
        /\ waitingThread' = [waitingThread EXCEPT ![t] = self]
        /\ UNCHANGED <<ter, heap, waitingForCleanup, condVarMutex, owner,
                       registryVars, status>>
  BY DEF thread_join
<1>2. /\ list \in Lists /\ OnePlace(list) /\ list[readyQueue] # <<>>
      /\ self \in TCB /\ self \in Elems(list, readyQueue)
      /\ \A h \in ListHead \ {readyQueue} : self \notin Elems(list, h)
      /\ self \in Live /\ TypeOK /\ self = Head(list[readyQueue])
  BY <1>1, SelfFacts DEF Inv, thread_self
<1>3. /\ t \in Live /\ t # self /\ waitingThread[t] = NULL
      /\ waitingThread[self] # t /\ Len(list[readyQueue]) > 1
  <2>1. Len(list[readyQueue]) \in Nat /\ Len(list[readyQueue]) # 0
    <3>1. list[readyQueue] \in Seq(TCB)
      BY <1>2, HeadsDiffer DEF Lists
    <3> QED BY <1>2, <3>1, LenProperties, EmptySeq
  <2>2. Len(list[readyQueue]) # 1 /\ waitingThread[t] = NULL
        /\ waitingThread[self] # t
    BY <1>1 DEF JoinRefused, readyQueueLength
  <2>3. t \in Live /\ t # self
    BY <1>1 DEF JoinRefused, Live, isThreadAlive
  <2>4. Len(list[readyQueue]) > 1
    <3>1. \A n \in Nat : n # 0 /\ n # 1 => n > 1
      OBVIOUS
    <3> QED BY <2>1, <2>2, <3>1
  <2> QED BY <2>2, <2>3, <2>4
<1> HIDE DEF self
<1>4. /\ list' \in Lists /\ OnePlace(list') /\ Listed(list') = Listed(list)
      /\ \A f \in ListHead :
            Elems(list', f) = IF f = joiningList THEN Elems(list, f) \cup {self}
                              ELSE Elems(list, f) \ {self}
      /\ list'[readyQueue] # <<>>
  BY <1>1, <1>2, <1>3, MoveLemma, MoveListed, HeadsDiffer
<1>5. TypeOK'
  BY <1>1, <1>2, <1>4 DEF TypeOK, Lists, registryVars
<1>6. Live' = Live /\ Live \subseteq TCB
  BY <1>1 DEF Live, isThreadAlive
<1>7. Placement' /\ HeapExact'
  BY <1>1, <1>4, <1>6 DEF Inv, ThreadInv, Placement, HeapExact
<1>8. /\ waitingThread'[t] = self
      /\ \A x \in TCB \ {t} : waitingThread'[x] = waitingThread[x]
      /\ Elems(list', joiningList) = Elems(list, joiningList) \cup {self}
      /\ self \notin Elems(list, joiningList)
  BY <1>1, <1>2, <1>4, HeadsDiffer DEF TypeOK
<1>9. JoinersListed'
  <2>1. /\ \A x \in Live : waitingThread[x] # NULL =>
              /\ waitingThread[x] \in Elems(list, joiningList)
              /\ \A u \in Live : waitingThread[u] = waitingThread[x] => u = x
        /\ \A v \in Elems(list, joiningList) :
              \E x \in Live : waitingThread[x] = v
    BY DEF Inv, ThreadInv, JoinersListed
  <2>2. ASSUME NEW x \in Live, waitingThread'[x] # NULL
        PROVE  /\ waitingThread'[x] \in Elems(list', joiningList)
               /\ \A u \in Live : waitingThread'[u] = waitingThread'[x] => u = x
    <3>1. CASE x = t
      BY <1>2, <1>6, <1>8, <2>1, <3>1, HeadsDiffer
    <3>2. CASE x # t
      BY <1>6, <1>8, <2>1, <2>2, <3>2
    <3> QED BY <3>1, <3>2
  <2>3. ASSUME NEW v \in Elems(list', joiningList)
        PROVE  \E x \in Live : waitingThread'[x] = v
    <3>1. CASE v = self
      BY <1>3, <1>8, <3>1
    <3>2. CASE v # self
      <4>1. PICK x \in Live : waitingThread[x] = v
        BY <1>8, <2>1, <3>2
      <4>2. v \in TCB
        BY <1>2, <1>8, <3>2, EmptyElems, HeadsDiffer
      <4> QED BY <1>3, <1>6, <1>8, <4>1, <4>2, HeadsDiffer
    <3> QED BY <3>1, <3>2
  <2> QED BY <1>6, <2>2, <2>3 DEF JoinersListed
<1>10. NoMutualJoin'
  BY <1>2, <1>3, <1>6, <1>8, HeadsDiffer DEF Inv, ThreadInv, NoMutualJoin
<1>11. ASSUME NEW m \in Mutex \cup Cond
       PROVE  /\ Elems(list', m) = Elems(list, m)
              /\ list'[m] = <<>> <=> list[m] = <<>>
  <2>1. m \in ListHead \ {readyQueue} /\ m # joiningList
    BY HeadsDiffer
  <2>2. Elems(list', m) = Elems(list, m)
    <3>1. self \notin Elems(list, m)
      BY <1>2, <2>1
    <3>2. Elems(list', m) = Elems(list, m) \ {self}
      BY <1>4, <2>1
    <3> QED BY <3>1, <3>2
  <2> QED BY <1>2, <1>4, <2>1, <2>2, EmptyElems
<1>12. LockQueues' /\ CondWaiters'
  BY <1>1, <1>11 DEF Inv, SyncInv, LockQueues, CondWaiters, registryVars
<1> QED BY <1>4, <1>5, <1>7, <1>9, <1>10, <1>12
        DEF Inv, ThreadInv, SyncInv, ReadyNonEmpty

\* Waking a joiner moves it to the ready queue and leaves the rest alone.
LEMMA WakeLemma ==
  ASSUME NEW l \in Lists, OnePlace(l), l[readyQueue] # <<>>,
         NEW w \in Elems(l, joiningList) \cup {NULL}
  PROVE  LET k == wakeupThread(l, w) IN
         /\ k \in Lists /\ OnePlace(k)
         /\ Head(k[readyQueue]) = Head(l[readyQueue]) /\ k[readyQueue] # <<>>
         /\ \/ k[readyQueue] = l[readyQueue]
            \/ w \in TCB /\ k[readyQueue] = Append(l[readyQueue], w)
         /\ \A f \in ListHead \ {readyQueue, joiningList} : k[f] = l[f]
         /\ \A f \in ListHead :
               Elems(k, f) = IF f = readyQueue THEN Elems(l, f) \cup ({w} \ {NULL})
                             ELSE Elems(l, f) \ {w}
<1> DEFINE k == wakeupThread(l, w)
<1>1. /\ \A f \in ListHead : Elems(l, f) \subseteq TCB
      /\ l[readyQueue] \in Seq(TCB)
  BY EmptyElems, HeadsDiffer DEF Lists
<1>2. CASE w = NULL
  BY <1>1, <1>2, HeadsDiffer DEF wakeupThread
<1>3. CASE w # NULL
  <2> DEFINE u == Unlink(l, joiningList, w)
  <2>1. /\ u \in Lists /\ OnePlace(u) /\ w \in TCB
        /\ \A g \in ListHead \ {joiningList} : u[g] = l[g]
        /\ \A g \in ListHead : Elems(u, g) = Elems(l, g) \ {w}
    BY <1>3, UnlinkLemma, HeadsDiffer
  <2>2. k = Push(u, readyQueue, w)
    BY <1>3 DEF wakeupThread
  <2> HIDE DEF u, k
  <2>3. /\ k \in Lists /\ OnePlace(k)
        /\ k[readyQueue] = Append(u[readyQueue], w)
        /\ \A f \in ListHead \ {readyQueue} : k[f] = u[f]
        /\ \A f \in ListHead :
              Elems(k, f) = IF f = readyQueue THEN Elems(u, readyQueue) \cup {w}
                            ELSE Elems(u, f)
    BY <2>1, <2>2, PushLemma, HeadsDiffer
  <2>4. u[readyQueue] = l[readyQueue]
    BY <2>1, HeadsDiffer
  <2>5. k[readyQueue] # <<>> /\ Head(k[readyQueue]) = Head(l[readyQueue])
    BY <1>1, <2>1, <2>3, <2>4, HeadTailAppend, AppendProperties
  <2> QED BY <1>3, <2>1, <2>3, <2>5, HeadsDiffer DEF k
<1> QED BY <1>2, <1>3

LEMMA CleanupStep == Inv /\ cleanup => Inv'
<1> SUFFICES ASSUME Inv, cleanup PROVE Inv'
  OBVIOUS
<1> DEFINE self == thread_self
           w == waitingThread[self]
           k == wakeupThread(list, w)
<1>1. /\ status = "running"
      /\ list' = Pop(k, readyQueue)
      /\ ter'  = [ter EXCEPT ![self] = "terminated"]
      /\ heap' = heap \ {waitingForCleanup}
      /\ waitingForCleanup' = self
      /\ status' = IF \/ w \notin Elems(list, joiningList) \cup {NULL}
                      \/ list'[readyQueue] = <<>>
                   THEN "crashed" ELSE status
      /\ UNCHANGED <<waitingThread, condVarMutex, owner, registryVars>>
  BY DEF cleanup, StillAllocated
<1>2. /\ list \in Lists /\ OnePlace(list) /\ list[readyQueue] # <<>>
      /\ self \in TCB /\ self \in Elems(list, readyQueue)
      /\ \A h \in ListHead \ {readyQueue} : self \notin Elems(list, h)
      /\ self \in Live /\ TypeOK /\ self = Head(list[readyQueue])
  BY <1>1, SelfFacts DEF Inv, thread_self
<1> HIDE DEF self
<1>3. w \in Elems(list, joiningList) \cup {NULL}
  BY <1>2 DEF Inv, ThreadInv, JoinersListed
<1> HIDE DEF w
<1>4. /\ k \in Lists /\ OnePlace(k)
      /\ Head(k[readyQueue]) = self /\ k[readyQueue] # <<>>
      /\ \A f \in ListHead :
            Elems(k, f) = IF f = readyQueue THEN Elems(list, f) \cup ({w} \ {NULL})
                          ELSE Elems(list, f) \ {w}
  BY <1>2, <1>3, WakeLemma
<1> HIDE DEF k
<1>5. /\ list' \in Lists /\ OnePlace(list')
      /\ \A f \in ListHead : Elems(list', f) = Elems(k, f) \ {self}
  BY <1>1, <1>4, PopLemma, HeadsDiffer
<1>6. TypeOK'
  BY <1>1, <1>2, <1>5 DEF TypeOK, Lists, registryVars
<1>7. Live' = Live \ {self} /\ Live \subseteq TCB
  BY <1>1, <1>2 DEF TypeOK, Live, isThreadAlive
<1>8. w # self
  BY <1>2, <1>3, HeadsDiffer
<1>9. Placement'
  <2>1. ASSUME NEW x \in TCB
        PROVE  (\E f \in ListHead : x \in Elems(list', f)) <=> x \in Live'
    <3>1. x \in Live <=> \E f \in ListHead : x \in Elems(list, f)
      BY DEF Inv, ThreadInv, Placement, Listed
    <3>2. CASE x = self
      BY <1>5, <1>7, <3>2
    <3>3. CASE x = w
      BY <1>3, <1>4, <1>5, <1>7, <1>8, <3>1, <3>3, HeadsDiffer
    <3>4. CASE x # self /\ x # w
      BY <1>4, <1>5, <1>7, <3>1, <3>4
    <3> QED BY <3>2, <3>3, <3>4
  <2> QED BY <1>5, <1>7, <2>1 DEF Placement, Listed
<1>10. HeapExact'
  BY <1>1, <1>2, <1>7, HeadsDiffer DEF Inv, ThreadInv, HeapExact
<1>11. Elems(list', joiningList) = Elems(list, joiningList) \ {w}
  BY <1>2, <1>4, <1>5, HeadsDiffer
<1>12. JoinersListed'
  BY <1>1, <1>2, <1>7, <1>11, HeadsDiffer DEF Inv, ThreadInv, JoinersListed, w
<1>13. NoMutualJoin'
  BY <1>1, <1>7 DEF Inv, ThreadInv, NoMutualJoin
<1>14. ASSUME NEW m \in Mutex \cup Cond
       PROVE  /\ Elems(list', m) = Elems(list, m)
              /\ list'[m] = <<>> <=> list[m] = <<>>
  <2>1. m \in ListHead \ {readyQueue} /\ m # joiningList
    BY HeadsDiffer
  <2>2. w \notin Elems(list, m)
    BY <1>2, <1>3, <2>1, HeadsDiffer, EmptyElems DEF OnePlace
  <2>3. Elems(list', m) = Elems(list, m)
    <3>1. self \notin Elems(list, m)
      BY <1>2, <2>1
    <3>2. Elems(list', m) = (Elems(list, m) \ {w}) \ {self}
      BY <1>4, <1>5, <2>1
    <3> QED BY <2>2, <3>1, <3>2
  <2> QED BY <1>2, <1>5, <2>1, <2>3, EmptyElems
<1>15. LockQueues' /\ CondWaiters'
  BY <1>1, <1>14 DEF Inv, SyncInv, LockQueues, CondWaiters, registryVars
<1>16. ReadyNonEmpty'
  BY <1>1 DEF ReadyNonEmpty
<1> QED BY <1>6, <1>9, <1>10, <1>12, <1>13, <1>15, <1>16
        DEF Inv, ThreadInv, SyncInv

LEMMA LockStep == Inv /\ thread_mutex_lock => Inv'
<1> SUFFICES ASSUME Inv, thread_mutex_lock PROVE Inv'
  OBVIOUS
<1> DEFINE self == thread_self
<1>1. PICK m \in Mutex \cap initialized :
        /\ status = "running"
        /\ \/ /\ owner[m] = NULL
              /\ owner' = [owner EXCEPT ![m] = self]
              /\ UNCHANGED list
           \/ /\ owner[m] \notin {NULL, self}
              /\ readyQueueLength > 1
              /\ list' = Move(list, readyQueue, m)
              /\ UNCHANGED owner
        /\ UNCHANGED <<threadVars, condVarMutex, registryVars, status>>
  BY DEF thread_mutex_lock
<1>2. /\ list \in Lists /\ OnePlace(list) /\ list[readyQueue] # <<>>
      /\ self \in TCB /\ self \in Elems(list, readyQueue)
      /\ \A h \in ListHead \ {readyQueue} : self \notin Elems(list, h)
      /\ TypeOK /\ ThreadInv /\ self = Head(list[readyQueue])
  BY <1>1, SelfFacts DEF Inv, thread_self
<1> HIDE DEF self
<1>3. CASE owner[m] = NULL /\ owner' = [owner EXCEPT ![m] = self] /\ UNCHANGED list
  <2>1. TypeOK'
    BY <1>1, <1>2, <1>3 DEF TypeOK, threadVars, registryVars
  <2>2. ThreadInv'
    BY <1>1, <1>2, <1>3, ThreadInvKept
  <2>3. list[m] = <<>>
    BY <1>3 DEF Inv, SyncInv, LockQueues
  <2>4. owner'[m] = self /\ \A n \in Mutex \ {m} : owner'[n] = owner[n]
    BY <1>2, <1>3 DEF TypeOK
  <2>5. LockQueues'
    BY <1>1, <1>3, <2>3, <2>4 DEF Inv, SyncInv, LockQueues, registryVars
  <2>6. \A c \in Cond : self \notin Elems(list, c)
    BY <1>2, HeadsDiffer
  <2>7. CondWaiters'
    BY <1>1, <1>3, <2>4, <2>6 DEF Inv, SyncInv, CondWaiters, registryVars
  <2> QED BY <1>1, <1>3, <2>1, <2>2, <2>5, <2>7 DEF Inv, SyncInv, ReadyNonEmpty
<1>4. CASE /\ owner[m] \notin {NULL, self} /\ readyQueueLength > 1
           /\ list' = Move(list, readyQueue, m) /\ UNCHANGED owner
  <2>1. /\ list' \in Lists /\ OnePlace(list') /\ Listed(list') = Listed(list)
        /\ \A f \in ListHead :
              Elems(list', f) = IF f = m THEN Elems(list, f) \cup {self}
                                ELSE Elems(list, f) \ {self}
        /\ list'[readyQueue] # <<>>
    BY <1>2, <1>4, MoveLemma, MoveListed, HeadsDiffer DEF readyQueueLength
  <2>2. ASSUME NEW h \in ListHead, h # readyQueue, h # m
        PROVE  /\ Elems(list', h) = Elems(list, h)
               /\ list'[h] = <<>> <=> list[h] = <<>>
    <3>1. self \notin Elems(list, h)
      BY <1>2, <2>2
    <3>2. Elems(list', h) = Elems(list, h) \ {self}
      BY <2>1, <2>2
    <3>3. Elems(list', h) = Elems(list, h)
      BY <3>1, <3>2
    <3> QED BY <1>2, <2>1, <3>3, EmptyElems
  <2>3. TypeOK'
    BY <1>1, <1>2, <1>4, <2>1 DEF TypeOK, Lists, threadVars, registryVars
  <2>4. ThreadInv'
    BY <1>1, <1>2, <2>1, <2>2, ThreadInvKept, HeadsDiffer
  <2>5. Elems(list', m) = Elems(list, m) \cup {self}
    BY <2>1, HeadsDiffer
  <2>6. ASSUME NEW n \in Mutex, list'[n] # <<>>
        PROVE  n \in initialized /\ owner[n] \notin Elems(list', n) \cup {NULL}
    <3>1. CASE n = m
      <4>1. owner[m] \notin Elems(list, m)
        BY <1>2, EmptyElems, HeadsDiffer DEF Inv, SyncInv, LockQueues
      <4> QED BY <1>4, <2>5, <3>1, <4>1
    <3>2. CASE n # m
      BY <2>2, <2>6, <3>2, HeadsDiffer DEF Inv, SyncInv, LockQueues
    <3> QED BY <3>1, <3>2
  <2>7. LockQueues'
    BY <1>1, <1>4, <2>6 DEF LockQueues, registryVars
  <2>8. CondWaiters'
    BY <1>1, <1>4, <2>2, HeadsDiffer DEF Inv, SyncInv, CondWaiters, registryVars
  <2> QED BY <2>1, <2>3, <2>4, <2>7, <2>8 DEF Inv, SyncInv, ReadyNonEmpty
<1> QED BY <1>1, <1>3, <1>4

\* An unlock passes the mutex to the first waiter, which becomes ready, or
\* frees it.  This is all that the steps that unlock need to know of it.
LEMMA UnlockLemma ==
  ASSUME Inv, status = "running", NEW m \in Mutex \cap initialized,
         owner[m] = thread_self
  PROVE  LET l == UnlockedList(m)
             o == UnlockedOwner(m)
         IN  /\ l \in Lists /\ OnePlace(l) /\ Listed(l) = Listed(list)
             /\ Head(l[readyQueue]) = thread_self /\ l[readyQueue] # <<>>
             /\ o \in [Mutex -> TCB \cup {NULL}]
             /\ \A n \in Mutex \ {m} : o[n] = owner[n] /\ l[n] = list[n]
             /\ Elems(l, joiningList) = Elems(list, joiningList)
             /\ \A c \in Cond : Elems(l, c) = Elems(list, c)
             /\ o[m] # thread_self /\ \A c \in Cond : o[m] \notin Elems(l, c)
             /\ l[m] # <<>> => o[m] \notin Elems(l, m) \cup {NULL}
             /\ IF list[m] = <<>> THEN l = list
                ELSE /\ o[m] = Head(list[m]) /\ o[m] \in TCB
                     /\ l[m] = Tail(list[m])
                     /\ l[readyQueue] = Append(list[readyQueue], o[m])
                     /\ o[m] \in Elems(l, readyQueue)
<1> DEFINE l == UnlockedList(m)
           o == UnlockedOwner(m)
           self == thread_self
           t == Head(list[m])
<1>1. /\ list \in Lists /\ OnePlace(list) /\ list[readyQueue] # <<>>
      /\ self \in TCB /\ self \in Elems(list, readyQueue)
      /\ \A h \in ListHead \ {readyQueue} : self \notin Elems(list, h)
      /\ TypeOK /\ self = Head(list[readyQueue])
  BY SelfFacts DEF Inv, thread_self
<1>2. m \in ListHead /\ m # readyQueue /\ m # joiningList /\ m \notin Cond
  BY HeadsDiffer
<1>3. /\ o = [owner EXCEPT ![m] = IF list[m] = <<>> THEN NULL ELSE t]
      /\ l = IF list[m] = <<>> THEN list ELSE Move(list, m, readyQueue)
  BY DEF UnlockedOwner, UnlockedList
<1> HIDE DEF l, o, self
<1>4. CASE list[m] = <<>>
  <2>1. l = list /\ o[m] = NULL /\ \A n \in Mutex \ {m} : o[n] = owner[n]
    BY <1>1, <1>3, <1>4 DEF TypeOK
  <2>2. o \in [Mutex -> TCB \cup {NULL}]
    BY <1>1, <1>3, <1>4 DEF TypeOK
  <2>3. \A c \in Cond : NULL \notin Elems(l, c)
    BY <1>1, <2>1, EmptyElems, HeadsDiffer
  <2> QED BY <1>1, <1>4, <2>1, <2>2, <2>3, HeadsDiffer DEF l, o, self
<1>5. CASE list[m] # <<>>
  <2> DEFINE p == Pop(list, m)
  <2>1. /\ p \in Lists /\ OnePlace(p) /\ t \in TCB /\ t \in Elems(list, m)
        /\ \A g \in ListHead \ {m} : p[g] = list[g]
        /\ \A g \in ListHead : Elems(p, g) = Elems(list, g) \ {t}
        /\ p[m] = Tail(list[m])
    BY <1>1, <1>2, <1>5, PopLemma
  <2>2. l = Push(p, readyQueue, t)
    BY <1>3, <1>5 DEF Move
  <2> HIDE DEF t, p
  <2>3. /\ l \in Lists /\ OnePlace(l)
        /\ l[readyQueue] = Append(p[readyQueue], t)
        /\ \A g \in ListHead \ {readyQueue} : l[g] = p[g]
        /\ \A g \in ListHead :
              Elems(l, g) = IF g = readyQueue THEN Elems(p, readyQueue) \cup {t}
                            ELSE Elems(p, g)
    BY <2>1, <2>2, PushLemma, HeadsDiffer
  <2>4. Listed(l) = Listed(list)
    BY <1>1, <1>2, <1>3, <1>5, MoveListed, HeadsDiffer
  <2>5. Head(l[readyQueue]) = self /\ l[readyQueue] # <<>>
    <3>1. p[readyQueue] = list[readyQueue] /\ list[readyQueue] \in Seq(TCB)
      BY <1>1, <1>2, <2>1, HeadsDiffer DEF Lists
    <3> QED BY <1>1, <2>1, <2>3, <3>1, HeadTailAppend, AppendProperties
  <2>6. /\ o \in [Mutex -> TCB \cup {NULL}] /\ o[m] = t
        /\ \A n \in Mutex \ {m} : o[n] = owner[n]
    BY <1>1, <1>3, <1>5, <2>1 DEF TypeOK
  <2>7. \A n \in Mutex \ {m} : l[n] = list[n]
    BY <2>1, <2>3, HeadsDiffer
  <2>8. ASSUME NEW h \in ListHead, h # m, h # readyQueue
        PROVE  Elems(l, h) = Elems(list, h) /\ t \notin Elems(l, h)
    <3>1. t \notin Elems(list, h)
      BY <1>1, <1>2, <2>1, <2>8 DEF OnePlace
    <3>2. Elems(l, h) = Elems(list, h) \ {t}
      BY <2>1, <2>3, <2>8
    <3> QED BY <3>1, <3>2
  <2>9. t \notin Elems(l, m) \cup {NULL} /\ t # self
    BY <1>1, <1>2, <2>1, <2>3, HeadsDiffer
  <2>10. /\ l[m] = Tail(list[m])
         /\ l[readyQueue] = Append(list[readyQueue], t)
         /\ t \in Elems(l, readyQueue)
    BY <1>2, <2>1, <2>3, HeadsDiffer
  <2>11. o[m] = Head(list[m]) /\ o[m] \in TCB
    BY <2>1, <2>6 DEF t
  <2> QED BY <1>5, <2>3, <2>4, <2>5, <2>6, <2>7, <2>8, <2>9, <2>10, <2>11, HeadsDiffer
          DEF l, o, self
<1> QED BY <1>4, <1>5

LEMMA UnlockStep == Inv /\ thread_mutex_unlock => Inv'
<1> SUFFICES ASSUME Inv, thread_mutex_unlock PROVE Inv'
  OBVIOUS
<1>1. PICK m \in Owns(thread_self) :
        /\ status = "running"
        /\ list'  = UnlockedList(m)
        /\ owner' = UnlockedOwner(m)
        /\ UNCHANGED <<threadVars, condVarMutex, registryVars, status>>
  BY DEF thread_mutex_unlock
<1>2. m \in Mutex \cap initialized /\ owner[m] = thread_self
  BY DEF Owns
<1>3. /\ list' \in Lists /\ OnePlace(list') /\ Listed(list') = Listed(list)
      /\ list'[readyQueue] # <<>>
      /\ owner' \in [Mutex -> TCB \cup {NULL}]
      /\ \A n \in Mutex \ {m} : owner'[n] = owner[n] /\ list'[n] = list[n]
      /\ Elems(list', joiningList) = Elems(list, joiningList)
      /\ \A c \in Cond : Elems(list', c) = Elems(list, c)
      /\ \A c \in Cond : owner'[m] \notin Elems(list', c)
      /\ list'[m] # <<>> => owner'[m] \notin Elems(list', m) \cup {NULL}
  BY <1>1, <1>2, UnlockLemma
<1>4. TypeOK'
  BY <1>1, <1>3 DEF Inv, TypeOK, Lists, threadVars, registryVars
<1>5. ThreadInv'
  BY <1>1, <1>3, ThreadInvKept DEF Inv
<1>6. LockQueues'
  BY <1>1, <1>2, <1>3 DEF Inv, SyncInv, LockQueues, registryVars, Elems
<1>7. CondWaiters'
  BY <1>1, <1>2, <1>3 DEF Inv, SyncInv, CondWaiters, registryVars
<1> QED BY <1>3, <1>4, <1>5, <1>6, <1>7 DEF Inv, SyncInv, ReadyNonEmpty

LEMMA WaitStep == Inv /\ thread_cond_wait => Inv'
<1> SUFFICES ASSUME Inv, thread_cond_wait PROVE Inv'
  OBVIOUS
<1> DEFINE self == thread_self
<1>1. PICK c \in Cond \cap initialized, m \in Owns(self) :
        /\ owner' = UnlockedOwner(m)
        /\ \/ /\ Len(UnlockedList(m)[readyQueue]) = 1
              /\ list' = UnlockedList(m)
              /\ UNCHANGED condVarMutex
           \/ /\ Len(UnlockedList(m)[readyQueue]) > 1
              /\ list' = Move(UnlockedList(m), readyQueue, c)
              /\ condVarMutex' = [condVarMutex EXCEPT ![self] = m]
  BY DEF thread_cond_wait
<1>2. status = "running" /\ UNCHANGED <<threadVars, registryVars, status>>
  BY DEF thread_cond_wait
<1>3. m \in Mutex \cap initialized /\ owner[m] = self
  BY DEF Owns
<1> DEFINE l == UnlockedList(m)
<1>4. /\ l \in Lists /\ OnePlace(l) /\ Listed(l) = Listed(list)
      /\ Head(l[readyQueue]) = self /\ l[readyQueue] # <<>>
      /\ owner' \in [Mutex -> TCB \cup {NULL}]
      /\ \A n \in Mutex \ {m} : owner'[n] = owner[n] /\ l[n] = list[n]
      /\ Elems(l, joiningList) = Elems(list, joiningList)
      /\ \A d \in Cond : Elems(l, d) = Elems(list, d)
      /\ owner'[m] # self /\ \A d \in Cond : owner'[m] \notin Elems(l, d)
      /\ l[m] # <<>> => owner'[m] \notin Elems(l, m) \cup {NULL}
  BY <1>1, <1>2, <1>3, UnlockLemma
<1>5. /\ self \in TCB /\ TypeOK /\ ThreadInv
      /\ \A h \in ListHead \ {readyQueue} : self \notin Elems(list, h)
  BY <1>2, SelfFacts DEF Inv
<1>6. \A n \in Mutex : l[n] # <<>> =>
         n \in initialized /\ owner'[n] \notin Elems(l, n) \cup {NULL}
  BY <1>3, <1>4 DEF Inv, SyncInv, LockQueues, Elems
<1>7. \A d \in Cond : \A t \in Elems(l, d) :
         /\ d \in initialized
         /\ condVarMutex[t] \in Mutex \cap initialized
         /\ owner'[condVarMutex[t]] # t
  BY <1>3, <1>4 DEF Inv, SyncInv, CondWaiters
<1> HIDE DEF l, self
<1>8. CASE list' = l /\ UNCHANGED condVarMutex
  <2>1. TypeOK'
    BY <1>2, <1>4, <1>5, <1>8 DEF TypeOK, Lists, threadVars, registryVars
  <2>2. ThreadInv'
    BY <1>2, <1>4, <1>5, <1>8, ThreadInvKept
  <2>3. LockQueues' /\ CondWaiters'
    BY <1>2, <1>6, <1>7, <1>8 DEF LockQueues, CondWaiters, registryVars
  <2> QED BY <1>4, <1>8, <2>1, <2>2, <2>3 DEF Inv, SyncInv, ReadyNonEmpty
<1>9. CASE /\ Len(l[readyQueue]) > 1
           /\ list' = Move(l, readyQueue, c)
           /\ condVarMutex' = [condVarMutex EXCEPT ![self] = m]
  <2>1. /\ list' \in Lists /\ OnePlace(list') /\ Listed(list') = Listed(l)
        /\ self \in Elems(l, readyQueue)
        /\ \A f \in ListHead :
              Elems(list', f) = IF f = c THEN Elems(l, f) \cup {self}
                                ELSE Elems(l, f) \ {self}
        /\ list'[readyQueue] # <<>>
    BY <1>4, <1>9, MoveLemma, MoveListed, HeadsDiffer
  <2>2. \A h \in ListHead \ {readyQueue} : self \notin Elems(l, h)
    BY <1>4, <2>1, HeadsDiffer DEF OnePlace
  <2>3. ASSUME NEW h \in ListHead, h # readyQueue, h # c
        PROVE  /\ Elems(list', h) = Elems(l, h)
               /\ list'[h] = <<>> <=> l[h] = <<>>
    <3>1. self \notin Elems(l, h)
      BY <2>2, <2>3
    <3>2. Elems(list', h) = Elems(l, h) \ {self}
      BY <2>1, <2>3
    <3>3. Elems(list', h) = Elems(l, h)
      BY <3>1, <3>2
    <3> QED BY <1>4, <2>1, <3>3, EmptyElems
  <2>4. /\ condVarMutex'[self] = m
        /\ \A t \in TCB \ {self} : condVarMutex'[t] = condVarMutex[t]
        /\ condVarMutex' \in [TCB -> Mutex \cup {NULL}]
    BY <1>3, <1>5, <1>9 DEF TypeOK
  <2>5. TypeOK'
    BY <1>2, <1>4, <1>5, <2>1, <2>4 DEF TypeOK, Lists, threadVars, registryVars
  <2>6. ThreadInv'
    <3>1. Elems(list', joiningList) = Elems(list, joiningList)
      BY <1>4, <2>3, HeadsDiffer
    <3> QED BY <1>2, <1>4, <1>5, <2>1, <3>1, ThreadInvKept
  <2>7. LockQueues'
    BY <1>2, <1>6, <2>3, HeadsDiffer DEF LockQueues, registryVars
  <2>8. ASSUME NEW d \in Cond, NEW t \in Elems(list', d)
        PROVE  /\ d \in initialized
               /\ condVarMutex'[t] \in Mutex \cap initialized
               /\ owner'[condVarMutex'[t]] # t
    <3>1. CASE t = self
      <4>1. d = c
        BY <2>1, <3>1, <2>8, HeadsDiffer
      <4> QED BY <1>3, <1>4, <2>4, <3>1, <4>1
    <3>2. CASE t # self
      <4>1. t \in Elems(l, d)
        BY <2>1, <2>8, <3>2, HeadsDiffer
      <4>2. t \in TCB
        BY <1>4, <4>1, EmptyElems, HeadsDiffer
      <4> QED BY <1>7, <2>4, <3>2, <4>1, <4>2
    <3> QED BY <3>1, <3>2
  <2>9. CondWaiters'
    BY <1>2, <2>8 DEF CondWaiters, registryVars
  <2> QED BY <2>1, <2>5, <2>6, <2>7, <2>9 DEF Inv, SyncInv, ReadyNonEmpty
<1> QED BY <1>1, <1>8, <1>9 DEF l, self

LEMMA SignalStep == Inv /\ thread_cond_signal => Inv'
<1> SUFFICES ASSUME Inv, thread_cond_signal PROVE Inv'
  OBVIOUS
<1>1. PICK c \in Cond \cap initialized :
        /\ status = "running"
        /\ list[c] # <<>>
        /\ LET signalledThread == Head(list[c])
               mu == condVarMutex[signalledThread]
           IN  \/ /\ owner[mu] = NULL
                  /\ owner' = [owner EXCEPT ![mu] = signalledThread]
                  /\ list' = Move(list, c, readyQueue)
               \/ /\ owner[mu] # NULL
                  /\ list' = Move(list, c, mu)
                  /\ UNCHANGED owner
        /\ UNCHANGED <<threadVars, condVarMutex, registryVars, status>>
  BY DEF thread_cond_signal
<1> DEFINE w == Head(list[c])
           mu == condVarMutex[w]
<1>2. /\ list \in Lists /\ OnePlace(list) /\ TypeOK /\ ThreadInv
      /\ list[readyQueue] # <<>>
      /\ w \in TCB /\ w \in Elems(list, c)
      /\ c \in ListHead /\ c # readyQueue /\ c # joiningList
  BY <1>1, SelfFacts, HeadsDiffer, PopLemma DEF Inv
<1>3. mu \in Mutex \cap initialized /\ owner[mu] # w
  BY <1>2 DEF Inv, SyncInv, CondWaiters
<1>4. \A h \in ListHead \ {c} : w \notin Elems(list, h)
  BY <1>2 DEF OnePlace
<1> HIDE DEF w, mu
<1>5. ASSUME NEW d \in ListHead, d \in {readyQueue, mu}, list' = Move(list, c, d)
      PROVE  /\ list' \in Lists /\ OnePlace(list') /\ Listed(list') = Listed(list)
             /\ \A f \in ListHead :
                   Elems(list', f) = IF f = d THEN Elems(list, f) \cup {w}
                                     ELSE Elems(list, f) \ {w}
             /\ TypeOK' \/ owner' # owner
             /\ ThreadInv' /\ ReadyNonEmpty'
  <2>1. /\ list' \in Lists /\ OnePlace(list') /\ Listed(list') = Listed(list)
        /\ \A f \in ListHead :
              Elems(list', f) = IF f = d THEN Elems(list, f) \cup {w}
                                ELSE Elems(list, f) \ {w}
    BY <1>1, <1>2, <1>5, MoveLemma, MoveListed DEF w
  <2>2. TypeOK' \/ owner' # owner
    BY <1>1, <1>2, <2>1 DEF TypeOK, Lists, threadVars, registryVars
  <2>3. Elems(list', joiningList) = Elems(list, joiningList)
    <3>1. w \notin Elems(list, joiningList) /\ joiningList # d
      BY <1>2, <1>3, <1>4, <1>5, HeadsDiffer
    <3>2. Elems(list', joiningList) = Elems(list, joiningList) \ {w}
      BY <2>1, <3>1, HeadsDiffer
    <3> QED BY <3>1, <3>2
  <2>4. ThreadInv'
    BY <1>1, <1>2, <2>1, <2>3, ThreadInvKept
  <2>5. ReadyNonEmpty'
    <3>1. Elems(list', readyQueue) # {}
      <4>1. Elems(list, readyQueue) # {} /\ w \notin Elems(list, readyQueue)
        BY <1>2, <1>4, EmptyElems, HeadsDiffer
      <4>2. \/ Elems(list', readyQueue) = Elems(list, readyQueue) \cup {w}
            \/ Elems(list', readyQueue) = Elems(list, readyQueue) \ {w}
        BY <2>1, HeadsDiffer
      <4> QED BY <4>1, <4>2
    <3> QED BY <2>1, <3>1, EmptyElems, HeadsDiffer DEF ReadyNonEmpty
  <2> QED BY <2>1, <2>2, <2>4, <2>5
<1>6. ASSUME NEW d \in ListHead, d \in {readyQueue, mu}, list' = Move(list, c, d),
             NEW h \in ListHead, h # d, h # c
      PROVE  /\ Elems(list', h) = Elems(list, h)
             /\ list'[h] = <<>> <=> list[h] = <<>>
  <2>1. Elems(list', h) = Elems(list, h) \ {w} /\ w \notin Elems(list, h)
    BY <1>4, <1>5, <1>6
  <2>2. Elems(list', h) = Elems(list, h)
    BY <2>1
  <2> QED BY <1>2, <1>5, <1>6, <2>2, EmptyElems
<1>7. CASE /\ owner[mu] = NULL
           /\ owner' = [owner EXCEPT ![mu] = w]
           /\ list' = Move(list, c, readyQueue)
  <2>1. /\ list' \in Lists /\ ThreadInv' /\ ReadyNonEmpty'
        /\ \A f \in ListHead :
              Elems(list', f) = IF f = readyQueue THEN Elems(list, f) \cup {w}
                                ELSE Elems(list, f) \ {w}
    BY <1>5, <1>7, HeadsDiffer
  <2>2. TypeOK'
    BY <1>1, <1>2, <1>7, <2>1 DEF TypeOK, Lists, threadVars, registryVars
  <2>3. owner'[mu] = w /\ \A n \in Mutex \ {mu} : owner'[n] = owner[n]
    BY <1>2, <1>3, <1>7 DEF TypeOK
  <2>4. \A n \in Mutex : /\ Elems(list', n) = Elems(list, n)
                         /\ list'[n] = <<>> <=> list[n] = <<>>
    BY <1>1, <1>6, <1>7, HeadsDiffer
  <2>5. list[mu] = <<>>
    BY <1>3, <1>7 DEF Inv, SyncInv, LockQueues
  <2>6. LockQueues'
    BY <1>1, <2>3, <2>4, <2>5 DEF Inv, SyncInv, LockQueues, registryVars
  <2>7. \A d \in Cond : Elems(list', d) = Elems(list, d) \ {w}
    BY <2>1, HeadsDiffer
  <2>8. CondWaiters'
    BY <1>1, <2>3, <2>7 DEF Inv, SyncInv, CondWaiters, registryVars
  <2> QED BY <2>1, <2>2, <2>6, <2>8 DEF Inv, SyncInv
<1>8. CASE /\ owner[mu] # NULL /\ list' = Move(list, c, mu) /\ UNCHANGED owner
  <2>1. /\ list' \in Lists /\ ThreadInv' /\ ReadyNonEmpty' /\ TypeOK'
        /\ \A f \in ListHead :
              Elems(list', f) = IF f = mu THEN Elems(list, f) \cup {w}
                                ELSE Elems(list, f) \ {w}
    BY <1>3, <1>5, <1>8, HeadsDiffer
  <2>2. \A n \in Mutex \ {mu} : /\ Elems(list', n) = Elems(list, n)
                                /\ list'[n] = <<>> <=> list[n] = <<>>
    BY <1>1, <1>3, <1>6, <1>8, HeadsDiffer
  <2>3. owner[mu] \notin Elems(list', mu) \cup {NULL}
    <3>1. owner[mu] \notin Elems(list, mu)
      BY <1>2, <1>3, EmptyElems, HeadsDiffer DEF Inv, SyncInv, LockQueues
    <3> QED BY <1>3, <1>8, <2>1, <3>1, HeadsDiffer
  <2>4. LockQueues'
    BY <1>1, <1>3, <1>8, <2>2, <2>3 DEF Inv, SyncInv, LockQueues, registryVars
  <2>5. \A d \in Cond : Elems(list', d) = Elems(list, d) \ {w}
    BY <1>3, <2>1, HeadsDiffer
  <2>6. CondWaiters'
    BY <1>1, <1>8, <2>5 DEF Inv, SyncInv, CondWaiters, registryVars
  <2> QED BY <2>1, <2>4, <2>6 DEF Inv, SyncInv
<1> QED BY <1>1, <1>7, <1>8 DEF w, mu

LEMMA RegisterLemma ==
  ASSUME NEW S, NEW r \in Registry(S), NEW x \in S
  PROVE  Register(r, x) \in Registry(S)
<1>1. r.chain \in Seq(S)
  BY DEF Registry
<1>2. CASE x \in ToSet(r.chain)
  <2> DEFINE p == Position(r.chain, x)
  <2>1. /\ DOMAIN r.chain = 1 .. Len(r.chain) /\ Len(r.chain) \in Nat
        /\ \A i \in 1 .. Len(r.chain) : r.chain[i] \in S
    BY <1>1, LenProperties, ElementOfSeq
  <2>2. p \in 1 .. Len(r.chain)
    BY <1>2, <2>1 DEF ToSet, Position
  <2> HIDE DEF p
  <2>3. SubSeq(r.chain, 1, p) \in Seq(S)
    BY <2>1, <2>2, SubSeqProperties
  <2> QED BY <1>2, <2>3 DEF Register, Registry, p
<1>3. CASE x \notin ToSet(r.chain)
  BY <1>1, <1>3, AppendProperties DEF Register, Registry
<1> QED BY <1>2, <1>3

\* Initialising touches no list; what is initialised has nobody queued on it.
LEMMA MutexInitStep == Inv /\ thread_mutex_init => Inv'
<1> SUFFICES ASSUME Inv, thread_mutex_init PROVE Inv'
  OBVIOUS
<1>1. PICK m \in Mutex :
        /\ status = "running"
        /\ MayInit(m)
        /\ owner' = ResetOwner(m)
        /\ IF WalkHangs(mutexList, m)
           THEN status' = "hung" /\ UNCHANGED <<mutexList, initialized>>
           ELSE /\ mutexList' = Register(mutexList, m)
                /\ initialized' = initialized \cup {m}
                /\ UNCHANGED status
        /\ UNCHANGED <<list, threadVars, condVarMutex, condList>>
  BY DEF thread_mutex_init
<1>2. TypeOK /\ ThreadInv /\ list \in Lists /\ OnePlace(list)
  BY DEF Inv, TypeOK, Lists, ThreadInv, Placement
<1>3. list[m] = <<>>
  BY <1>1 DEF MayInit, Idle, Inv, SyncInv, LockQueues
<1>4. owner'[m] = NULL /\ \A n \in Mutex \ {m} : owner'[n] = owner[n]
  BY <1>1, <1>2 DEF ResetOwner, TypeOK
<1>5. /\ initialized' \in {initialized, initialized \cup {m}}
      /\ status' \in {status, "hung"}
  BY <1>1
<1>6. TypeOK'
  <2>1. mutexList' \in Registry(Mutex)
    BY <1>1, <1>2, RegisterLemma DEF TypeOK
  <2> QED BY <1>1, <1>2, <1>5, <2>1 DEF TypeOK, threadVars, ResetOwner
<1>7. ThreadInv'
  BY <1>1, <1>2, ThreadInvKept
<1>8. LockQueues'
  BY <1>1, <1>3, <1>4, <1>5 DEF Inv, SyncInv, LockQueues
<1>9. CondWaiters'
  <2>1. \A c \in Cond : NULL \notin Elems(list, c)
    BY <1>2, EmptyElems, HeadsDiffer
  <2> QED BY <1>1, <1>4, <1>5, <2>1 DEF Inv, SyncInv, CondWaiters
<1>10. ReadyNonEmpty'
  BY <1>1, <1>5 DEF Inv, ReadyNonEmpty
<1> QED BY <1>6, <1>7, <1>8, <1>9, <1>10 DEF Inv, SyncInv

LEMMA CondInitStep == Inv /\ thread_cond_init => Inv'
<1> SUFFICES ASSUME Inv, thread_cond_init PROVE Inv'
  OBVIOUS
<1>1. PICK c \in Cond :
        /\ status = "running"
        /\ IF WalkHangs(condList, c)
           THEN status' = "hung" /\ UNCHANGED <<condList, initialized>>
           ELSE /\ condList' = Register(condList, c)
                /\ initialized' = initialized \cup {c}
                /\ UNCHANGED status
        /\ UNCHANGED <<list, threadVars, condVarMutex, owner, mutexList>>
  BY DEF thread_cond_init
<1>2. TypeOK /\ ThreadInv /\ list \in Lists /\ OnePlace(list)
  BY DEF Inv, TypeOK, Lists, ThreadInv, Placement
<1>3. /\ initialized' \in {initialized, initialized \cup {c}}
      /\ status' \in {status, "hung"}
  BY <1>1
<1>4. TypeOK'
  <2>1. condList' \in Registry(Cond)
    BY <1>1, <1>2, RegisterLemma DEF TypeOK
  <2> QED BY <1>1, <1>2, <1>3, <2>1 DEF TypeOK, threadVars
<1>5. ThreadInv'
  BY <1>1, <1>2, ThreadInvKept
<1>6. LockQueues' /\ CondWaiters' /\ ReadyNonEmpty'
  BY <1>1, <1>3 DEF Inv, SyncInv, LockQueues, CondWaiters, ReadyNonEmpty
<1> QED BY <1>4, <1>5, <1>6 DEF Inv, SyncInv

LEMMA EndStep == Inv /\ (MainReturns \/ UNCHANGED vars) => Inv'
<1> SUFFICES ASSUME Inv, MainReturns \/ UNCHANGED vars PROVE Inv'
  OBVIOUS
<1>1. /\ status' \in {status, "exited"}
      /\ UNCHANGED <<list, threadVars, condVarMutex, owner, registryVars>>
  BY DEF MainReturns, vars, threadVars, registryVars
<1>2. TypeOK /\ ThreadInv /\ list \in Lists /\ OnePlace(list)
  BY DEF Inv, TypeOK, Lists, ThreadInv, Placement
<1>3. TypeOK'
  BY <1>1, <1>2 DEF TypeOK, threadVars, registryVars
<1>4. ThreadInv'
  BY <1>1, <1>2, ThreadInvKept
<1>5. LockQueues' /\ CondWaiters' /\ ReadyNonEmpty'
  BY <1>1 DEF Inv, SyncInv, LockQueues, CondWaiters, ReadyNonEmpty, registryVars
<1> QED BY <1>3, <1>4, <1>5 DEF Inv, SyncInv

LEMMA InvStep == Inv /\ [Next]_vars => Inv'
BY CreateStep, YieldStep, JoinStep, CleanupStep, EndStep, MutexInitStep, LockStep,
   UnlockStep, CondInitStep, WaitStep, SignalStep DEF Next, Ended

\* The invariant holds in every reachable state of every instance.
THEOREM Invariance == Spec => []Inv
<1>1. Init => Inv
  BY InitInv
<1>2. Inv /\ [Next]_vars => Inv'
  BY InvStep
<1> QED BY <1>1, <1>2, PTL DEF Spec

-----------------------------------------------------------------------------
(* What the library promises, one theorem for each property of the runs.     *)

\* Every variable keeps to its type.
THEOREM TypeCorrect == Spec => []TypeOK
BY Invariance, PTL DEF Inv

\* Every live thread is on exactly one list, once; nothing else is on any.
THEOREM EveryThreadInOnePlace == Spec => []Placement
<1>1. Inv => Placement
  BY DEF Inv, ThreadInv
<1> QED BY <1>1, Invariance, PTL

\* The memory not freed is that of the live threads and of the last that ended.
THEOREM MemoryExact == Spec => []HeapExact
<1>1. Inv => HeapExact
  BY DEF Inv, ThreadInv
<1> QED BY <1>1, Invariance, PTL

\* A thread is ready as long as the process runs.
THEOREM SomeThreadReady == Spec => []ReadyNonEmpty
<1>1. Inv => ReadyNonEmpty
  BY DEF Inv
<1> QED BY <1>1, Invariance, PTL

\* Joiners and joined live threads are matched one to one.
THEOREM JoinsMatched == Spec => [](JoinersListed /\ NoMutualJoin)
<1>1. Inv => JoinersListed /\ NoMutualJoin
  BY DEF Inv, ThreadInv
<1> QED BY <1>1, Invariance, PTL

\* Nobody queues for a free mutex, and no waiter owns what it waits for.
THEOREM WaitersConsistent == Spec => []Waiters
<1>1. Inv => Waiters
  BY DEF Inv, SyncInv, Waiters
<1> QED BY <1>1, Invariance, PTL

-----------------------------------------------------------------------------
(* Owners, and what a step may do.                                           *)

LEMMA OwnerAliveStep == Inv /\ OwnerAlive /\ [Next]_vars => OwnerAlive'
<1> SUFFICES ASSUME Inv, OwnerAlive, [Next]_vars, ~ExitHolding
             PROVE  \A m \in (Mutex \cap initialized)' : owner'[m] \in Live' \cup {NULL}
  BY DEF OwnerAlive
<1>1. /\ TypeOK /\ \A m \in Mutex \cap initialized : owner[m] \in Live \cup {NULL}
      /\ \A h \in ListHead : Elems(list, h) \subseteq Live
      /\ Live \subseteq TCB
  <2>1. TypeOK /\ Listed(list) = Live /\ list \in Lists
    BY DEF Inv, ThreadInv, Placement, TypeOK, Lists
  <2>2. \A h \in ListHead : Elems(list, h) \subseteq Live
    BY <2>1, EmptyElems DEF Listed
  <2> QED BY <2>1, <2>2 DEF OwnerAlive, Live
<1>2. CASE thread_create
  <2>1. Live \subseteq Live'
    BY <1>1, <1>2 DEF thread_create, Live, isThreadAlive, TypeOK
  <2> QED BY <1>1, <1>2, <2>1 DEF thread_create, registryVars
<1>3. CASE thread_yield \/ thread_join \/ MainReturns \/ thread_cond_init \/ UNCHANGED vars
  <2>1. UNCHANGED <<ter, owner>> /\ Mutex \cap initialized' = Mutex \cap initialized
    BY <1>3, HeadsDiffer
       DEF thread_yield, thread_join, MainReturns, thread_cond_init, vars,
           threadVars, registryVars
  <2> QED BY <1>1, <2>1 DEF Live, isThreadAlive
<1>4. CASE cleanup
  <2>1. /\ Owns(thread_self) = {} /\ UNCHANGED <<owner, initialized>>
        /\ ter' = [ter EXCEPT ![thread_self] = "terminated"]
    BY <1>4 DEF cleanup, registryVars
  <2>2. Live' = Live \ {thread_self}
    BY <1>1, <2>1 DEF Live, isThreadAlive, TypeOK
  <2> QED BY <1>1, <2>1, <2>2 DEF Owns
<1>5. CASE thread_mutex_init
  <2>1. PICK m \in Mutex : /\ owner' = ResetOwner(m) /\ UNCHANGED ter
                           /\ initialized' \in {initialized, initialized \cup {m}}
    BY <1>5 DEF thread_mutex_init, threadVars
  <2> QED BY <1>1, <2>1 DEF Live, isThreadAlive, ResetOwner, TypeOK
<1>6. CASE thread_mutex_lock
  <2>1. thread_self \in Live /\ UNCHANGED <<ter, initialized>>
    BY <1>6, SelfFacts DEF thread_mutex_lock, threadVars, registryVars
  <2>2. PICK m \in Mutex : owner' \in {owner, [owner EXCEPT ![m] = thread_self]}
    BY <1>6 DEF thread_mutex_lock
  <2> QED BY <1>1, <2>1, <2>2 DEF Live, isThreadAlive, TypeOK
<1>7. CASE thread_mutex_unlock \/ thread_cond_wait
  <2>1. PICK m \in Owns(thread_self) : owner' = UnlockedOwner(m)
    BY <1>7 DEF thread_mutex_unlock, thread_cond_wait
  <2>2. UNCHANGED <<ter, initialized>>
    BY <1>7 DEF thread_mutex_unlock, thread_cond_wait, threadVars, registryVars
  <2>3. list[m] # <<>> => Head(list[m]) \in Live
    BY <1>1, EmptyElems, HeadsDiffer DEF Owns, TypeOK, Lists
  <2> QED BY <1>1, <2>1, <2>2, <2>3 DEF Live, isThreadAlive, TypeOK, UnlockedOwner, Owns
<1>8. CASE thread_cond_signal
  <2>1. PICK c \in Cond :
           /\ list[c] # <<>>
           /\ owner' \in {owner, [owner EXCEPT ![condVarMutex[Head(list[c])]] =
                                     Head(list[c])]}
    BY <1>8 DEF thread_cond_signal
  <2>2. UNCHANGED <<ter, initialized>>
    BY <1>8 DEF thread_cond_signal, threadVars, registryVars
  <2>3. Head(list[c]) \in Live
    BY <1>1, <2>1, EmptyElems, HeadsDiffer DEF TypeOK, Lists
  <2> QED BY <1>1, <2>1, <2>2, <2>3 DEF Live, isThreadAlive, TypeOK
<1> QED BY <1>2, <1>3, <1>4, <1>5, <1>6, <1>7, <1>8 DEF Next, Ended

\* Clients that release what they lock never meet a mutex owned by a thread that
\* is gone.
THEOREM OwnersAreAlive == Spec => []OwnerAlive
<1>1. Init => OwnerAlive
  BY DEF Init, OwnerAlive
<1>2. Inv /\ OwnerAlive /\ [Next]_vars => OwnerAlive'
  BY OwnerAliveStep
<1> QED BY <1>1, <1>2, Invariance, PTL DEF Spec

\* What is freed was not referred to: neither when it was freed nor after.
THEOREM NoDanglingFree == Spec => FreeIsSafe
<1>1. ASSUME Inv, OwnerAlive, Inv', [Next]_vars
      PROVE  [FreeIsSafeStep]_vars
  <2> SUFFICES ASSUME NEW t \in heap \ heap'
               PROVE  /\ t # thread_self /\ t \notin Live
                      /\ \A h \in ListHead : t \notin Range(list'[h])
                      /\ \A u \in Live : waitingThread[u] # t
                      /\ ExitHolding \/ Owns(t) = {}
    BY DEF FreeIsSafeStep
  <2>1. cleanup /\ t = waitingForCleanup
    BY <1>1 DEF Next, Ended, vars, thread_create, thread_yield, thread_join, cleanup,
                MainReturns, thread_mutex_init, thread_mutex_lock,
                thread_mutex_unlock, thread_cond_init, thread_cond_wait,
                thread_cond_signal, threadVars, StillAllocated
  <2>2. t \notin Live /\ t \in TCB /\ t # NULL
    BY <1>1, <2>1, HeadsDiffer DEF Inv, ThreadInv, HeapExact, TypeOK
  <2>3. t # thread_self
    BY <1>1, <2>1, <2>2, SelfFacts DEF cleanup
  <2>4. \A h \in ListHead : t \notin Range(list'[h])
    <3>1. t \notin Live'
      BY <1>1 DEF Inv, ThreadInv, HeapExact
    <3> QED BY <1>1, <2>2, <3>1 DEF Inv, ThreadInv, Placement, Listed, Elems
  <2>5. \A u \in Live : waitingThread[u] # t
    <3>1. t \notin Elems(list, joiningList)
      BY <1>1, <2>2, HeadsDiffer DEF Inv, ThreadInv, Placement, Listed
    <3> QED BY <1>1, <2>2, <3>1 DEF Inv, ThreadInv, JoinersListed
  <2>6. ExitHolding \/ Owns(t) = {}
    BY <1>1, <2>2 DEF OwnerAlive, Owns
  <2> QED BY <2>2, <2>3, <2>4, <2>5, <2>6
<1> QED BY <1>1, Invariance, OwnersAreAlive, PTL DEF Spec, FreeIsSafe

\* A joiner waits as long as its thread lives and is ready when that ends.
THEOREM JoinIsExact == Spec => JoinExact
<1>1. ASSUME Inv, Inv', [Next]_vars
      PROVE  [JoinExactStep]_vars
  <2> SUFFICES ASSUME NEW w \in TCB, NEW t \in Live, waitingThread[t] = w,
                      w \in Elems(list, joiningList)
               PROVE  IF ter'[t] = "terminated"
                      THEN w \in Range(list'[readyQueue])
                      ELSE w \in Range(list'[joiningList])
    BY DEF JoinExactStep
  <2>1. /\ t \in TCB /\ ter[t] = "alive" /\ w # NULL /\ TypeOK
        /\ t \in heap
    BY <1>1, HeadsDiffer DEF Live, isThreadAlive, Inv, ThreadInv, HeapExact
  <2>2. ASSUME t \in Live', waitingThread'[t] = w
        PROVE  w \in Range(list'[joiningList]) /\ ter'[t] # "terminated"
    BY <1>1, <2>1, <2>2 DEF Inv, ThreadInv, JoinersListed, Elems, Live, isThreadAlive
  <2>3. CASE cleanup
    <3>1. CASE t = thread_self
      <4> DEFINE k == wakeupThread(list, w)
      <4>1. /\ list \in Lists /\ OnePlace(list) /\ list[readyQueue] # <<>>
            /\ Head(list[readyQueue]) = t /\ t # w
            /\ list' = Pop(k, readyQueue) /\ ter'[t] = "terminated"
        BY <1>1, <2>1, <2>3, <3>1, SelfFacts, HeadsDiffer
           DEF cleanup, thread_self, TypeOK
      <4>2. /\ k \in Lists /\ OnePlace(k) /\ k[readyQueue] # <<>>
            /\ Head(k[readyQueue]) = t /\ w \in Elems(k, readyQueue)
        BY <2>1, <4>1, WakeLemma, HeadsDiffer
      <4>3. w \in Elems(list', readyQueue)
        BY <4>1, <4>2, PopLemma, HeadsDiffer
      <4> QED BY <4>1, <4>3 DEF Elems
    <3>2. CASE t # thread_self
      <4>1. t \in Live' /\ waitingThread'[t] = w
        BY <2>1, <2>3, <3>2 DEF cleanup, Live, isThreadAlive, TypeOK
      <4> QED BY <2>2, <4>1
    <3> QED BY <3>1, <3>2
  <2>4. CASE thread_create
    <3>1. t \in Live' /\ waitingThread'[t] = w
      BY <2>1, <2>4 DEF thread_create, Live, isThreadAlive, TypeOK
    <3> QED BY <2>2, <3>1
  <2>5. CASE thread_join
    <3>1. t \in Live' /\ waitingThread'[t] = w
      BY <2>1, <2>5 DEF thread_join, JoinRefused, Live, isThreadAlive, TypeOK
    <3> QED BY <2>2, <3>1
  <2>6. CASE UNCHANGED <<waitingThread, ter>>
    <3>1. t \in Live' /\ waitingThread'[t] = w
      BY <2>1, <2>6 DEF Live, isThreadAlive
    <3> QED BY <2>2, <3>1
  <2> QED BY <1>1, <2>3, <2>4, <2>5, <2>6
          DEF Next, Ended, vars, thread_yield, MainReturns, thread_mutex_init,
              thread_mutex_lock, thread_mutex_unlock, thread_cond_init,
              thread_cond_wait, thread_cond_signal, threadVars
<1> QED BY <1>1, Invariance, PTL DEF Spec, JoinExact

\* What a call may make of a queue q without changing the order behind its head.
LEMMA QueueSteps ==
  ASSUME NEW q \in Seq(TCB), q # <<>>, NEW x \in TCB,
         NEW r \in {q, Tail(q), Append(q, x), Tail(Append(q, x)), Append(Tail(q), x)}
  PROVE  \A i \in 2..Len(q) : \E j \in {i - 1, i} \cap DOMAIN r : r[j] = q[i]
<1> SUFFICES ASSUME NEW i \in 2..Len(q)
             PROVE  \E j \in {i - 1, i} \cap DOMAIN r : r[j] = q[i]
  OBVIOUS
<1>1. /\ Len(q) \in Nat /\ DOMAIN q = 1 .. Len(q)
      /\ i \in Int /\ i - 1 \in 1 .. (Len(q) - 1) /\ (i - 1) + 1 = i
      /\ i \in 1 .. Len(q) /\ i - 1 \in 1 .. Len(q)
  BY LenProperties
<1>2. /\ Append(q, x) \in Seq(TCB) /\ Append(q, x) # <<>>
      /\ Len(Append(q, x)) = Len(q) + 1
      /\ DOMAIN Append(q, x) = 1 .. (Len(q) + 1)
      /\ \A k \in 1 .. Len(q) : Append(q, x)[k] = q[k]
  BY AppendProperties, LenProperties
<1>3. /\ Tail(q) \in Seq(TCB)
      /\ Len(Tail(q)) = Len(q) - 1 /\ DOMAIN Tail(q) = 1 .. (Len(q) - 1)
      /\ \A k \in 1 .. (Len(q) - 1) : Tail(q)[k] = q[k + 1]
  BY HeadTailProperties, LenProperties
<1>4. CASE r = q
  BY <1>1, <1>4
<1>5. CASE r = Tail(q)
  <2>1. i - 1 \in DOMAIN r /\ r[i - 1] = q[i]
    BY <1>1, <1>3, <1>5
  <2> QED BY <2>1
<1>6. CASE r = Append(q, x)
  <2>1. i \in DOMAIN r /\ r[i] = q[i]
    BY <1>1, <1>2, <1>6
  <2> QED BY <2>1
<1>7. CASE r = Tail(Append(q, x))
  <2> DEFINE a == Append(q, x)
  <2>1. /\ DOMAIN Tail(a) = 1 .. Len(q)
        /\ \A k \in 1 .. Len(q) : Tail(a)[k] = a[k + 1]
    <3>1. Len(Tail(a)) = Len(q) /\ Tail(a) \in Seq(TCB)
      BY <1>1, <1>2, HeadTailProperties
    <3> QED BY <1>2, <3>1, HeadTailProperties, LenProperties
  <2>2. i - 1 \in DOMAIN r /\ r[i - 1] = a[i]
    BY <1>1, <1>7, <2>1
  <2> QED BY <1>1, <1>2, <2>2
<1>8. CASE r = Append(Tail(q), x)
  <2> DEFINE b == Tail(q)
  <2>1. /\ DOMAIN Append(b, x) = 1 .. (Len(b) + 1)
        /\ \A k \in 1 .. Len(b) : Append(b, x)[k] = b[k]
    BY <1>3, AppendProperties, LenProperties
  <2>2. i - 1 \in DOMAIN r /\ r[i - 1] = b[i - 1]
    BY <1>1, <1>3, <1>8, <2>1
  <2> QED BY <1>1, <1>3, <2>2
<1> QED BY <1>4, <1>5, <1>6, <1>7, <1>8

\* Every call does one of these things to the ready queue.
LEMMA ReadyQueueStep ==
  ASSUME Inv, [Next]_vars
  PROVE  \/ list'[readyQueue] = list[readyQueue]
         \/ /\ list[readyQueue] # <<>>
            /\ \E x \in TCB : list'[readyQueue] \in
                  {Tail(list[readyQueue]), Append(list[readyQueue], x),
                   Tail(Append(list[readyQueue], x)),
                   Append(Tail(list[readyQueue]), x)}
<1> DEFINE q == list[readyQueue]
           self == thread_self
<1>1. CASE UNCHANGED list
  BY <1>1
<1>2. ASSUME status = "running"
      PROVE  /\ list \in Lists /\ OnePlace(list) /\ q # <<>>
             /\ self \in TCB /\ self = Head(q)
  BY <1>2, SelfFacts DEF thread_self
<1>3. CASE thread_create
  <2>1. PICK t \in TCB : list' = Push(list, readyQueue, t)
    BY <1>3 DEF thread_create
  <2> QED BY <1>2, <1>3, <2>1, HeadsDiffer DEF Push, Lists, thread_create
<1>4. CASE thread_yield
  <2>1. list'[readyQueue] = Append(Tail(q), self)
    BY <1>2, <1>4, MoveLemma, HeadsDiffer DEF thread_yield
  <2> QED BY <1>2, <1>4, <2>1 DEF thread_yield
<1>5. CASE thread_join
  <2>1. list'[readyQueue] = Tail(q)
    BY <1>2, <1>5, MoveLemma, HeadsDiffer DEF thread_join
  <2> QED BY <1>2, <1>5, <2>1 DEF thread_join
<1>6. CASE cleanup
  <2> DEFINE w == waitingThread[self]
             k == wakeupThread(list, w)
  <2>1. list' = Pop(k, readyQueue) /\ status = "running"
    BY <1>6 DEF cleanup
  <2>2. w \in Elems(list, joiningList) \cup {NULL}
    BY <2>1, SelfFacts DEF Inv, ThreadInv, JoinersListed
  <2> HIDE DEF w
  <2>3. /\ k \in Lists /\ OnePlace(k) /\ k[readyQueue] # <<>>
        /\ \/ k[readyQueue] = q
           \/ w \in TCB /\ k[readyQueue] = Append(q, w)
    BY <1>2, <2>1, <2>2, WakeLemma
  <2> HIDE DEF k
  <2>4. list'[readyQueue] = Tail(k[readyQueue])
    BY <2>1, <2>3, PopLemma, HeadsDiffer
  <2> QED BY <1>2, <2>1, <2>3, <2>4
<1>7. CASE thread_mutex_lock
  <2>1. PICK m \in Mutex : \/ UNCHANGED list
                           \/ list' = Move(list, readyQueue, m)
    BY <1>7 DEF thread_mutex_lock
  <2>2. CASE list' = Move(list, readyQueue, m)
    <3>1. list'[readyQueue] = Tail(q)
      BY <1>2, <1>7, <2>2, MoveLemma, HeadsDiffer DEF thread_mutex_lock
    <3> QED BY <1>2, <1>7, <3>1 DEF thread_mutex_lock
  <2> QED BY <2>1, <2>2
<1>8. CASE thread_mutex_unlock \/ thread_cond_wait
  <2>1. /\ status = "running"
        /\ \E m \in Owns(self) :
              \/ list' = UnlockedList(m)
              \/ \E c \in Cond : list' = Move(UnlockedList(m), readyQueue, c)
    BY <1>8 DEF thread_mutex_unlock, thread_cond_wait
  <2>2. PICK m \in Owns(self) :
              \/ list' = UnlockedList(m)
              \/ \E c \in Cond : list' = Move(UnlockedList(m), readyQueue, c)
    BY <2>1
  <2> DEFINE l == UnlockedList(m)
  <2>3. /\ l \in Lists /\ OnePlace(l) /\ l[readyQueue] # <<>>
        /\ l = list \/ \E x \in TCB : l[readyQueue] = Append(q, x)
    BY <2>1, UnlockLemma DEF Owns
  <2> HIDE DEF l
  <2>4. list'[readyQueue] = l[readyQueue] \/ list'[readyQueue] = Tail(l[readyQueue])
    BY <2>2, <2>3, MoveLemma, HeadsDiffer DEF l
  <2> QED BY <1>2, <2>1, <2>3, <2>4
<1>9. CASE thread_cond_signal
  <2>1. PICK c \in Cond : /\ list[c] # <<>>
                          /\ \/ list' = Move(list, c, readyQueue)
                             \/ list' = Move(list, c, condVarMutex[Head(list[c])])
    BY <1>9 DEF thread_cond_signal
  <2>2. /\ status = "running" /\ c \in ListHead /\ c # readyQueue
        /\ Head(list[c]) \in TCB /\ Head(list[c]) \in Elems(list, c)
    BY <1>2, <1>9, <2>1, PopLemma, HeadsDiffer DEF thread_cond_signal
  <2>3. condVarMutex[Head(list[c])] \in Mutex
    BY <2>2 DEF Inv, SyncInv, CondWaiters
  <2>4. CASE list' = Move(list, c, readyQueue)
    <3>1. list'[readyQueue] = Append(q, Head(list[c]))
      BY <1>2, <2>1, <2>2, <2>4, MoveLemma, HeadsDiffer
    <3> QED BY <1>2, <2>2, <3>1
  <2>5. CASE list' = Move(list, c, condVarMutex[Head(list[c])])
    BY <1>2, <2>1, <2>2, <2>3, <2>5, MoveLemma, HeadsDiffer
  <2> QED BY <2>1, <2>4, <2>5
<1> QED BY <1>1, <1>3, <1>4, <1>5, <1>6, <1>7, <1>8, <1>9
        DEF Next, Ended, vars, MainReturns, thread_mutex_init, thread_cond_init

\* The ready queue is served in order.
THEOREM ReadyQueueInOrder == Spec => ReadyInOrder
<1>1. ASSUME Inv, [Next]_vars
      PROVE  [ReadyInOrderStep]_vars
  <2>1. list[readyQueue] \in Seq(TCB)
    BY <1>1, HeadsDiffer DEF Inv, TypeOK
  <2>2. CASE list[readyQueue] = <<>>
    BY <2>2 DEF ReadyInOrderStep
  <2>3. CASE list[readyQueue] # <<>>
    <3>1. PICK x \in TCB : list'[readyQueue] \in
             {list[readyQueue], Tail(list[readyQueue]), Append(list[readyQueue], x),
              Tail(Append(list[readyQueue], x)), Append(Tail(list[readyQueue]), x)}
      BY <1>1, ReadyQueueStep, HeadsDiffer
    <3> QED BY <2>1, <2>3, <3>1, QueueSteps DEF ReadyInOrderStep
  <2> QED BY <2>2, <2>3
<1> QED BY <1>1, Invariance, PTL DEF Spec, ReadyInOrder

LEMMA PrefixLemma ==
  ASSUME NEW s \in Seq(TCB), NEW x \in TCB
  PROVE  IsPrefix(s, s) /\ IsPrefix(s, Append(s, x))
<1> DEFINE a == Append(s, x)
<1>1. /\ a \in Seq(TCB) /\ Len(a) = Len(s) + 1 /\ Len(s) \in Nat
      /\ \A i \in 1 .. Len(s) : a[i] = s[i]
      /\ \A i \in 1 .. Len(a) : a[i] \in TCB
      /\ \A i \in 1 .. Len(s) : s[i] \in TCB
  BY AppendProperties, LenProperties, ElementOfSeq
<1> HIDE DEF a
<1>2. /\ SubSeq(s, 1, Len(s)) \in Seq(TCB) /\ Len(SubSeq(s, 1, Len(s))) = Len(s)
      /\ \A i \in 1 .. Len(s) : SubSeq(s, 1, Len(s))[i] = s[i]
  BY <1>1, SubSeqFull
<1>3. /\ SubSeq(a, 1, Len(s)) \in Seq(TCB) /\ Len(SubSeq(a, 1, Len(s))) = Len(s)
      /\ \A i \in 1 .. Len(s) : SubSeq(a, 1, Len(s))[i] = s[i]
  <2>1. \A i \in 1 .. Len(s) : a[i] \in TCB
    BY <1>1
  <2> QED BY <1>1, <2>1
<1>4. SubSeq(s, 1, Len(s)) = SubSeq(a, 1, Len(s))
  BY <1>2, <1>3, SeqEqual
<1>5. Len(s) <= Len(s) /\ Len(s) <= Len(a)
  BY <1>1
<1> QED BY <1>4, <1>5 DEF IsPrefix, a

\* The waiters of a mutex get it one after the other, in the order they came.
THEOREM MutexHandedOver == Spec => HandOver
<1>1. ASSUME Inv, [Next]_vars
      PROVE  [HandOverStep]_vars
  <2> SUFFICES ASSUME NEW m \in Mutex, list[m] # <<>>
               PROVE  \/ owner'[m] = owner[m] /\ IsPrefix(list[m], list'[m])
                      \/ /\ owner'[m] = Head(list[m])
                         /\ list'[m] = Tail(list[m])
                         /\ owner'[m] \in Range(list'[readyQueue])
    BY DEF HandOverStep
  <2> DEFINE self == thread_self
  <2>1. /\ m \in ListHead \ {readyQueue, joiningList} /\ m \notin Cond
        /\ list \in Lists /\ list[m] \in Seq(TCB) /\ TypeOK /\ m # NULL
    BY <1>1, HeadsDiffer DEF Inv, TypeOK, Lists
  <2>2. IsPrefix(list[m], list[m]) /\ \A x \in TCB : IsPrefix(list[m], Append(list[m], x))
    BY <2>1, PrefixLemma, HeadsDiffer
  <2>3. ASSUME status = "running"
        PROVE  /\ OnePlace(list) /\ list[readyQueue] # <<>> /\ self \in TCB
               /\ self = Head(list[readyQueue]) /\ self \in Elems(list, readyQueue)
    BY <1>1, <2>3, SelfFacts DEF thread_self
  <2>4. CASE list'[m] = list[m] /\ owner'[m] = owner[m]
    BY <2>2, <2>4
  <2>5. CASE thread_create
    <3>1. UNCHANGED owner /\ \E t \in TCB : list' = Push(list, readyQueue, t)
      BY <2>5 DEF thread_create
    <3> QED BY <2>1, <2>4, <3>1 DEF Push, Lists
  <2>6. CASE thread_yield \/ thread_join
    <3>1. /\ UNCHANGED owner /\ status = "running"
          /\ \E h \in {readyQueue, joiningList} : list' = Move(list, readyQueue, h)
      BY <2>6 DEF thread_yield, thread_join
    <3>2. list'[m] = list[m]
      BY <2>1, <2>3, <3>1, MoveLemma, HeadsDiffer
    <3> QED BY <2>4, <3>1, <3>2
  <2>7. CASE cleanup
    <3> DEFINE w == waitingThread[self]
               k == wakeupThread(list, w)
    <3>1. list' = Pop(k, readyQueue) /\ status = "running" /\ UNCHANGED owner
      BY <2>7 DEF cleanup
    <3>2. w \in Elems(list, joiningList) \cup {NULL}
      BY <1>1, <3>1, SelfFacts DEF Inv, ThreadInv, JoinersListed
    <3> HIDE DEF w
    <3>3. k \in Lists /\ OnePlace(k) /\ k[readyQueue] # <<>> /\ k[m] = list[m]
      BY <2>1, <2>3, <3>1, <3>2, WakeLemma
    <3> HIDE DEF k
    <3>4. list'[m] = k[m]
      BY <2>1, <3>1, <3>3, PopLemma, HeadsDiffer
    <3> QED BY <2>4, <3>1, <3>3, <3>4
  <2>8. CASE thread_mutex_init
    <3>1. PICK n \in Mutex : /\ MayInit(n) /\ owner' = ResetOwner(n)
                             /\ UNCHANGED list
      BY <2>8 DEF thread_mutex_init
    <3>2. n # m
      BY <1>1, <3>1 DEF MayInit, Idle, Inv, SyncInv, LockQueues
    <3> QED BY <2>1, <2>4, <3>1, <3>2 DEF ResetOwner, TypeOK
  <2>9. CASE thread_mutex_lock
    <3>1. /\ status = "running"
          /\ \E n \in Mutex \cap initialized :
             \/ owner[n] = NULL /\ owner' = [owner EXCEPT ![n] = self] /\ UNCHANGED list
             \/ list' = Move(list, readyQueue, n) /\ UNCHANGED owner
      BY <2>9 DEF thread_mutex_lock
    <3>2. PICK n \in Mutex \cap initialized :
             \/ owner[n] = NULL /\ owner' = [owner EXCEPT ![n] = self] /\ UNCHANGED list
             \/ list' = Move(list, readyQueue, n) /\ UNCHANGED owner
      BY <3>1
    <3>3. CASE owner[n] = NULL /\ owner' = [owner EXCEPT ![n] = self] /\ UNCHANGED list
      <4>1. n # m
        BY <1>1, <3>3 DEF Inv, SyncInv, LockQueues
      <4> QED BY <2>1, <2>4, <3>3, <4>1 DEF TypeOK
    <3>4. CASE list' = Move(list, readyQueue, n) /\ UNCHANGED owner
      <4>1. list'[m] \in {list[m], Append(list[m], self)}
        BY <2>1, <2>3, <3>1, <3>4, MoveLemma, HeadsDiffer
      <4> QED BY <2>2, <2>3, <3>1, <3>4, <4>1
    <3> QED BY <3>2, <3>3, <3>4
  <2>10. CASE thread_mutex_unlock \/ thread_cond_wait
    <3>1. /\ status = "running"
          /\ \E n \in Owns(self) :
                /\ owner' = UnlockedOwner(n)
                /\ \/ list' = UnlockedList(n)
                   \/ \E c \in Cond : list' = Move(UnlockedList(n), readyQueue, c)
      BY <2>10 DEF thread_mutex_unlock, thread_cond_wait
    <3>2. PICK n \in Owns(self) :
                /\ owner' = UnlockedOwner(n)
                /\ \/ list' = UnlockedList(n)
                   \/ \E c \in Cond : list' = Move(UnlockedList(n), readyQueue, c)
      BY <3>1
    <3> DEFINE l == UnlockedList(n)
    <3>3. /\ l \in Lists /\ OnePlace(l) /\ l[readyQueue] # <<>>
          /\ Head(l[readyQueue]) = self
          /\ m # n => owner'[m] = owner[m] /\ l[m] = list[m]
          /\ m = n => /\ owner'[m] = Head(list[m]) /\ l[m] = Tail(list[m])
                      /\ owner'[m] \in Elems(l, readyQueue) /\ owner'[m] # self
      <4>1. n \in Mutex \cap initialized /\ owner[n] = thread_self
        BY <3>2 DEF Owns
      <4>2. /\ l \in Lists /\ OnePlace(l) /\ l[readyQueue] # <<>>
            /\ Head(l[readyQueue]) = self
        BY <1>1, <3>1, <4>1, UnlockLemma
      <4>3. m # n => UnlockedOwner(n)[m] = owner[m] /\ l[m] = list[m]
        BY <1>1, <3>1, <4>1, UnlockLemma
      <4>4. m = n => /\ UnlockedOwner(n)[m] = Head(list[m]) /\ l[m] = Tail(list[m])
                     /\ UnlockedOwner(n)[m] \in Elems(l, readyQueue)
                     /\ UnlockedOwner(n)[m] # self
        BY <1>1, <3>1, <4>1, UnlockLemma
      <4> QED BY <3>2, <4>2, <4>3, <4>4
    <3> HIDE DEF l, self
    <3>4. list'[m] = l[m]
      <4>1. list' = l \/ \E c \in Cond : list' = Move(l, readyQueue, c)
        BY <3>2 DEF l
      <4>2. CASE list' = l
        BY <4>2
      <4>3. ASSUME NEW c \in Cond, list' = Move(l, readyQueue, c) PROVE list'[m] = l[m]
        BY <2>1, <3>3, <4>3, MoveLemma, HeadsDiffer
      <4> QED BY <4>1, <4>2, <4>3
    <3>5. CASE m # n
      BY <2>4, <3>3, <3>4, <3>5
    <3>6. CASE m = n
      <4>1. owner'[m] \in Elems(list', readyQueue)
        BY <3>2, <3>3, <3>6, MoveLemma, HeadsDiffer DEF l
      <4> QED BY <3>3, <3>4, <3>6, <4>1 DEF Elems
    <3> QED BY <3>5, <3>6
  <2>11. CASE thread_cond_signal
    <3>1. PICK c \in Cond :
             /\ list[c] # <<>> /\ status = "running"
             /\ LET w  == Head(list[c])
                    mu == condVarMutex[w]
                IN  \/ /\ owner[mu] = NULL /\ owner' = [owner EXCEPT ![mu] = w]
                       /\ list' = Move(list, c, readyQueue)
                    \/ list' = Move(list, c, mu) /\ UNCHANGED owner
      BY <2>11 DEF thread_cond_signal
    <3> DEFINE w  == Head(list[c])
               mu == condVarMutex[w]
    <3>2. c \in ListHead /\ c # readyQueue /\ c # m /\ w \in TCB /\ w \in Elems(list, c)
      BY <2>1, <2>3, <3>1, PopLemma, HeadsDiffer
    <3>3. mu \in Mutex
      BY <1>1, <3>2 DEF Inv, SyncInv, CondWaiters
    <3> HIDE DEF w, mu
    <3>4. CASE owner[mu] = NULL /\ owner' = [owner EXCEPT ![mu] = w]
               /\ list' = Move(list, c, readyQueue)
      <4>1. mu # m
        BY <1>1, <3>4 DEF Inv, SyncInv, LockQueues
      <4>2. list'[m] = list[m]
        BY <2>1, <2>3, <3>1, <3>2, <3>4, MoveLemma, HeadsDiffer
      <4> QED BY <2>1, <2>4, <3>4, <4>1, <4>2 DEF TypeOK
    <3>5. CASE list' = Move(list, c, mu) /\ UNCHANGED owner
      <4>1. list'[m] \in {list[m], Append(list[m], w)}
        <5>1. c # mu /\ mu \in ListHead /\ list[c] # <<>> /\ OnePlace(list)
          BY <2>3, <3>1, <3>3, HeadsDiffer
        <5>2. CASE mu = m
          <6>1. list'[m] = Append(list[m], Head(list[c]))
            BY <2>1, <3>2, <3>5, <5>1, <5>2, MoveLemma
          <6> QED BY <6>1 DEF w
        <5>3. CASE mu # m
          BY <2>1, <3>2, <3>5, <5>1, <5>3, MoveLemma
        <5> QED BY <5>2, <5>3
      <4> QED BY <2>2, <3>2, <3>5, <4>1
    <3> QED BY <3>1, <3>4, <3>5 DEF w, mu
  <2>12. CASE MainReturns \/ thread_cond_init \/ UNCHANGED vars
    BY <2>4, <2>12 DEF MainReturns, thread_cond_init, vars
  <2> QED BY <1>1, <2>5, <2>6, <2>7, <2>8, <2>9, <2>10, <2>11, <2>12
          DEF Next, Ended
<1> QED BY <1>1, Invariance, PTL DEF Spec, HandOver

\* A signalled thread owns the mutex it waited with, or is the last in the queue
\* for it; nobody leaves a condition variable otherwise (thread.c:454-476).
THEOREM SignalsHandOver == Spec => SignalHandsMutex
<1>1. ASSUME Inv, [Next]_vars
      PROVE  [SignalHandsMutexStep]_vars
  <2> DEFINE self == thread_self
             Left(d) == ~IsPrefix(list[d], list'[d])
  <2> SUFFICES ASSUME NEW d \in Cond, Left(d)
               PROVE  LET w == Head(list[d])
                          m == condVarMutex[w]
                      IN  /\ list'[d] = Tail(list[d])
                          /\ \/ /\ owner[m] = NULL /\ owner'[m] = w
                                /\ w \in Range(list'[readyQueue])
                             \/ /\ owner[m] # NULL /\ owner'[m] = owner[m]
                                /\ list'[m] = Append(list[m], w)
    BY DEF SignalHandsMutexStep
  <2>1. /\ d \in ListHead \ {readyQueue, joiningList} /\ d \notin Mutex
        /\ list \in Lists /\ list[d] \in Seq(TCB) /\ TypeOK
    BY <1>1, HeadsDiffer DEF Inv, TypeOK, Lists
  <2>2. list'[d] # list[d] /\ \A x \in TCB : list'[d] # Append(list[d], x)
    <3>1. CASE list'[d] = list[d]
      <4>1. PICK x \in TCB : TRUE
        BY HeadsDiffer
      <4> QED BY <2>1, <3>1, <4>1, PrefixLemma
    <3>2. ASSUME NEW x \in TCB, list'[d] = Append(list[d], x)
          PROVE  FALSE
      BY <2>1, <3>2, PrefixLemma
    <3> QED BY <3>1, <3>2
  <2> HIDE DEF Left
  <2>3. ASSUME status = "running"
        PROVE  /\ OnePlace(list) /\ list[readyQueue] # <<>> /\ self \in TCB
               /\ self = Head(list[readyQueue])
    BY <1>1, <2>3, SelfFacts DEF thread_self
  <2>4. CASE thread_create
    <3>1. \E t \in TCB : list' = Push(list, readyQueue, t)
      BY <2>4 DEF thread_create
    <3> QED BY <2>1, <2>2, <3>1 DEF Push, Lists
  <2>5. CASE thread_yield \/ thread_join
    <3>1. /\ status = "running"
          /\ \E h \in {readyQueue, joiningList} : list' = Move(list, readyQueue, h)
      BY <2>5 DEF thread_yield, thread_join
    <3>2. list'[d] = list[d]
      BY <2>1, <2>3, <3>1, MoveLemma, HeadsDiffer
    <3> QED BY <2>2, <3>2
  <2>6. CASE cleanup
    <3> DEFINE w == waitingThread[self]
               k == wakeupThread(list, w)
    <3>1. list' = Pop(k, readyQueue) /\ status = "running"
      BY <2>6 DEF cleanup
    <3>2. w \in Elems(list, joiningList) \cup {NULL}
      BY <1>1, <3>1, SelfFacts DEF Inv, ThreadInv, JoinersListed
    <3> HIDE DEF w
    <3>3. k \in Lists /\ OnePlace(k) /\ k[readyQueue] # <<>> /\ k[d] = list[d]
      BY <2>1, <2>3, <3>1, <3>2, WakeLemma
    <3> HIDE DEF k
    <3>4. list'[d] = k[d]
      BY <2>1, <3>1, <3>3, PopLemma, HeadsDiffer
    <3> QED BY <2>2, <3>3, <3>4
  <2>7. CASE thread_mutex_lock
    <3>1. /\ status = "running"
          /\ \E n \in Mutex : list' \in {list, Move(list, readyQueue, n)}
      BY <2>7 DEF thread_mutex_lock
    <3>2. PICK n \in Mutex : list' \in {list, Move(list, readyQueue, n)}
      BY <3>1
    <3>3. list'[d] = list[d]
      BY <2>1, <2>3, <3>1, <3>2, MoveLemma, HeadsDiffer
    <3> QED BY <2>2, <3>3
  <2>8. CASE thread_mutex_unlock \/ thread_cond_wait
    <3>1. /\ status = "running"
          /\ \E n \in Owns(self) :
                \/ list' = UnlockedList(n)
                \/ \E c \in Cond : list' = Move(UnlockedList(n), readyQueue, c)
      BY <2>8 DEF thread_mutex_unlock, thread_cond_wait
    <3>2. PICK n \in Owns(self) :
                \/ list' = UnlockedList(n)
                \/ \E c \in Cond : list' = Move(UnlockedList(n), readyQueue, c)
      BY <3>1
    <3> DEFINE l == UnlockedList(n)
    <3>3. /\ l \in Lists /\ OnePlace(l) /\ l[readyQueue] # <<>>
          /\ Head(l[readyQueue]) = self
      BY <1>1, <3>1, <3>2, UnlockLemma DEF Owns
    <3>4. l[d] = list[d]
      <4>1. n \in Mutex
        BY <3>2 DEF Owns
      <4> QED BY <2>1, <2>3, <3>1, <4>1, MoveLemma, HeadsDiffer DEF UnlockedList
    <3> HIDE DEF l, self
    <3>5. CASE list' = l
      BY <2>2, <3>4, <3>5
    <3>6. CASE \E c \in Cond : list' = Move(l, readyQueue, c)
      <4>1. list'[d] \in {l[d], Append(l[d], self)}
        BY <2>1, <3>3, <3>6, MoveLemma, HeadsDiffer
      <4> QED BY <2>2, <2>3, <3>1, <3>4, <4>1
    <3> QED BY <3>2, <3>5, <3>6 DEF l
  <2>9. CASE thread_cond_signal
    <3>1. PICK c \in Cond :
             /\ list[c] # <<>> /\ status = "running"
             /\ LET w  == Head(list[c])
                    mu == condVarMutex[w]
                IN  \/ /\ owner[mu] = NULL /\ owner' = [owner EXCEPT ![mu] = w]
                       /\ list' = Move(list, c, readyQueue)
                    \/ /\ owner[mu] # NULL
                       /\ list' = Move(list, c, mu) /\ UNCHANGED owner
      BY <2>9 DEF thread_cond_signal
    <3> DEFINE w  == Head(list[c])
               mu == condVarMutex[w]
    <3>2. c \in ListHead /\ c # readyQueue /\ w \in TCB /\ w \in Elems(list, c)
      BY <2>1, <2>3, <3>1, PopLemma, HeadsDiffer
    <3>3. mu \in Mutex /\ mu \in ListHead /\ mu # c /\ mu # d
      BY <1>1, <2>1, <3>2, HeadsDiffer DEF Inv, SyncInv, CondWaiters
    <3>4. c = d
      <4>1. c # d => list'[d] = list[d]
        BY <2>1, <2>3, <3>1, <3>2, <3>3, MoveLemma, HeadsDiffer
      <4> QED BY <2>2, <4>1
    <3> HIDE DEF w, mu
    <3>5. CASE owner[mu] = NULL /\ owner' = [owner EXCEPT ![mu] = w]
               /\ list' = Move(list, c, readyQueue)
      <4>1. list'[d] = Tail(list[d]) /\ w \in Elems(list', readyQueue)
        BY <2>1, <2>3, <3>1, <3>2, <3>4, <3>5, MoveLemma, HeadsDiffer DEF w
      <4>2. owner'[mu] = w
        BY <2>1, <3>3, <3>5 DEF TypeOK
      <4> QED BY <3>4, <3>5, <4>1, <4>2 DEF Elems, w, mu
    <3>6. CASE owner[mu] # NULL /\ list' = Move(list, c, mu) /\ UNCHANGED owner
      <4>1. list'[d] = Tail(list[d]) /\ list'[mu] = Append(list[mu], w)
        BY <2>1, <2>3, <3>1, <3>2, <3>3, <3>4, <3>6, MoveLemma, HeadsDiffer DEF w
      <4> QED BY <3>4, <3>6, <4>1 DEF w, mu
    <3> QED BY <3>1, <3>5, <3>6 DEF w, mu
  <2>10. CASE thread_mutex_init \/ MainReturns \/ thread_cond_init \/ UNCHANGED vars
    BY <2>2, <2>10 DEF thread_mutex_init, MainReturns, thread_cond_init, vars
  <2> QED BY <1>1, <2>4, <2>5, <2>6, <2>7, <2>8, <2>9, <2>10 DEF Next, Ended
<1> QED BY <1>1, Invariance, PTL DEF Spec, SignalHandsMutex
=============================================================================
