------------------------- MODULE ThreadListsProofs -------------------------
(***************************************************************************)
(* The pointers of the thread library implement its lists: for every set   *)
(* of addresses, mutexes and condition variables, each assignment to a     *)
(* next field amounts to what Threads does to sequences.                   *)
(***************************************************************************)
EXTENDS ThreadLists, SequenceTheorems, WellFoundedInduction, TLAPS

-----------------------------------------------------------------------------
\* Every set of numbers that is not empty has a least one.
LEMMA LeastNat ==
    ASSUME NEW S \in SUBSET Nat, S # {}
    PROVE  \E n \in S : \A k \in S : n <= k
<1>1. IsWellFoundedOn(OpToRel(<, Nat), Nat)
  BY NatLessThanWellFounded
<1>2. PICK n \in S : \A k \in S : ~(<<k, n>> \in OpToRel(<, Nat))
  BY <1>1, WFMin
<1>3. ASSUME NEW k \in S PROVE n <= k
  <2>1. ~(<<k, n>> \in OpToRel(<, Nat))
    BY <1>2
  <2>2. k \in Nat /\ n \in Nat
    OBVIOUS
  <2>3. ~(k < n)
    BY <2>1, <2>2 DEF OpToRel
  <2> QED
    BY <2>2, <2>3
<1> QED
  BY <1>3

-----------------------------------------------------------------------------
(* Walks.  The recursive function in Walk exists: it takes a sequence to the *)
(* one that goes on from it as far as the walk goes, if there is one.        *)

\* The walk stops at the k-th node of c.
StopsAt(nxt, c, k) == nxt[c[k]] = NULL \/ \E j \in 1 .. k : nxt[c[k]] = c[j]

\* The walk goes on from met to the end of c.
Completes(nxt, met, c) ==
    /\ c \in Seq(DOMAIN nxt) \ {<<>>}
    /\ Len(met) <= Len(c) /\ \A k \in 1 .. Len(met) : c[k] = met[k]
    /\ \A k \in Len(met) .. Len(c) - 1 : ~StopsAt(nxt, c, k) /\ c[k + 1] = nxt[c[k]]
    /\ StopsAt(nxt, c, Len(c))

LEMMA CompletionUnique ==
  ASSUME NEW nxt, NEW met \in Seq(DOMAIN nxt) \ {<<>>}, NEW c, NEW d,
         Completes(nxt, met, c), Completes(nxt, met, d)
  PROVE  c = d
<1>1. /\ c \in Seq(DOMAIN nxt) /\ d \in Seq(DOMAIN nxt)
      /\ Len(c) \in Nat /\ Len(d) \in Nat /\ Len(met) \in Nat /\ Len(met) > 0
      /\ Len(met) <= Len(c) /\ Len(met) <= Len(d)
  BY LenProperties, EmptySeq DEF Completes
<1> DEFINE D == {k \in Nat : k >= 1 /\ k <= Len(c) /\ k <= Len(d) /\ c[k] # d[k]}
<1>2. D = {}
  <2> SUFFICES ASSUME D # {} PROVE FALSE
    OBVIOUS
  <2>1. PICK k \in D : \A j \in D : k <= j
    <3>1. D \in SUBSET Nat
      OBVIOUS
    <3> HIDE DEF D
    <3> QED BY <3>1, LeastNat
  <2>2. k \in Nat /\ k >= 1 /\ k <= Len(c) /\ k <= Len(d) /\ c[k] # d[k]
    OBVIOUS
  <2>3. k > Len(met)
    <3> SUFFICES ASSUME k <= Len(met) PROVE FALSE
      BY <1>1, <2>2
    <3>1. k \in 1 .. Len(met)
      BY <1>1, <2>2
    <3> QED BY <2>2, <3>1 DEF Completes
  <2>4. k - 1 \in Len(met) .. Len(c) - 1 /\ k - 1 \in Len(met) .. Len(d) - 1
        /\ (k - 1) + 1 = k /\ ~(k <= k - 1)
    BY <1>1, <2>2, <2>3
  <2>5. c[k] = nxt[c[k - 1]] /\ d[k] = nxt[d[k - 1]]
    BY <2>4 DEF Completes
  <2>6. k - 1 \notin D
    BY <2>1, <2>4
  <2>7. c[k - 1] = d[k - 1]
    BY <1>1, <2>2, <2>3, <2>6
  <2> QED BY <2>2, <2>5, <2>7
<1>3. ASSUME NEW k \in Nat, k >= 1, k <= Len(c), k <= Len(d) PROVE c[k] = d[k]
  BY <1>2, <1>3
<1> HIDE DEF D
<1>4. ~(Len(c) < Len(d))
  <2> SUFFICES ASSUME Len(c) < Len(d) PROVE FALSE
    OBVIOUS
  <2>1. Len(c) \in Len(met) .. Len(d) - 1
    BY <1>1
  <2>2. ~StopsAt(nxt, d, Len(c)) /\ StopsAt(nxt, c, Len(c))
    BY <2>1 DEF Completes
  <2>3. \A j \in 1 .. Len(c) : c[j] = d[j]
    BY <1>1, <1>3
  <2>4. c[Len(c)] = d[Len(c)]
    BY <1>1, <2>3
  <2> QED BY <2>2, <2>3, <2>4 DEF StopsAt
<1>5. ~(Len(d) < Len(c))
  <2> SUFFICES ASSUME Len(d) < Len(c) PROVE FALSE
    OBVIOUS
  <2>1. Len(d) \in Len(met) .. Len(c) - 1
    BY <1>1
  <2>2. ~StopsAt(nxt, c, Len(d)) /\ StopsAt(nxt, d, Len(d))
    BY <2>1 DEF Completes
  <2>3. \A j \in 1 .. Len(d) : c[j] = d[j]
    BY <1>1, <1>3
  <2>4. c[Len(d)] = d[Len(d)]
    BY <1>1, <2>3
  <2> QED BY <2>2, <2>3, <2>4 DEF StopsAt
<1>6. Len(c) = Len(d)
  BY <1>1, <1>4, <1>5
<1>7. \A k \in 1 .. Len(c) : c[k] = d[k]
  BY <1>1, <1>3, <1>6
<1> QED BY <1>1, <1>6, <1>7, SeqEqual

LEMMA LastOf ==
  ASSUME NEW S, NEW s \in Seq(S), s # <<>>
  PROVE  /\ Len(s) \in Nat /\ Len(s) >= 1
         /\ Last(s) = s[Len(s)] /\ Last(s) \in S
         /\ \A k \in 1 .. Len(s) : s[k] \in S
         /\ Range(s) = {s[k] : k \in 1 .. Len(s)}
BY LenProperties, EmptySeq, ElementOfSeq DEF Last, Range

LEMMA AppendOne ==
  ASSUME NEW S, NEW s \in Seq(S), NEW t \in S
  PROVE  /\ Append(s, t) \in Seq(S) \ {<<>>}
         /\ Len(Append(s, t)) = Len(s) + 1
         /\ \A k \in 1 .. Len(s) : Append(s, t)[k] = s[k]
         /\ Append(s, t)[Len(s) + 1] = t
BY AppendProperties, LenProperties

\* A walk that does not stop at the end of met goes on by a node.
LEMMA CompletionGoesOn ==
  ASSUME NEW nxt, NEW met \in Seq(DOMAIN nxt) \ {<<>>},
         ~StopsAt(nxt, met, Len(met)), NEW t \in DOMAIN nxt, t = nxt[Last(met)], NEW c
  PROVE  Completes(nxt, met, c) <=> Completes(nxt, Append(met, t), c)
<1> DEFINE more == Append(met, t)
<1>1. /\ met \in Seq(DOMAIN nxt) /\ Len(met) \in Nat /\ Len(met) >= 1
      /\ Last(met) = met[Len(met)]
  BY LastOf
<1>2. /\ Len(more) = Len(met) + 1 /\ more[Len(met) + 1] = t
      /\ \A k \in 1 .. Len(met) : more[k] = met[k]
  BY <1>1, AppendOne
<1> HIDE DEF more
<1>3. ASSUME Completes(nxt, met, c) PROVE Completes(nxt, more, c)
  <2>1. /\ c \in Seq(DOMAIN nxt) \ {<<>>} /\ Len(c) \in Nat
        /\ Len(met) <= Len(c) /\ \A k \in 1 .. Len(met) : c[k] = met[k]
        /\ StopsAt(nxt, c, Len(c))
    BY <1>3, LenProperties DEF Completes
  <2>2. Len(c) # Len(met)
    <3> SUFFICES ASSUME Len(c) = Len(met) PROVE FALSE
      OBVIOUS
    <3>1. c[Len(c)] = met[Len(met)]
      BY <1>1, <2>1
    <3> QED BY <1>1, <2>1, <3>1 DEF StopsAt
  <2>3. Len(met) \in Len(met) .. Len(c) - 1
    BY <1>1, <2>1, <2>2
  <2>4. c[Len(met) + 1] = nxt[c[Len(met)]]
    BY <1>3, <2>3 DEF Completes
  <2>5. c[Len(met)] = met[Len(met)]
    BY <1>1, <2>1
  <2>6. \A k \in 1 .. Len(more) : c[k] = more[k]
    BY <1>1, <1>2, <2>1, <2>4, <2>5
  <2>7. \A k \in Len(more) .. Len(c) - 1 : ~StopsAt(nxt, c, k) /\ c[k + 1] = nxt[c[k]]
    <3> SUFFICES ASSUME NEW k \in Len(more) .. Len(c) - 1
                 PROVE  ~StopsAt(nxt, c, k) /\ c[k + 1] = nxt[c[k]]
      OBVIOUS
    <3>1. k \in Len(met) .. Len(c) - 1
      BY <1>1, <1>2, <2>1
    <3> QED BY <1>3, <3>1 DEF Completes
  <2>8. Len(more) <= Len(c)
    BY <1>1, <1>2, <2>1, <2>2
  <2> QED BY <2>1, <2>6, <2>7, <2>8 DEF Completes
<1>4. ASSUME Completes(nxt, more, c) PROVE Completes(nxt, met, c)
  <2>1. /\ c \in Seq(DOMAIN nxt) \ {<<>>} /\ Len(c) \in Nat
        /\ Len(more) <= Len(c) /\ \A k \in 1 .. Len(more) : c[k] = more[k]
        /\ StopsAt(nxt, c, Len(c))
    BY <1>4, LenProperties DEF Completes
  <2>2. \A k \in 1 .. Len(met) : c[k] = met[k]
    BY <1>1, <1>2, <2>1
  <2>3. c[Len(met) + 1] = t
    BY <1>1, <1>2, <2>1
  <2>4. c[Len(met)] = met[Len(met)]
    BY <1>1, <2>2
  <2>5. ~StopsAt(nxt, c, Len(met)) /\ c[Len(met) + 1] = nxt[c[Len(met)]]
    BY <1>1, <2>2, <2>3, <2>4 DEF StopsAt
  <2>6. ASSUME NEW k \in Len(met) .. Len(c) - 1
        PROVE  ~StopsAt(nxt, c, k) /\ c[k + 1] = nxt[c[k]]
    <3>1. CASE k = Len(met)
      BY <2>5, <3>1
    <3>2. CASE k # Len(met)
      <4>1. k \in Len(more) .. Len(c) - 1
        BY <1>1, <1>2, <2>1, <3>2
      <4> QED BY <1>4, <4>1 DEF Completes
    <3> QED BY <3>1, <3>2
  <2>7. Len(met) <= Len(c)
    BY <1>1, <1>2, <2>1
  <2> QED BY <2>1, <2>2, <2>6, <2>7 DEF Completes
<1> QED BY <1>3, <1>4 DEF more

Completed(nxt, met) ==
    IF \E c : Completes(nxt, met, c) THEN CHOOSE c : Completes(nxt, met, c) ELSE <<>>

LEMMA CompletedIs ==
  ASSUME NEW nxt, NEW met \in Seq(DOMAIN nxt) \ {<<>>}, NEW c, Completes(nxt, met, c)
  PROVE  Completed(nxt, met) = c
<1>1. Completes(nxt, met, Completed(nxt, met))
  BY DEF Completed
<1> QED BY <1>1, CompletionUnique

LEMMA CompletedEquation ==
  ASSUME NEW nxt, \A n \in DOMAIN nxt : nxt[n] \in DOMAIN nxt \cup {NULL},
         NEW met \in Seq(DOMAIN nxt) \ {<<>>}
  PROVE  Completed(nxt, met) =
             IF nxt[Last(met)] \in {NULL} \cup Range(met) THEN met
             ELSE Completed(nxt, Append(met, nxt[Last(met)]))
<1>1. /\ met \in Seq(DOMAIN nxt) /\ Len(met) \in Nat /\ Len(met) >= 1
      /\ Last(met) = met[Len(met)] /\ Last(met) \in DOMAIN nxt
      /\ Range(met) = {met[k] : k \in 1 .. Len(met)}
  BY LastOf
<1>2. StopsAt(nxt, met, Len(met)) <=> nxt[Last(met)] \in {NULL} \cup Range(met)
  BY <1>1 DEF StopsAt
<1>3. CASE nxt[Last(met)] \in {NULL} \cup Range(met)
  <2>1. Completes(nxt, met, met)
    BY <1>1, <1>2, <1>3 DEF Completes
  <2> QED BY <1>3, <2>1, CompletedIs
<1>4. CASE nxt[Last(met)] \notin {NULL} \cup Range(met)
  <2> DEFINE t == nxt[Last(met)]
             more == Append(met, t)
  <2>1. t \in DOMAIN nxt
    BY <1>1, <1>4
  <2>2. ~StopsAt(nxt, met, Len(met))
    BY <1>2, <1>4
  <2>3. \A c : Completes(nxt, met, c) <=> Completes(nxt, more, c)
    BY <2>1, <2>2, CompletionGoesOn
  <2>4. more \in Seq(DOMAIN nxt) \ {<<>>}
    BY <1>1, <2>1, AppendOne
  <2> HIDE DEF more
  <2>5. CASE \E c : Completes(nxt, met, c)
    <3>1. PICK c : Completes(nxt, met, c)
      BY <2>5
    <3>2. Completes(nxt, more, c)
      BY <2>3, <3>1
    <3>3. Completed(nxt, met) = c
      BY <3>1, CompletedIs
    <3>4. Completed(nxt, more) = c
      BY <2>4, <3>2, CompletedIs
    <3> QED BY <1>4, <3>3, <3>4 DEF more
  <2>6. CASE ~\E c : Completes(nxt, met, c)
    <3>1. ~\E c : Completes(nxt, more, c)
      BY <2>3, <2>6
    <3>2. Completed(nxt, met) = <<>> /\ Completed(nxt, more) = <<>>
      BY <2>6, <3>1 DEF Completed
    <3> QED BY <1>4, <3>2 DEF more
  <2> QED BY <2>5, <2>6
<1> QED BY <1>3, <1>4

\* s is what a walk along nxt meets, and goes on to nothing new.
Strung(nxt, s) ==
    /\ s \in Seq(DOMAIN nxt) \ {<<>>} /\ IsInjective(s)
    /\ \A k \in 1 .. Len(s) - 1 : nxt[s[k]] = s[k + 1]
    /\ nxt[s[Len(s)]] \in {NULL} \cup Range(s)

LEMMA WalkStrung ==
  ASSUME NEW nxt, NULL \notin DOMAIN nxt,
         \A n \in DOMAIN nxt : nxt[n] \in DOMAIN nxt \cup {NULL},
         NEW s, Strung(nxt, s)
  PROVE  Walk(nxt, s[1]) = s
<1> DEFINE D == Seq(DOMAIN nxt) \ {<<>>}
           From(f, met) == IF nxt[Last(met)] \in {NULL} \cup Range(met) THEN met
                           ELSE f[Append(met, nxt[Last(met)])]
           Eq(f) == f = [met \in D |-> From(f, met)]
           g == [met \in D |-> Completed(nxt, met)]
<1>1. Eq(g)
  <2>1. ASSUME NEW met \in D PROVE Completed(nxt, met) = From(g, met)
    <3>1. CASE nxt[Last(met)] \in {NULL} \cup Range(met)
      BY <3>1, CompletedEquation
    <3>2. CASE nxt[Last(met)] \notin {NULL} \cup Range(met)
      <4>1. nxt[Last(met)] \in DOMAIN nxt
        BY <3>2, LastOf
      <4>2. Append(met, nxt[Last(met)]) \in D
        BY <4>1, AppendOne
      <4>3. g[Append(met, nxt[Last(met)])] = Completed(nxt, Append(met, nxt[Last(met)]))
        BY <4>2
      <4> QED BY <3>2, <4>3, CompletedEquation
    <3> QED BY <3>1, <3>2
  <2> HIDE DEF From, D
  <2>2. g = [met \in D |-> Completed(nxt, met)]
    OBVIOUS
  <2> HIDE DEF g
  <2>3. [met \in D |-> Completed(nxt, met)] = [met \in D |-> From(g, met)]
    BY <2>1
  <2> QED BY <2>2, <2>3
<1> DEFINE f == CHOOSE f : Eq(f)
<1>2. Eq(f)
  <2> HIDE DEF Eq
  <2> QED BY <1>1
<1>3. s \in D /\ Len(s) \in Nat /\ Len(s) >= 1 /\ s[1] \in DOMAIN nxt
      /\ \A k \in 1 .. Len(s) : s[k] \in DOMAIN nxt
  BY LastOf DEF Strung
<1>4. Walk(nxt, s[1]) = f[<<s[1]>>]
  <2>1. s[1] # NULL
    BY <1>3
  <2> QED BY <2>1 DEF Walk
<1> HIDE DEF f
<1>5. \A met \in D : f[met] = From(f, met)
  BY <1>2
<1> HIDE DEF Eq, g
<1> DEFINE p(k) == SubSeq(s, 1, k)
<1>6. ASSUME NEW k \in 1 .. Len(s)
      PROVE  p(k) \in D /\ Len(p(k)) = k /\ Last(p(k)) = s[k]
             /\ Range(p(k)) = {s[j] : j \in 1 .. k}
             /\ \A j \in 1 .. k : p(k)[j] = s[j]
  <2>1. k \in Nat /\ 1 <= k /\ k <= Len(s)
    BY <1>3
  <2>2. p(k) \in Seq(DOMAIN nxt) /\ Len(p(k)) = k /\ \A j \in 1 .. k : p(k)[j] = s[j]
    BY <1>3, <2>1
  <2>3. p(k) # <<>>
    BY <2>1, <2>2, EmptySeq
  <2>4. Last(p(k)) = p(k)[Len(p(k))] /\ Range(p(k)) = {p(k)[j] : j \in 1 .. Len(p(k))}
    BY <2>2, <2>3, LastOf
  <2>5. p(k)[k] = s[k] /\ {p(k)[j] : j \in 1 .. k} = {s[j] : j \in 1 .. k}
    BY <2>1, <2>2
  <2> HIDE DEF p
  <2> QED BY <2>2, <2>3, <2>4, <2>5
<1>7. ASSUME NEW k \in 1 .. Len(s) - 1
      PROVE  f[p(k)] = f[p(k + 1)]
  <2>1. k \in 1 .. Len(s) /\ k + 1 \in 1 .. Len(s) /\ k \in Nat
    BY <1>3
  <2>2. nxt[s[k]] = s[k + 1] /\ s[k + 1] \in DOMAIN nxt /\ s[k + 1] # NULL
    BY <1>3, <2>1 DEF Strung
  <2>3. s[k + 1] \notin {s[j] : j \in 1 .. k}
    BY <1>3, <2>1 DEF Strung, IsInjective
  <2>4. p(k + 1) = Append(p(k), s[k + 1])
    <3>1. /\ p(k + 1) \in Seq(DOMAIN nxt) /\ Len(p(k + 1)) = k + 1
          /\ \A j \in 1 .. k + 1 : p(k + 1)[j] = s[j]
      BY <1>6, <2>1
    <3>2. /\ p(k) \in Seq(DOMAIN nxt) /\ Len(p(k)) = k
          /\ \A j \in 1 .. k : p(k)[j] = s[j]
      BY <1>6, <2>1
    <3> HIDE DEF p
    <3>3. /\ Append(p(k), s[k + 1]) \in Seq(DOMAIN nxt)
          /\ Len(Append(p(k), s[k + 1])) = k + 1
          /\ \A j \in 1 .. k : Append(p(k), s[k + 1])[j] = p(k)[j]
          /\ Append(p(k), s[k + 1])[k + 1] = s[k + 1]
      BY <2>2, <3>2, AppendOne
    <3>4. \A j \in 1 .. k + 1 : p(k + 1)[j] = Append(p(k), s[k + 1])[j]
      BY <2>1, <3>1, <3>2, <3>3
    <3> QED BY <3>1, <3>3, <3>4, SeqEqual
  <2>5. p(k) \in D /\ Last(p(k)) = s[k] /\ Range(p(k)) = {s[j] : j \in 1 .. k}
    BY <1>6, <2>1
  <2> HIDE DEF p
  <2>6. f[p(k)] = f[Append(p(k), nxt[s[k]])]
    BY <1>5, <2>2, <2>3, <2>5
  <2> QED BY <2>2, <2>4, <2>6
<1>8. f[p(Len(s))] = s
  <2>1. p(Len(s)) = s
    BY <1>3
  <2>2. Last(s) = s[Len(s)]
    BY <1>3, LastOf
  <2> HIDE DEF p
  <2>3. nxt[Last(s)] \in {NULL} \cup Range(s)
    BY <2>2 DEF Strung
  <2> QED BY <1>3, <1>5, <2>1, <2>3
<1> HIDE DEF p
<1> DEFINE Wrong == {n \in Nat : n < Len(s) /\ f[p(Len(s) - n)] # s}
<1>9. Wrong = {}
  <2> SUFFICES ASSUME Wrong # {} PROVE FALSE
    OBVIOUS
  <2>1. PICK n \in Wrong : \A j \in Wrong : n <= j
    <3>1. Wrong \in SUBSET Nat
      OBVIOUS
    <3> HIDE DEF Wrong
    <3> QED BY <3>1, LeastNat
  <2>2. n \in Nat /\ n < Len(s) /\ f[p(Len(s) - n)] # s
    OBVIOUS
  <2>3. n # 0
    BY <1>3, <1>8, <2>2
  <2>4. n - 1 \in Nat /\ n - 1 < Len(s) /\ ~(n <= n - 1)
    BY <1>3, <2>2, <2>3
  <2>5. f[p(Len(s) - (n - 1))] = s
    BY <2>1, <2>4
  <2>6. Len(s) - n \in 1 .. Len(s) - 1 /\ (Len(s) - n) + 1 = Len(s) - (n - 1)
    BY <1>3, <2>2, <2>3
  <2> QED BY <1>7, <2>2, <2>5, <2>6
<1>10. f[p(1)] = s
  <2>1. Len(s) - 1 \in Nat /\ Len(s) - 1 < Len(s) /\ Len(s) - (Len(s) - 1) = 1
    BY <1>3
  <2>2. Len(s) - 1 \notin Wrong
    BY <1>9
  <2> QED BY <2>1, <2>2
<1>11. p(1) = <<s[1]>>
  <2>1. 1 \in 1 .. Len(s)
    BY <1>3
  <2>2. p(1) \in D /\ Len(p(1)) = 1 /\ \A j \in 1 .. 1 : p(1)[j] = s[j]
    BY <1>6, <2>1
  <2>3. /\ <<s[1]>> \in Seq(DOMAIN nxt) /\ Len(<<s[1]>>) = 1
        /\ \A k \in 1 .. 1 : <<s[1]>>[k] = s[k]
    BY <1>3
  <2> QED BY <2>2, <2>3, SeqEqual
<1> QED BY <1>4, <1>10, <1>11

-----------------------------------------------------------------------------
(* Chains, and what assignments to their next fields make of them.           *)

\* s is the chain from start along nxt, to NULL or closed on its last node.
IsChain(nxt, start, s, looped) ==
    /\ s = <<>> => start = NULL /\ ~looped
    /\ s # <<>> => start = s[1]
    /\ \A k \in 1 .. Len(s) - 1 : nxt[s[k]] = s[k + 1]
    /\ s # <<>> => nxt[s[Len(s)]] = IF looped THEN s[Len(s)] ELSE NULL

Links(N) == [N -> N \cup {NULL}]

\* A walk meets the nodes of a chain.
LEMMA ChainWalk ==
  ASSUME NEW N, NULL \notin N, NEW nxt \in Links(N), NEW s \in Seq(N), IsInjective(s),
         NEW start, NEW looped \in BOOLEAN, IsChain(nxt, start, s, looped)
  PROVE  /\ Walk(nxt, start) = s
         /\ Endless(nxt, start) = looped
         /\ s # <<>> => TailOf(nxt, start) = s[Len(s)]
<1>1. CASE s = <<>>
  BY <1>1 DEF IsChain, Walk, Endless
<1>2. CASE s # <<>>
  <2>1. /\ Len(s) \in Nat /\ Len(s) >= 1 /\ Last(s) = s[Len(s)] /\ s[1] \in N
        /\ Range(s) = {s[k] : k \in 1 .. Len(s)} /\ s[Len(s)] \in N
    BY <1>2, LastOf
  <2>2. DOMAIN nxt = N /\ \A n \in DOMAIN nxt : nxt[n] \in DOMAIN nxt \cup {NULL}
    BY DEF Links
  <2>3. s[Len(s)] \in Range(s)
    BY <2>1
  <2>4. Strung(nxt, s)
    BY <1>2, <2>2, <2>3 DEF Strung, IsChain
  <2>5. Walk(nxt, s[1]) = s
    BY <2>2, <2>4, WalkStrung
  <2>6. Walk(nxt, start) = s /\ TailOf(nxt, start) = s[Len(s)]
    BY <1>2, <2>1, <2>5 DEF IsChain, TailOf
  <2>7. start # NULL /\ s[Len(s)] # NULL
    BY <1>2, <2>1 DEF IsChain
  <2>8. CASE looped = TRUE
    BY <1>2, <2>6, <2>7, <2>8 DEF IsChain, Endless
  <2>9. CASE looped = FALSE
    BY <1>2, <2>6, <2>7, <2>9 DEF IsChain, Endless
  <2> QED BY <2>6, <2>8, <2>9
<1> QED BY <1>1, <1>2

\* Assignments to other nodes leave a chain as it is.
LEMMA ChainSame ==
  ASSUME NEW N, NEW s \in Seq(N), NEW nxt, NEW start, NEW looped, NEW nxt2,
         IsChain(nxt, start, s, looped), \A n \in Range(s) : nxt2[n] = nxt[n]
  PROVE  IsChain(nxt2, start, s, looped)
<1>1. CASE s = <<>>
  BY <1>1 DEF IsChain
<1>2. CASE s # <<>>
  <2>1. Len(s) \in Nat /\ Len(s) >= 1 /\ Range(s) = {s[k] : k \in 1 .. Len(s)}
    BY <1>2, LastOf
  <2>2. \A k \in 1 .. Len(s) : nxt2[s[k]] = nxt[s[k]]
    BY <2>1
  <2> QED BY <1>2, <2>1, <2>2 DEF IsChain
<1> QED BY <1>1, <1>2

\* tail->next = t, or head = t
LEMMA ChainAppend ==
  ASSUME NEW N, NEW nxt \in Links(N), NEW s \in Seq(N), IsInjective(s), NEW start,
         IsChain(nxt, start, s, FALSE), NEW t \in N \ Range(s), nxt[t] = NULL
  PROVE  IF s = <<>> THEN IsChain(nxt, t, Append(s, t), FALSE)
         ELSE IsChain([nxt EXCEPT ![s[Len(s)]] = t], start, Append(s, t), FALSE)
<1>1. CASE s = <<>>
  <2>1. Append(s, t) = <<t>> /\ Len(<<t>>) = 1 /\ <<t>>[1] = t /\ <<t>> # <<>>
    BY <1>1
  <2>2. \A k \in 1 .. 1 - 1 : nxt[<<t>>[k]] = <<t>>[k + 1]
    OBVIOUS
  <2> QED BY <1>1, <2>1, <2>2 DEF IsChain
<1>2. CASE s # <<>>
  <2> DEFINE r == Append(s, t)
             n == [nxt EXCEPT ![s[Len(s)]] = t]
  <2>1. /\ Len(s) \in Nat /\ Len(s) >= 1 /\ Range(s) = {s[k] : k \in 1 .. Len(s)}
        /\ \A k \in 1 .. Len(s) : s[k] \in N
    BY <1>2, LastOf
  <2>2. /\ r # <<>> /\ Len(r) = Len(s) + 1 /\ r[Len(s) + 1] = t
        /\ \A k \in 1 .. Len(s) : r[k] = s[k]
    BY AppendOne
  <2> HIDE DEF r
  <2>3. \A k \in 1 .. Len(s) - 1 : s[k] # s[Len(s)]
    BY <2>1 DEF IsInjective
  <2>4. t # s[Len(s)]
    BY <2>1
  <2>5. /\ n[s[Len(s)]] = t /\ n[t] = NULL
        /\ \A k \in 1 .. Len(s) - 1 : n[s[k]] = nxt[s[k]]
    BY <2>1, <2>3, <2>4 DEF Links
  <2> HIDE DEF n
  <2>6. ASSUME NEW k \in 1 .. Len(r) - 1 PROVE n[r[k]] = r[k + 1]
    <3>1. CASE k = Len(s)
      <4>1. r[k] = s[Len(s)] /\ r[k + 1] = t
        BY <2>1, <2>2, <3>1
      <4> QED BY <2>5, <4>1
    <3>2. CASE k # Len(s)
      <4>1. k \in 1 .. Len(s) - 1 /\ k + 1 \in 1 .. Len(s) /\ k \in 1 .. Len(s)
        BY <2>1, <2>2, <3>2
      <4>2. r[k] = s[k] /\ r[k + 1] = s[k + 1]
        BY <2>2, <4>1
      <4> QED BY <2>5, <4>1, <4>2 DEF IsChain
    <3> QED BY <3>1, <3>2
  <2>7. start = r[1]
    BY <1>2, <2>1, <2>2 DEF IsChain
  <2>8. n[r[Len(r)]] = NULL
    BY <2>2, <2>5
  <2>9. IsChain(n, start, r, FALSE)
    BY <2>2, <2>6, <2>7, <2>8 DEF IsChain
  <2> QED BY <1>2, <2>9 DEF n, r
<1> QED BY <1>1, <1>2

\* head = head->next
LEMMA ChainTail ==
  ASSUME NEW N, NEW nxt \in Links(N), NEW s \in Seq(N), IsInjective(s), s # <<>>,
         NEW start, IsChain(nxt, start, s, FALSE)
  PROVE  IsChain([nxt EXCEPT ![start] = NULL], nxt[start], Tail(s), FALSE)
<1> DEFINE r == Tail(s)
           n == [nxt EXCEPT ![start] = NULL]
<1>1. /\ Len(s) \in Nat /\ Len(s) >= 1 /\ \A k \in 1 .. Len(s) : s[k] \in N
      /\ start = s[1]
  BY LastOf DEF IsChain
<1>2. /\ r \in Seq(N) /\ Len(r) = Len(s) - 1
      /\ \A k \in 1 .. Len(s) - 1 : r[k] = s[k + 1]
  BY <1>1, HeadTailProperties
<1>3. r = <<>> <=> Len(s) = 1
  BY <1>1, <1>2, EmptySeq
<1> HIDE DEF r
<1>4. \A k \in 2 .. Len(s) : n[s[k]] = nxt[s[k]]
  <2> SUFFICES ASSUME NEW k \in 2 .. Len(s) PROVE n[s[k]] = nxt[s[k]]
    OBVIOUS
  <2>1. s[k] # s[1] /\ s[k] \in N
    BY <1>1 DEF IsInjective
  <2> QED BY <1>1, <2>1 DEF Links
<1> HIDE DEF n
<1>5. CASE Len(s) = 1
  <2>1. nxt[start] = NULL
    BY <1>1, <1>5 DEF IsChain
  <2>2. r = <<>>
    BY <1>3, <1>5
  <2> QED BY <2>1, <2>2 DEF IsChain, r
<1>6. CASE Len(s) # 1
  <2>1. r # <<>> /\ r[1] = s[2] /\ nxt[start] = s[2]
    BY <1>1, <1>2, <1>3, <1>6 DEF IsChain
  <2>2. ASSUME NEW k \in 1 .. Len(r) - 1 PROVE n[r[k]] = r[k + 1]
    <3>1. /\ k + 1 \in 2 .. Len(s) /\ k + 1 \in 1 .. Len(s) - 1
          /\ k \in 1 .. Len(s) - 1 /\ k + 1 \in 1 .. Len(s) - 1
      BY <1>1, <1>2
    <3>2. r[k] = s[k + 1] /\ r[k + 1] = s[(k + 1) + 1]
      BY <1>2, <3>1
    <3>3. nxt[s[k + 1]] = s[(k + 1) + 1]
      BY <3>1 DEF IsChain
    <3> QED BY <1>4, <3>1, <3>2, <3>3
  <2>3. n[r[Len(r)]] = NULL
    <3>1. Len(s) - 1 \in 1 .. Len(s) - 1 /\ (Len(s) - 1) + 1 = Len(s) /\ Len(s) \in 2 .. Len(s)
      BY <1>1, <1>6
    <3>2. r[Len(r)] = s[Len(s)]
      BY <1>2, <3>1
    <3>3. nxt[s[Len(s)]] = NULL
      BY DEF IsChain
    <3> QED BY <1>4, <3>1, <3>2, <3>3
  <2>4. IsChain(n, nxt[start], r, FALSE)
    BY <2>1, <2>2, <2>3 DEF IsChain
  <2> QED BY <2>4 DEF n, r
<1> QED BY <1>5, <1>6

\* before->next = t->next
LEMMA ChainRemove ==
  ASSUME NEW N, NEW nxt \in Links(N), NEW s \in Seq(N), IsInjective(s), NEW start,
         IsChain(nxt, start, s, FALSE), NEW p \in 2 .. Len(s)
  PROVE  IsChain([nxt EXCEPT ![s[p - 1]] = nxt[s[p]]], start, RemoveAt(s, p), FALSE)
<1> DEFINE a == SubSeq(s, 1, p - 1)
           b == SubSeq(s, p + 1, Len(s))
           r == a \o b
           n == [nxt EXCEPT ![s[p - 1]] = nxt[s[p]]]
<1>1. s # <<>>
  <2>1. Len(s) # 0
    BY LenProperties
  <2> QED BY <2>1, EmptySeq
<1>2. /\ Len(s) \in Nat /\ Len(s) >= 2 /\ \A k \in 1 .. Len(s) : s[k] \in N
      /\ p \in Nat /\ 2 <= p /\ p <= Len(s) /\ start = s[1]
  BY <1>1, LastOf DEF IsChain
<1>3. a \in Seq(N) /\ Len(a) = p - 1 /\ \A k \in 1 .. p - 1 : a[k] = s[k]
  BY <1>2
<1>4. b \in Seq(N) /\ Len(b) = Len(s) - p /\ \A k \in 1 .. Len(s) - p : b[k] = s[p + k]
  <2>1. /\ b \in Seq(N)
        /\ Len(b) = IF p + 1 <= Len(s) THEN Len(s) - (p + 1) + 1 ELSE 0
        /\ \A k \in 1 .. (Len(s) - (p + 1) + 1) : b[k] = s[(p + 1) + k - 1]
    <3>1. p + 1 \in 1 .. (Len(s) + 1)
      BY <1>2
    <3> QED BY <1>2, <3>1, SubSeqProperties
  <2> HIDE DEF b
  <2>2. Len(b) = Len(s) - p
    <3>1. CASE p = Len(s)
      BY <1>2, <2>1, <3>1
    <3>2. CASE p < Len(s)
      <4>1. p + 1 <= Len(s) /\ Len(s) - (p + 1) + 1 = Len(s) - p
        BY <1>2, <3>2
      <4> QED BY <2>1, <4>1
    <3> QED BY <1>2, <3>1, <3>2
  <2>3. ASSUME NEW k \in 1 .. Len(s) - p PROVE b[k] = s[p + k]
    <3>1. (p + 1) + k - 1 = p + k /\ k \in 1 .. (Len(s) - (p + 1) + 1)
      BY <1>2
    <3> QED BY <2>1, <3>1
  <2> QED BY <2>1, <2>2, <2>3
<1> HIDE DEF a, b
<1>5. /\ r \in Seq(N) /\ Len(r) = Len(s) - 1
      /\ \A k \in 1 .. Len(s) - 1 : r[k] = IF k < p THEN s[k] ELSE s[k + 1]
  <2>1. /\ r \in Seq(N) /\ Len(r) = Len(a) + Len(b)
        /\ \A k \in 1 .. Len(r) : r[k] = IF k <= Len(a) THEN a[k] ELSE b[k - Len(a)]
    <3>1. a \in Seq(N) /\ b \in Seq(N)
      BY <1>3, <1>4
    <3> QED BY <3>1, ConcatProperties
  <2> HIDE DEF r
  <2>2. Len(r) = Len(s) - 1
    BY <1>2, <1>3, <1>4, <2>1
  <2>3. ASSUME NEW k \in 1 .. Len(s) - 1 PROVE r[k] = IF k < p THEN s[k] ELSE s[k + 1]
    <3>1. CASE k < p
      <4>1. k <= Len(a) /\ k \in 1 .. p - 1 /\ k \in 1 .. Len(r)
        BY <1>2, <1>3, <2>2, <3>1
      <4> QED BY <1>3, <2>1, <3>1, <4>1
    <3>2. CASE ~(k < p)
      <4>1. /\ k - (p - 1) \in 1 .. Len(s) - p /\ p + (k - (p - 1)) = k + 1
            /\ ~(k <= Len(a)) /\ k \in 1 .. Len(r)
        BY <1>2, <1>3, <2>2, <3>2
      <4>2. r[k] = b[k - (p - 1)]
        BY <1>3, <2>1, <4>1
      <4> QED BY <1>4, <3>2, <4>1, <4>2
    <3> QED BY <3>1, <3>2
  <2> QED BY <2>1, <2>2, <2>3
<1>6. RemoveAt(s, p) = r
  BY DEF RemoveAt, a, b
<1> HIDE DEF r
<1>7. r # <<>> /\ r[1] = s[1]
  <2>1. 1 \in 1 .. Len(s) - 1 /\ 1 < p
    BY <1>2
  <2>2. Len(r) # 0
    BY <1>2, <1>5
  <2> QED BY <1>5, <2>1, <2>2, EmptySeq
<1>8. n[s[p - 1]] = nxt[s[p]] /\ \A k \in 1 .. Len(s) : k # p - 1 => n[s[k]] = nxt[s[k]]
  <2>1. p - 1 \in 1 .. Len(s)
    BY <1>2
  <2>2. \A k \in 1 .. Len(s) : k # p - 1 => s[k] # s[p - 1]
    BY <1>2, <2>1 DEF IsInjective
  <2> QED BY <1>2, <2>1, <2>2 DEF Links
<1> HIDE DEF n
<1>9. ASSUME NEW k \in 1 .. Len(r) - 1 PROVE n[r[k]] = r[k + 1]
  <2>1. /\ k \in 1 .. Len(s) - 1 /\ k + 1 \in 1 .. Len(s) - 1 /\ k \in 1 .. Len(s)
        /\ k \in Nat /\ k + 1 \in 1 .. Len(s)
    BY <1>2, <1>5
  <2>2. CASE k + 1 < p
    <3>1. k < p /\ k # p - 1 /\ k \in 1 .. Len(s) - 1 /\ k + 1 \in 1 .. Len(s) - 1
      BY <1>2, <2>1, <2>2
    <3>2. r[k] = s[k]
      BY <1>5, <3>1
    <3>3. r[k + 1] = s[k + 1]
      BY <1>5, <2>2, <3>1
    <3> QED BY <1>8, <2>1, <3>1, <3>2, <3>3 DEF IsChain
  <2>3. CASE k + 1 = p
    <3>1. k < p /\ ~(k + 1 < p) /\ p \in 1 .. Len(s) - 1 /\ k = p - 1
      BY <1>2, <2>1, <2>3
    <3>2. r[k] = s[p - 1] /\ r[k + 1] = s[p + 1]
      BY <1>5, <2>1, <2>3, <3>1
    <3>3. nxt[s[p]] = s[p + 1]
      BY <3>1 DEF IsChain
    <3> QED BY <1>8, <3>2, <3>3
  <2>4. CASE k + 1 > p
    <3>1. ~(k < p) /\ ~(k + 1 < p) /\ k + 1 # p - 1
      BY <1>2, <2>1, <2>4
    <3>2. r[k] = s[k + 1] /\ r[k + 1] = s[(k + 1) + 1]
      BY <1>5, <2>1, <3>1
    <3>3. nxt[s[k + 1]] = s[(k + 1) + 1]
      BY <2>1 DEF IsChain
    <3> QED BY <1>8, <2>1, <3>1, <3>2, <3>3
  <2> QED BY <1>2, <2>1, <2>2, <2>3, <2>4
<1>10. n[r[Len(r)]] = NULL
  <2>1. /\ Len(s) - 1 \in 1 .. Len(s) - 1 /\ (Len(s) - 1) + 1 = Len(s) /\ Len(s) \in 1 .. Len(s)
    BY <1>2
  <2>2. nxt[s[Len(s)]] = NULL
    BY <1>1 DEF IsChain
  <2>3. CASE p = Len(s)
    <3>1. Len(s) - 1 < p /\ Len(s) - 1 = p - 1
      BY <1>2, <2>3
    <3>2. r[Len(r)] = s[p - 1]
      BY <1>5, <2>1, <3>1
    <3> QED BY <1>8, <2>2, <2>3, <3>2
  <2>4. CASE p < Len(s)
    <3>1. ~(Len(s) - 1 < p) /\ Len(s) # p - 1
      BY <1>2, <2>4
    <3>2. r[Len(r)] = s[Len(s)]
      BY <1>5, <2>1, <3>1
    <3> QED BY <1>8, <2>1, <2>2, <3>1, <3>2
  <2> QED BY <1>2, <2>3, <2>4
<1>11. IsChain(n, start, r, FALSE)
  BY <1>2, <1>7, <1>9, <1>10 DEF IsChain
<1> QED BY <1>6, <1>11 DEF n

Cut(s, p) == SubSeq(s, 1, p)

LEMMA CutOf ==
  ASSUME NEW N, NEW s \in Seq(N), IsInjective(s), NEW p \in 1 .. Len(s)
  PROVE  LET r == Cut(s, p) IN
         /\ r \in Seq(N) /\ IsInjective(r) /\ r # <<>> /\ Range(r) \subseteq Range(s)
         /\ Len(r) = p /\ \A k \in 1 .. p : r[k] = s[k]
         /\ r[p] = s[p]
<1> DEFINE r == Cut(s, p)
<1>1. s # <<>>
  <2>1. Len(s) # 0
    BY LenProperties
  <2> QED BY <2>1, EmptySeq
<1>2. /\ Len(s) \in Nat /\ Len(s) >= 1 /\ \A k \in 1 .. Len(s) : s[k] \in N
      /\ p \in Nat /\ 1 <= p /\ p <= Len(s)
      /\ Range(s) = {s[k] : k \in 1 .. Len(s)}
  BY <1>1, LastOf
<1>3. r \in Seq(N) /\ Len(r) = p /\ \A k \in 1 .. p : r[k] = s[k]
  BY <1>2 DEF Cut
<1> HIDE DEF r
<1>4. r # <<>>
  BY <1>2, <1>3, EmptySeq
<1>5. IsInjective(r) /\ Range(r) \subseteq Range(s)
  <2>1. DOMAIN r = 1 .. p
    BY <1>3, LenProperties
  <2>2. Range(r) = {r[k] : k \in 1 .. p}
    BY <1>3, <1>4, LastOf
  <2> QED BY <1>2, <1>3, <2>1, <2>2 DEF IsInjective
<1>6. r[p] = s[p]
  BY <1>2, <1>3
<1> QED BY <1>3, <1>4, <1>5, <1>6 DEF r

\* x->next = NULL in the middle of a chain, and x->next = x after that.
LEMMA ChainCut ==
  ASSUME NEW N, NEW nxt \in Links(N), NEW s \in Seq(N), IsInjective(s), NEW start,
         NEW looped \in BOOLEAN, IsChain(nxt, start, s, looped), NEW p \in 1 .. Len(s)
  PROVE  LET r == Cut(s, p) IN
         /\ IsChain([nxt EXCEPT ![s[p]] = NULL], start, r, FALSE)
         /\ IsChain([nxt EXCEPT ![s[p]] = s[p]], start, r, TRUE)
<1> DEFINE r == Cut(s, p)
<1>1. s # <<>>
  <2>1. Len(s) # 0
    BY LenProperties
  <2> QED BY <2>1, EmptySeq
<1>2. /\ Len(s) \in Nat /\ Len(s) >= 1 /\ \A k \in 1 .. Len(s) : s[k] \in N
      /\ p \in Nat /\ 1 <= p /\ p <= Len(s) /\ start = s[1]
  BY <1>1, LastOf DEF IsChain
<1>3. r \in Seq(N) /\ Len(r) = p /\ \A k \in 1 .. p : r[k] = s[k]
  BY CutOf
<1>4. r # <<>>
  BY CutOf
<1> HIDE DEF r
<1>6. ASSUME NEW v, NEW n, n = [nxt EXCEPT ![s[p]] = v]
      PROVE  /\ \A k \in 1 .. Len(r) - 1 : n[r[k]] = r[k + 1]
             /\ n[r[Len(r)]] = v
  <2>1. \A k \in 1 .. p - 1 : s[k] # s[p] /\ s[k] \in N
    BY <1>2 DEF IsInjective
  <2>2. s[p] \in N
    BY <1>2
  <2>3. n[s[p]] = v /\ \A k \in 1 .. p - 1 : n[s[k]] = nxt[s[k]]
    BY <1>6, <2>1, <2>2 DEF Links
  <2>4. \A k \in 1 .. p - 1 : nxt[s[k]] = s[k + 1]
    BY <1>2 DEF IsChain
  <2>5. ASSUME NEW k \in 1 .. p - 1 PROVE n[r[k]] = r[k + 1]
    <3>1. k \in 1 .. p /\ k + 1 \in 1 .. p
      BY <1>2
    <3> QED BY <1>3, <2>3, <2>4, <3>1
  <2>6. r[p] = s[p]
    BY <1>2, <1>3
  <2> QED BY <1>3, <2>3, <2>5, <2>6
<1>7. r[1] = start /\ r[p] = s[p]
  BY <1>2, <1>3
<1>8. IsChain([nxt EXCEPT ![s[p]] = NULL], start, r, FALSE)
  <2> DEFINE n == [nxt EXCEPT ![s[p]] = NULL]
  <2>1. (\A k \in 1 .. Len(r) - 1 : n[r[k]] = r[k + 1]) /\ n[r[Len(r)]] = NULL
    BY <1>6
  <2> HIDE DEF n
  <2>2. IsChain(n, start, r, FALSE)
    BY <1>4, <1>7, <2>1 DEF IsChain
  <2> QED BY <2>2 DEF n
<1>9. IsChain([nxt EXCEPT ![s[p]] = s[p]], start, r, TRUE)
  <2> DEFINE n == [nxt EXCEPT ![s[p]] = s[p]]
  <2>1. (\A k \in 1 .. Len(r) - 1 : n[r[k]] = r[k + 1]) /\ n[r[Len(r)]] = s[p]
    BY <1>6
  <2> HIDE DEF n
  <2>2. IsChain(n, start, r, TRUE)
    BY <1>3, <1>4, <1>7, <2>1 DEF IsChain
  <2> QED BY <2>2 DEF n
<1> QED BY <1>8, <1>9 DEF r

-----------------------------------------------------------------------------
(* What is proved of Threads holds of the lists that the pointers make.      *)

TP == INSTANCE ThreadsProofs WITH
    list <- lists, ter <- newestRecords,
    mutexList <- Registry(mutexListHead), condList <- Registry(condListHead)

LEMMA Assumed == TP!ThreadsAssumption
BY ThreadListsAssumption DEF TP!ThreadsAssumption

LEMMA ElemsIs ==
  ASSUME NEW l, NEW h
  PROVE  TP!Elems(l, h) = Range(l[h])
BY DEF TP!Elems, TP!Range, Range

LEMMA InvKept == TP!Inv /\ TP!Next => TP!Inv'
BY Assumed, TP!InvStep

LEMMA SameSteps == T!Next = TP!Next
<1>1. T!thread_create = TP!thread_create
  BY DEF T!thread_create, T!Push, T!registryVars,
    TP!thread_create, TP!Push, TP!registryVars
<1>2. T!thread_yield = TP!thread_yield
  BY DEF T!thread_yield, T!readyQueueLength, T!Move, T!Push, T!Pop, T!threadVars, T!registryVars,
    TP!thread_yield, TP!readyQueueLength, TP!Move, TP!Push, TP!Pop, TP!threadVars, TP!registryVars
<1>3. T!thread_join = TP!thread_join
  BY DEF T!thread_join, T!JoinRefused, T!isThreadAlive, T!thread_self, T!readyQueueLength, T!Move, T!Push, T!Pop, T!registryVars,
    TP!thread_join, TP!JoinRefused, TP!isThreadAlive, TP!thread_self, TP!readyQueueLength, TP!Move, TP!Push, TP!Pop, TP!registryVars
<1>4. T!cleanup = TP!cleanup
  BY DEF T!cleanup, T!thread_self, T!Owns, T!Pop, T!Push, T!wakeupThread, T!Unlink, T!Position, T!RemoveAt, T!Range, T!StillAllocated, T!Elems, T!registryVars,
    TP!cleanup, TP!thread_self, TP!Owns, TP!Pop, TP!Push, TP!wakeupThread, TP!Unlink, TP!Position, TP!RemoveAt, TP!Range, TP!StillAllocated, TP!Elems, TP!registryVars
<1>5. T!MainReturns = TP!MainReturns
  BY DEF T!MainReturns, T!thread_self, T!threadVars, T!registryVars,
    TP!MainReturns, TP!thread_self, TP!threadVars, TP!registryVars
<1>6. T!thread_mutex_init = TP!thread_mutex_init
  BY DEF T!thread_mutex_init, T!MayInit, T!Idle, T!ResetOwner, T!WalkHangs, T!Register, T!Position, T!ToSet, T!threadVars,
    TP!thread_mutex_init, TP!MayInit, TP!Idle, TP!ResetOwner, TP!WalkHangs, TP!Register, TP!Position, TP!ToSet, TP!threadVars
<1>7. T!thread_cond_init = TP!thread_cond_init
  BY DEF T!thread_cond_init, T!MayInit, T!Idle, T!WalkHangs, T!Register, T!Position, T!ToSet, T!threadVars,
    TP!thread_cond_init, TP!MayInit, TP!Idle, TP!WalkHangs, TP!Register, TP!Position, TP!ToSet, TP!threadVars
<1>8. T!thread_mutex_lock = TP!thread_mutex_lock
  BY DEF T!thread_mutex_lock, T!thread_self, T!readyQueueLength, T!Move, T!Push, T!Pop, T!threadVars, T!registryVars,
    TP!thread_mutex_lock, TP!thread_self, TP!readyQueueLength, TP!Move, TP!Push, TP!Pop, TP!threadVars, TP!registryVars
<1>9. T!thread_mutex_unlock = TP!thread_mutex_unlock
  BY DEF T!thread_mutex_unlock, T!thread_self, T!Owns, T!UnlockedList, T!UnlockedOwner, T!Move, T!Push, T!Pop, T!threadVars, T!registryVars,
    TP!thread_mutex_unlock, TP!thread_self, TP!Owns, TP!UnlockedList, TP!UnlockedOwner, TP!Move, TP!Push, TP!Pop, TP!threadVars, TP!registryVars
<1>10. T!thread_cond_wait = TP!thread_cond_wait
  BY DEF T!thread_cond_wait, T!thread_self, T!Owns, T!UnlockedList, T!UnlockedOwner, T!Move, T!Push, T!Pop, T!threadVars, T!registryVars,
    TP!thread_cond_wait, TP!thread_self, TP!Owns, TP!UnlockedList, TP!UnlockedOwner, TP!Move, TP!Push, TP!Pop, TP!threadVars, TP!registryVars
<1>11. T!thread_cond_signal = TP!thread_cond_signal
  BY DEF T!thread_cond_signal, T!Move, T!Push, T!Pop, T!threadVars, T!registryVars,
    TP!thread_cond_signal, TP!Move, TP!Push, TP!Pop, TP!threadVars, TP!registryVars
<1>12. T!Ended = TP!Ended
  BY DEF T!Ended, T!vars,
    TP!Ended, TP!vars
<1> QED BY <1>1, <1>2, <1>3, <1>4, <1>5, <1>6, <1>7, <1>8, <1>9, <1>10, <1>11, <1>12 DEF T!Next, TP!Next

LEMMA SameHeads ==
  /\ TP!ListHead = ListHead
  /\ readyQueue \in ListHead /\ joiningList \in ListHead /\ readyQueue # joiningList
  /\ readyQueue \notin Object /\ joiningList \notin Object /\ Object \subseteq ListHead
  /\ NULL \notin TCB /\ NULL \notin Object /\ Main \in TCB
BY ThreadListsAssumption DEF TP!ListHead, ListHead, Object

LEMMA SameInjective == \A s : TP!IsInjective(s) = IsInjective(s)
BY DEF TP!IsInjective, IsInjective

\* The pointers fst and nxt make the lists l, of which those not in H have not
\* been initialised; threads of A that are on no list lead to none.
Represents(fst, nxt, l, H, A) ==
    /\ fst \in [ListHead -> TCB \cup {NULL}]
    /\ nxt \in Links(TCB)
    /\ l \in TP!Lists /\ TP!OnePlace(l)
    /\ H \subseteq ListHead /\ A \subseteq TCB
    /\ \A h \in H : IsChain(nxt, fst[h], l[h], FALSE)
    /\ \A h \in ListHead \ H : l[h] = <<>>
    /\ \A t \in A : (\A h \in ListHead : t \notin TP!Elems(l, h)) => nxt[t] = NULL

\* A single list: its walk, its head and its tail.
LEMMA OneList ==
  ASSUME NEW fst, NEW nxt, NEW l, NEW H, NEW A, Represents(fst, nxt, l, H, A), NEW h \in H
  PROVE  /\ l[h] \in Seq(TCB) /\ IsInjective(l[h])
         /\ Walk(nxt, fst[h]) = l[h]
         /\ l[h] = <<>> <=> fst[h] = NULL
         /\ l[h] # <<>> => /\ fst[h] = Head(l[h]) /\ fst[h] \in TCB /\ fst[h] = l[h][1]
                           /\ TailOf(nxt, fst[h]) = l[h][Len(l[h])]
                           /\ l[h][Len(l[h])] \in TCB
                           /\ l[h][Len(l[h])] \in TP!Elems(l, h)
                           /\ fst[h] \in TP!Elems(l, h)
<1>1. h \in ListHead /\ nxt \in Links(TCB) /\ IsChain(nxt, fst[h], l[h], FALSE)
  BY DEF Represents
<1>2. l[h] \in Seq(TCB) /\ IsInjective(l[h])
  <2>1. l \in [ListHead -> Seq(TCB)] /\ TP!IsInjective(l[h])
    BY <1>1, SameHeads DEF Represents, TP!Lists, TP!OnePlace
  <2> QED BY <1>1, <2>1, SameInjective
<1>3. NULL \notin TCB /\ FALSE \in BOOLEAN
  BY SameHeads
<1>4. /\ Walk(nxt, fst[h]) = l[h]
      /\ l[h] # <<>> => TailOf(nxt, fst[h]) = l[h][Len(l[h])]
  BY <1>1, <1>2, <1>3, ChainWalk
<1>5. CASE l[h] = <<>>
  BY <1>1, <1>2, <1>4, <1>5 DEF IsChain
<1>6. CASE l[h] # <<>>
  <2>1. /\ Len(l[h]) \in Nat /\ Len(l[h]) >= 1 /\ \A k \in 1 .. Len(l[h]) : l[h][k] \in TCB
        /\ Range(l[h]) = {l[h][k] : k \in 1 .. Len(l[h])}
    BY <1>2, <1>6, LastOf
  <2>2. fst[h] = l[h][1] /\ Head(l[h]) = l[h][1]
    BY <1>1, <1>2, <1>6 DEF IsChain
  <2>3. l[h][1] \in TCB /\ l[h][Len(l[h])] \in TCB
        /\ l[h][1] \in Range(l[h]) /\ l[h][Len(l[h])] \in Range(l[h])
    BY <2>1
  <2> QED BY <1>2, <1>3, <1>4, <1>6, <2>2, <2>3, ElemsIs
<1> QED BY <1>5, <1>6

Active(ini) == {readyQueue, joiningList} \cup (Object \cap ini)

\* What the pointers make is what the refinement mapping takes them for.
LEMMA Mapped ==
  ASSUME NEW fst, NEW nxt, NEW ini, NEW l, NEW A, Represents(fst, nxt, l, Active(ini), A)
  PROVE  l = [h \in ListHead |-> IF h \in Object \ ini THEN <<>> ELSE Walk(nxt, fst[h])]
<1>1. l \in [ListHead -> Seq(TCB)]
  BY SameHeads DEF Represents, TP!Lists
<1>2. ASSUME NEW h \in ListHead
      PROVE  l[h] = IF h \in Object \ ini THEN <<>> ELSE Walk(nxt, fst[h])
  <2>1. CASE h \in Object \ ini
    <3>1. h \in ListHead \ Active(ini)
      BY <2>1, SameHeads DEF Active
    <3> QED BY <2>1, <3>1 DEF Represents
  <2>2. CASE h \notin Object \ ini
    <3>1. h \in Active(ini)
      BY <2>2 DEF Active, ListHead
    <3> QED BY <2>2, <3>1, OneList
  <2> QED BY <2>1, <2>2
<1> QED BY <1>1, <1>2

\* t is pushed.
LEMMA RepresentsPush ==
  ASSUME NEW fst, NEW nxt, NEW l, NEW H, NEW A, Represents(fst, nxt, l, H, A),
         NEW h \in H, NEW t \in TCB, \A g \in ListHead : t \notin TP!Elems(l, g), nxt[t] = NULL
  PROVE  LET a == Appended(fst, nxt, h, t)
         IN  Represents(a[1], a[2], TP!Push(l, h, t), H, A)
<1> DEFINE k == TP!Push(l, h, t)
           last == l[h][Len(l[h])]
           f == IF l[h] = <<>> THEN [fst EXCEPT ![h] = t] ELSE fst
           n == IF l[h] = <<>> THEN nxt ELSE [nxt EXCEPT ![last] = t]
<1>1. /\ fst \in [ListHead -> TCB \cup {NULL}] /\ nxt \in Links(TCB) /\ h \in ListHead
      /\ l \in TP!Lists /\ TP!OnePlace(l) /\ H \subseteq ListHead /\ A \subseteq TCB
  BY DEF Represents
<1>2. /\ k \in TP!Lists /\ TP!OnePlace(k)
      /\ k[h] = Append(l[h], t) /\ \A g \in ListHead \ {h} : k[g] = l[g]
      /\ \A g \in ListHead :
             TP!Elems(k, g) = IF g = h THEN TP!Elems(l, h) \cup {t} ELSE TP!Elems(l, g)
  BY <1>1, Assumed, SameHeads, TP!PushLemma
<1> HIDE DEF k
<1>3. /\ l[h] \in Seq(TCB) /\ IsInjective(l[h]) /\ (l[h] = <<>> <=> fst[h] = NULL)
      /\ l[h] # <<>> => /\ TailOf(nxt, fst[h]) = last /\ last \in TCB
                        /\ last \in TP!Elems(l, h)
  BY OneList
<1>4. Appended(fst, nxt, h, t) = <<f, n>>
  BY <1>3 DEF Appended, Behind
<1>5. f \in [ListHead -> TCB \cup {NULL}] /\ n \in Links(TCB)
      /\ \A g \in ListHead \ {h} : f[g] = fst[g]
  BY <1>1, <1>3 DEF Links
<1>6. \A u \in TCB : (l[h] = <<>> \/ u # last) => n[u] = nxt[u]
  BY <1>1 DEF Links
<1>7. IsChain(n, f[h], k[h], FALSE)
  <2>1. IsChain(nxt, fst[h], l[h], FALSE)
    BY DEF Represents
  <2>2. t \in TCB \ Range(l[h])
    BY <1>1, ElemsIs
  <2>3. CASE l[h] = <<>>
    <3>1. IsChain(nxt, t, Append(l[h], t), FALSE)
      BY <1>1, <1>3, <2>1, <2>2, <2>3, ChainAppend
    <3>2. f[h] = t /\ n = nxt
      BY <1>1, <2>3
    <3> QED BY <1>2, <3>1, <3>2
  <2>4. CASE l[h] # <<>>
    <3>1. IsChain([nxt EXCEPT ![last] = t], fst[h], Append(l[h], t), FALSE)
      BY <1>1, <1>3, <2>1, <2>2, <2>4, ChainAppend
    <3>2. f[h] = fst[h] /\ n = [nxt EXCEPT ![last] = t]
      BY <2>4
    <3> QED BY <1>2, <3>1, <3>2
  <2> QED BY <2>3, <2>4
<1> HIDE DEF f, n
<1>8. ASSUME NEW g \in H PROVE IsChain(n, f[g], k[g], FALSE)
  <2>1. CASE g = h
    BY <1>7, <2>1
  <2>2. CASE g # h
    <3>1. k[g] = l[g] /\ f[g] = fst[g] /\ g \in ListHead
      BY <1>1, <1>2, <1>5, <2>2
    <3>2. IsChain(nxt, fst[g], l[g], FALSE) /\ l[g] \in Seq(TCB)
      <4>1. IsChain(nxt, fst[g], l[g], FALSE)
        BY DEF Represents
      <4>2. l[g] \in Seq(TCB)
        BY OneList
      <4> QED BY <4>1, <4>2
    <3>3. TP!Elems(l, g) \cap TP!Elems(l, h) = {} /\ TP!Elems(l, g) \subseteq TCB
      BY <1>1, <2>2, Assumed, SameHeads, TP!EmptyElems DEF TP!OnePlace
    <3>4. \A u \in Range(l[g]) : n[u] = nxt[u]
      BY <1>3, <1>6, <3>3, ElemsIs
    <3> QED BY <3>1, <3>2, <3>4, ChainSame
  <2> QED BY <2>1, <2>2
<1>9. \A g \in ListHead \ H : k[g] = <<>>
  BY <1>2 DEF Represents
<1>10. ASSUME NEW u \in A, \A g \in ListHead : u \notin TP!Elems(k, g) PROVE n[u] = NULL
  <2>1. \A g \in ListHead : u \notin TP!Elems(l, g)
    BY <1>2, <1>10
  <2>2. nxt[u] = NULL /\ u \in TCB
    BY <1>1, <2>1 DEF Represents
  <2> QED BY <1>1, <1>3, <1>6, <2>1, <2>2
<1>11. Represents(f, n, k, H, A)
  BY <1>1, <1>2, <1>5, <1>8, <1>9, <1>10 DEF Represents
<1> QED BY <1>4, <1>11 DEF k

\* The head of a list is taken off.
LEMMA RepresentsPop ==
  ASSUME NEW fst, NEW nxt, NEW l, NEW H, NEW A, Represents(fst, nxt, l, H, A),
         NEW h \in H, l[h] # <<>>
  PROVE  LET t == fst[h]
             k == TP!Pop(l, h)
             n == [nxt EXCEPT ![t] = NULL]
         IN  /\ Represents([fst EXCEPT ![h] = nxt[t]], n, k, H, A)
             /\ t \in TCB /\ t = Head(l[h]) /\ n[t] = NULL
             /\ \A g \in ListHead : t \notin TP!Elems(k, g)
<1> DEFINE k == TP!Pop(l, h)
           t == fst[h]
           f == [fst EXCEPT ![h] = nxt[t]]
           n == [nxt EXCEPT ![t] = NULL]
<1>1. /\ fst \in [ListHead -> TCB \cup {NULL}] /\ nxt \in Links(TCB) /\ h \in ListHead
      /\ l \in TP!Lists /\ TP!OnePlace(l) /\ H \subseteq ListHead /\ A \subseteq TCB
      /\ IsChain(nxt, fst[h], l[h], FALSE)
  BY DEF Represents
<1>2. /\ l[h] \in Seq(TCB) /\ IsInjective(l[h]) /\ t = Head(l[h]) /\ t \in TCB
      /\ t \in TP!Elems(l, h)
  BY OneList
<1>3. /\ k \in TP!Lists /\ TP!OnePlace(k)
      /\ k[h] = Tail(l[h]) /\ \A g \in ListHead \ {h} : k[g] = l[g]
      /\ \A g \in ListHead : TP!Elems(k, g) = TP!Elems(l, g) \ {t}
  BY <1>1, <1>2, Assumed, SameHeads, TP!PopLemma
<1> HIDE DEF k
<1>4. IsChain(n, nxt[t], k[h], FALSE)
  <2>1. IsChain([nxt EXCEPT ![fst[h]] = NULL], nxt[fst[h]], Tail(l[h]), FALSE)
    <3> HIDE DEF t
    <3> QED BY <1>1, <1>2, ChainTail
  <2> QED BY <1>3, <2>1
<1>5. /\ f \in [ListHead -> TCB \cup {NULL}] /\ n \in Links(TCB) /\ n[t] = NULL
      /\ f[h] = nxt[t] /\ \A g \in ListHead \ {h} : f[g] = fst[g]
      /\ \A u \in TCB : n[u] = NULL \/ n[u] = nxt[u]
      /\ \A u \in TCB \ {t} : n[u] = nxt[u]
  BY <1>1, <1>2 DEF Links
<1> HIDE DEF f, n
<1>6. ASSUME NEW g \in H PROVE IsChain(n, f[g], k[g], FALSE)
  <2>1. CASE g = h
    BY <1>4, <1>5, <2>1
  <2>2. CASE g # h
    <3>1. k[g] = l[g] /\ f[g] = fst[g] /\ g \in ListHead
      BY <1>1, <1>3, <1>5, <2>2
    <3>2. IsChain(nxt, fst[g], l[g], FALSE) /\ l[g] \in Seq(TCB)
      <4>1. IsChain(nxt, fst[g], l[g], FALSE)
        BY DEF Represents
      <4>2. l[g] \in Seq(TCB)
        BY OneList
      <4> QED BY <4>1, <4>2
    <3>3. TP!Elems(l, g) \cap TP!Elems(l, h) = {} /\ TP!Elems(l, g) \subseteq TCB
      BY <1>1, <2>2, Assumed, SameHeads, TP!EmptyElems DEF TP!OnePlace
    <3>4. \A u \in Range(l[g]) : n[u] = nxt[u]
      BY <1>2, <1>5, <3>3, ElemsIs
    <3> QED BY <3>1, <3>2, <3>4, ChainSame
  <2> QED BY <2>1, <2>2
<1>7. \A g \in ListHead \ H : k[g] = <<>>
  BY <1>3 DEF Represents
<1>8. ASSUME NEW u \in A, \A g \in ListHead : u \notin TP!Elems(k, g) PROVE n[u] = NULL
  <2>1. u \in TCB
    BY <1>1
  <2>2. CASE u = t
    BY <1>5, <2>2
  <2>3. CASE u # t
    <3>1. \A g \in ListHead : u \notin TP!Elems(l, g)
      BY <1>3, <1>8, <2>3
    <3> QED BY <1>5, <2>1, <2>3, <3>1 DEF Represents
  <2> QED BY <2>2, <2>3
<1>9. Represents(f, n, k, H, A)
  BY <1>1, <1>3, <1>5, <1>6, <1>7, <1>8 DEF Represents
<1> QED BY <1>2, <1>3, <1>5, <1>9 DEF f, n, k

\* The head of a list is taken off and put behind another one.
LEMMA RepresentsMove ==
  ASSUME NEW fst, NEW nxt, NEW l, NEW H, NEW A, Represents(fst, nxt, l, H, A),
         NEW g \in H, NEW h \in H, l[g] # <<>>
  PROVE  LET t == fst[g]
             a == Appended([fst EXCEPT ![g] = nxt[t]], [nxt EXCEPT ![t] = NULL], h, t)
         IN  Represents(a[1], a[2], TP!Move(l, g, h), H, A)
<1> DEFINE t == fst[g]
           f == [fst EXCEPT ![g] = nxt[t]]
           n == [nxt EXCEPT ![t] = NULL]
           k == TP!Pop(l, g)
<1>1. /\ Represents(f, n, k, H, A)
      /\ t \in TCB /\ t = Head(l[g]) /\ n[t] = NULL
      /\ \A e \in ListHead : t \notin TP!Elems(k, e)
  BY RepresentsPop
<1>2. TP!Move(l, g, h) = TP!Push(k, h, t)
  BY <1>1 DEF TP!Move
<1> HIDE DEF t, f, n, k
<1>3. LET a == Appended(f, n, h, t) IN Represents(a[1], a[2], TP!Push(k, h, t), H, A)
  BY <1>1, RepresentsPush
<1> QED BY <1>2, <1>3 DEF f, n, t

LEMMA PositionOf ==
  ASSUME NEW s \in Seq(TCB), IsInjective(s), NEW t \in Range(s)
  PROVE  /\ TP!Position(s, t) \in 1 .. Len(s) /\ s[TP!Position(s, t)] = t
         /\ \A j \in 1 .. Len(s) : s[j] = t => j = TP!Position(s, t)
<1>1. DOMAIN s = 1 .. Len(s)
  BY LenProperties
<1>2. TP!Position(s, t) \in DOMAIN s /\ s[TP!Position(s, t)] = t
  BY DEF TP!Position, Range
<1> QED BY <1>1, <1>2 DEF IsInjective

LEMMA EmptyRangeOf ==
  ASSUME NEW S, NEW s \in Seq(S)
  PROVE  s = <<>> <=> Range(s) = {}
<1>1. CASE s = <<>>
  BY <1>1 DEF Range
<1>2. CASE s # <<>>
  <2>1. Len(s) \in Nat /\ Len(s) >= 1 /\ Range(s) = {s[k] : k \in 1 .. Len(s)}
    BY <1>2, LastOf
  <2>2. s[1] \in Range(s)
    BY <2>1
  <2> QED BY <1>2, <2>2
<1> QED BY <1>1, <1>2

\* What unlinking t from behind u comes to.
UnlinkedFrom(fst, nxt, l, H, A, h, t, u) ==
    LET k == TP!Unlink(l, h, t)
        n == [[nxt EXCEPT ![u] = nxt[t]] EXCEPT ![t] = NULL]
    IN  /\ Represents(fst, n, k, H, A)
        /\ t \in TCB /\ u \in TCB /\ u # t /\ n[t] = NULL
        /\ \A g \in ListHead : t \notin TP!Elems(k, g)

LEMMA RepresentsUnlink ==
  ASSUME NEW fst, NEW nxt, NEW l, NEW H, NEW A, Represents(fst, nxt, l, H, A),
         NEW h \in H, NEW t \in TP!Elems(l, h), fst[h] # t
  PROVE  /\ \E u \in TP!Elems(l, h) : nxt[u] = t
         /\ \A u \in TP!Elems(l, h) : nxt[u] = t =>
                UnlinkedFrom(fst, nxt, l, H, A, h, t, u)
<1> DEFINE s == l[h]
           p == TP!Position(s, t)
           k == TP!Unlink(l, h, t)
<1>1. /\ fst \in [ListHead -> TCB \cup {NULL}] /\ nxt \in Links(TCB) /\ h \in ListHead
      /\ l \in TP!Lists /\ TP!OnePlace(l) /\ H \subseteq ListHead /\ A \subseteq TCB
      /\ IsChain(nxt, fst[h], s, FALSE)
  BY DEF Represents
<1>2. s \in Seq(TCB) /\ IsInjective(s) /\ t \in Range(s) /\ s # <<>> /\ fst[h] = s[1]
  <2>1. s \in Seq(TCB) /\ IsInjective(s) /\ t \in Range(s)
    BY OneList, ElemsIs
  <2>2. s # <<>>
    BY <2>1, EmptyRangeOf
  <2> QED BY <2>1, <2>2, OneList
<1>3. /\ Len(s) \in Nat /\ Len(s) >= 1 /\ \A j \in 1 .. Len(s) : s[j] \in TCB
      /\ Range(s) = {s[j] : j \in 1 .. Len(s)}
  BY <1>2, LastOf
<1>4. p \in 1 .. Len(s) /\ s[p] = t /\ \A j \in 1 .. Len(s) : s[j] = t => j = p
  BY <1>2, PositionOf
<1> HIDE DEF s, p
<1>5. p \in 2 .. Len(s) /\ p - 1 \in 1 .. Len(s) - 1 /\ p - 1 \in 1 .. Len(s) /\ (p - 1) + 1 = p
  <2>1. p # 1
    BY <1>2, <1>4
  <2> QED BY <1>3, <1>4, <2>1
<1>6. nxt[s[p - 1]] = t
  BY <1>1, <1>4, <1>5 DEF IsChain
<1>7. \E u \in TP!Elems(l, h) : nxt[u] = t
  BY <1>3, <1>5, <1>6, ElemsIs DEF s
<1>8. ASSUME NEW u \in TP!Elems(l, h), nxt[u] = t
      PROVE  u = s[p - 1]
  <2>1. PICK j \in 1 .. Len(s) : u = s[j]
    BY <1>3, ElemsIs DEF s
  <2>2. j # Len(s)
    <3>1. nxt[s[Len(s)]] = NULL
      BY <1>1, <1>2 DEF IsChain
    <3>2. t # NULL
      BY <1>3, <1>4, SameHeads
    <3> QED BY <1>8, <2>1, <3>1, <3>2
  <2>3. j \in 1 .. Len(s) - 1 /\ j + 1 \in 1 .. Len(s)
    BY <1>3, <2>2
  <2>4. s[j + 1] = t
    BY <1>1, <1>8, <2>1, <2>3 DEF IsChain
  <2>5. j + 1 = p
    BY <1>4, <2>3, <2>4
  <2>6. j = p - 1
    BY <1>3, <1>4, <2>3, <2>5
  <2> QED BY <2>1, <2>6
<1>9. ASSUME NEW u \in TP!Elems(l, h), nxt[u] = t
      PROVE  LET n == [[nxt EXCEPT ![u] = nxt[t]] EXCEPT ![t] = NULL]
             IN  /\ Represents(fst, n, k, H, A)
                 /\ t \in TCB /\ u \in TCB /\ u # t /\ n[t] = NULL
                 /\ \A g \in ListHead : t \notin TP!Elems(k, g)
  <2> DEFINE m == [nxt EXCEPT ![u] = nxt[t]]
             n == [m EXCEPT ![t] = NULL]
  <2>1. u = s[p - 1] /\ u \in TCB /\ t \in TCB
    BY <1>3, <1>4, <1>5, <1>8, <1>9
  <2>2. u # t
    BY <1>3, <1>4, <1>5, <2>1
  <2>3. /\ k \in TP!Lists /\ TP!OnePlace(k)
        /\ \A g \in ListHead \ {h} : k[g] = l[g]
        /\ \A g \in ListHead : TP!Elems(k, g) = TP!Elems(l, g) \ {t}
    BY <1>1, Assumed, SameHeads, TP!UnlinkLemma
  <2>4. k[h] = RemoveAt(s, p)
    <3>1. l \in [ListHead -> Seq(TCB)]
      BY <1>1, SameHeads DEF TP!Lists
    <3> QED BY <1>1, <3>1 DEF TP!Unlink, TP!RemoveAt, RemoveAt, s, p
  <2> HIDE DEF k
  <2>5. m \in Links(TCB) /\ n \in Links(TCB) /\ n[t] = NULL
        /\ \A v \in TCB \ {t} : n[v] = m[v]
        /\ \A w \in TCB \ {u} : m[w] = nxt[w]
    BY <1>1, <2>1 DEF Links
  <2>6. IsChain(m, fst[h], k[h], FALSE)
    <3>1. IsChain([nxt EXCEPT ![s[p - 1]] = nxt[s[p]]], fst[h], RemoveAt(s, p), FALSE)
      BY <1>1, <1>2, <1>5, ChainRemove
    <3> QED BY <1>4, <2>1, <2>4, <3>1
  <2> HIDE DEF m, n
  <2>7. ASSUME NEW g \in H PROVE IsChain(n, fst[g], k[g], FALSE)
    <3>1. g \in ListHead /\ k[g] \in Seq(TCB)
      BY <1>1, <2>3, SameHeads DEF TP!Lists
    <3>2. CASE g = h
      <4>1. \A v \in Range(k[h]) : v \in TCB \ {t}
        <5>1. TP!Elems(k, h) = TP!Elems(l, h) \ {t} /\ TP!Elems(l, h) \subseteq TCB
          BY <1>1, <2>3, Assumed, SameHeads, TP!EmptyElems
        <5> QED BY <5>1, ElemsIs
      <4>2. \A v \in Range(k[h]) : n[v] = m[v]
        BY <2>5, <4>1
      <4> QED BY <2>6, <3>1, <3>2, <4>2, ChainSame
    <3>3. CASE g # h
      <4>1. k[g] = l[g]
        BY <2>3, <3>1, <3>3
      <4>2. IsChain(nxt, fst[g], l[g], FALSE)
        BY DEF Represents
      <4>3. TP!Elems(l, g) \cap TP!Elems(l, h) = {} /\ TP!Elems(l, g) \subseteq TCB
        BY <1>1, <3>1, <3>3, Assumed, SameHeads, TP!EmptyElems DEF TP!OnePlace
      <4>4. \A v \in Range(l[g]) : v \in TCB /\ v # t /\ v # u
        BY <4>3, ElemsIs
      <4>5. \A v \in Range(l[g]) : n[v] = nxt[v]
        BY <2>5, <4>4
      <4> QED BY <3>1, <4>1, <4>2, <4>5, ChainSame
    <3> QED BY <3>2, <3>3
  <2>8. \A g \in ListHead \ H : k[g] = <<>>
    BY <2>3 DEF Represents
  <2>9. ASSUME NEW v \in A, \A g \in ListHead : v \notin TP!Elems(k, g) PROVE n[v] = NULL
    <3>1. v \in TCB
      BY <1>1
    <3>2. CASE v = t
      BY <2>5, <3>2
    <3>3. CASE v # t
      <4>1. \A g \in ListHead : v \notin TP!Elems(l, g)
        BY <2>3, <2>9, <3>3
      <4>2. v # u
        BY <1>1, <4>1
      <4>3. nxt[v] = NULL
        BY <4>1 DEF Represents
      <4> QED BY <2>5, <3>1, <3>3, <4>2, <4>3
    <3> QED BY <3>2, <3>3
  <2>10. Represents(fst, n, k, H, A)
    BY <1>1, <2>3, <2>5, <2>7, <2>8, <2>9 DEF Represents
  <2> QED BY <2>1, <2>2, <2>3, <2>5, <2>10 DEF m, n
<1> QED BY <1>7, <1>9 DEF k, UnlinkedFrom

LEMMA RemoveAtOne ==
  ASSUME NEW S, NEW s \in Seq(S), s # <<>>
  PROVE  RemoveAt(s, 1) = Tail(s)
<1> DEFINE b == SubSeq(s, 2, Len(s))
           r == <<>> \o b
<1>1. Len(s) \in Nat /\ Len(s) >= 1 /\ \A k \in 1 .. Len(s) : s[k] \in S
  BY LastOf
<1>2. RemoveAt(s, 1) = r
  BY <1>1 DEF RemoveAt
<1>3. /\ Tail(s) \in Seq(S) /\ Len(Tail(s)) = Len(s) - 1
      /\ \A k \in 1 .. Len(s) - 1 : Tail(s)[k] = s[k + 1]
  BY <1>1, HeadTailProperties
<1>4. /\ b \in Seq(S) /\ Len(b) = Len(s) - 1
      /\ \A k \in 1 .. Len(s) - 1 : b[k] = s[k + 1]
  <2>1. /\ b \in Seq(S) /\ Len(b) = IF 2 <= Len(s) THEN Len(s) - 2 + 1 ELSE 0
        /\ \A k \in 1 .. (Len(s) - 2 + 1) : b[k] = s[2 + k - 1]
    <3>1. 2 \in 1 .. (Len(s) + 1)
      BY <1>1
    <3> QED BY <1>1, <3>1, SubSeqProperties
  <2> HIDE DEF b
  <2>2. Len(b) = Len(s) - 1 /\ Len(s) - 2 + 1 = Len(s) - 1
    <3>1. CASE Len(s) = 1
      BY <2>1, <3>1
    <3>2. CASE Len(s) # 1
      <4>1. 2 <= Len(s)
        <5>1. \A n \in Nat : n >= 1 /\ n # 1 => 2 <= n
          OBVIOUS
        <5> QED BY <1>1, <3>2, <5>1
      <4>2. Len(b) = Len(s) - 2 + 1
        BY <2>1, <4>1
      <4> QED BY <1>1, <4>2
    <3> QED BY <3>1, <3>2
  <2>3. \A k \in 1 .. Len(s) - 1 : 2 + k - 1 = k + 1
    BY <1>1
  <2> QED BY <2>1, <2>2, <2>3
<1> HIDE DEF b
<1>5. r = b
  BY <1>4
<1> QED BY <1>2, <1>3, <1>4, <1>5, SeqEqual

\* The joiner t is taken off joiningList, wherever it stands there, and put at
\* the end of the ready queue.
LEMMA RepresentsWake ==
  ASSUME NEW l, NEW H, NEW A, Represents(first, next, l, H, A),
         readyQueue \in H, joiningList \in H, l[readyQueue] # <<>>,
         NEW t \in TP!Elems(l, joiningList)
  PROVE  /\ Joining(t) /\ t # NULL
         /\ Represents(wakeupThread(t)[1], wakeupThread(t)[2], TP!wakeupThread(l, t), H, A)
<1> DEFINE ready == l[readyQueue]
           last == ready[Len(ready)]
<1>1. /\ first \in [ListHead -> TCB \cup {NULL}] /\ next \in Links(TCB)
      /\ l \in TP!Lists /\ TP!OnePlace(l)
      /\ readyQueue \in ListHead /\ joiningList \in ListHead /\ readyQueue # joiningList
      /\ NULL \notin TCB
  BY SameHeads DEF Represents
<1>2. TP!Elems(l, joiningList) \subseteq TCB
      /\ TP!Elems(l, readyQueue) \cap TP!Elems(l, joiningList) = {}
  BY <1>1, Assumed, SameHeads, TP!EmptyElems DEF TP!OnePlace
<1>3. /\ ready \in Seq(TCB) /\ IsInjective(ready) /\ first[readyQueue] \in TCB
      /\ TailOf(next, first[readyQueue]) = last
      /\ last \in TCB /\ last \in TP!Elems(l, readyQueue)
  BY OneList
<1>4. /\ l[joiningList] \in Seq(TCB) /\ IsInjective(l[joiningList])
      /\ Walk(next, first[joiningList]) = l[joiningList]
      /\ l[joiningList] # <<>>
      /\ first[joiningList] = Head(l[joiningList])
      /\ first[joiningList] = l[joiningList][1]
  <2>1. l[joiningList] \in Seq(TCB) /\ t \in Range(l[joiningList])
    BY OneList, ElemsIs
  <2>2. l[joiningList] # <<>>
    BY <2>1, EmptyRangeOf
  <2> QED BY <2>1, <2>2, OneList
<1>5. t \in TCB /\ t # NULL /\ last # t /\ first[readyQueue] # NULL
  BY <1>1, <1>2, <1>3
<1>6. \A u : Joining(u) <=> u \in TP!Elems(l, joiningList)
  BY <1>4, ElemsIs DEF Joining
<1>7. TP!wakeupThread(l, t) = TP!Push(TP!Unlink(l, joiningList, t), readyQueue, t)
  BY <1>5 DEF TP!wakeupThread
<1> HIDE DEF last
<1>8. CASE first[joiningList] = t
  <2> DEFINE f1 == [first EXCEPT ![joiningList] = next[t]]
             n1 == [next EXCEPT ![t] = NULL]
             k  == TP!Pop(l, joiningList)
  <2>1. /\ Represents(f1, n1, k, H, A) /\ n1[t] = NULL
        /\ \A g \in ListHead : t \notin TP!Elems(k, g)
    BY <1>4, <1>8, RepresentsPop
  <2>2. k[readyQueue] = ready
    BY <1>1, SameHeads DEF TP!Pop, TP!Lists
  <2>3. TP!Unlink(l, joiningList, t) = k
    <3>1. 1 \in 1 .. Len(l[joiningList])
      BY <1>4, LastOf
    <3>2. TP!Position(l[joiningList], t) = 1
      <4>1. t \in Range(l[joiningList])
        BY ElemsIs
      <4> QED BY <1>4, <1>8, <3>1, <4>1, PositionOf
    <3>3. RemoveAt(l[joiningList], 1) = Tail(l[joiningList])
      BY <1>4, RemoveAtOne
    <3>4. TP!RemoveAt(l[joiningList], 1) = Tail(l[joiningList])
      BY <3>3 DEF TP!RemoveAt, RemoveAt
    <3> QED BY <3>2, <3>4 DEF TP!Unlink, TP!Pop
  <2> HIDE DEF k
  <2>4. TailOf(n1, f1[readyQueue]) = last /\ f1[readyQueue] = first[readyQueue]
    <3>1. f1[readyQueue] = first[readyQueue]
      BY <1>1
    <3> HIDE DEF f1, n1
    <3>2. TailOf(n1, f1[readyQueue]) = last
      BY <2>1, <2>2, OneList DEF last
    <3> QED BY <3>1, <3>2
  <2>5. Appended(f1, n1, readyQueue, t) = <<f1, [n1 EXCEPT ![last] = t]>>
    <3> HIDE DEF f1, n1
    <3> QED BY <1>5, <2>4 DEF Appended, Behind
  <2>6. Represents(f1, [n1 EXCEPT ![last] = t], TP!Push(k, readyQueue, t), H, A)
    <3> HIDE DEF f1, n1
    <3>1. LET a == Appended(f1, n1, readyQueue, t)
          IN  Represents(a[1], a[2], TP!Push(k, readyQueue, t), H, A)
      BY <1>5, <2>1, RepresentsPush
    <3> QED BY <2>5, <3>1
  <2>7. wakeupThread(t) = <<f1, [n1 EXCEPT ![last] = t]>>
    <3> DEFINE b == [next EXCEPT ![last] = t]
    <3>1. Behind(next, first[readyQueue], t) = b
      BY <1>3 DEF Behind
    <3>2. b[t] = next[t] /\ [b EXCEPT ![t] = NULL] = [n1 EXCEPT ![last] = t]
      BY <1>1, <1>3, <1>5 DEF Links
    <3> HIDE DEF b
    <3>3. wakeupThread(t) = <<[first EXCEPT ![joiningList] = b[t]], [b EXCEPT ![t] = NULL]>>
      BY <1>5, <1>8, <3>1 DEF wakeupThread
    <3> QED BY <3>2, <3>3
  <2>8. wakeupThread(t)[1] = f1 /\ wakeupThread(t)[2] = [n1 EXCEPT ![last] = t]
    BY <2>7
  <2> QED BY <1>5, <1>6, <1>7, <2>3, <2>6, <2>8
<1>9. CASE first[joiningList] # t
  <2> DEFINE u == Before(t)
             m == [next EXCEPT ![u] = next[t]]
             n == [m EXCEPT ![t] = NULL]
             k == TP!Unlink(l, joiningList, t)
  <2>1. u \in TP!Elems(l, joiningList) /\ next[u] = t
    <3>1. \E v \in TP!Elems(l, joiningList) : next[v] = t
      BY <1>9, RepresentsUnlink
    <3>2. \E v \in TCB : Joining(v) /\ next[v] = t
      BY <1>2, <1>6, <3>1
    <3>3. Joining(u) /\ next[u] = t
      BY <3>2 DEF Before
    <3> QED BY <1>6, <3>3
  <2> HIDE DEF u
  <2>2. /\ Represents(first, n, k, H, A)
        /\ t \in TCB /\ u \in TCB /\ u # t /\ n[t] = NULL
        /\ \A g \in ListHead : t \notin TP!Elems(k, g)
    <3>1. UnlinkedFrom(first, next, l, H, A, joiningList, t, u)
      BY <1>9, <2>1, RepresentsUnlink
    <3> QED BY <3>1 DEF UnlinkedFrom
  <2>3. k[readyQueue] = ready
    BY <1>1, SameHeads DEF TP!Unlink, TP!Lists
  <2>4. TailOf(m, first[readyQueue]) = last
    <3>1. \A v \in Range(ready) : m[v] = next[v]
      <4>1. u \notin Range(ready) /\ \A v \in Range(ready) : v \in TCB
        <5>1. TP!Elems(l, readyQueue) \subseteq TCB
          BY <1>1, Assumed, SameHeads, TP!EmptyElems
        <5> QED BY <1>2, <2>1, <5>1, ElemsIs
      <4> QED BY <1>1, <2>2, <4>1 DEF Links
    <3>2. m \in Links(TCB)
      BY <1>1, <2>2 DEF Links
    <3> HIDE DEF m, ready
    <3>3. IsChain(next, first[readyQueue], ready, FALSE)
      BY DEF Represents, ready
    <3>4. IsChain(m, first[readyQueue], ready, FALSE)
      BY <1>3, <3>1, <3>3, ChainSame
    <3>5. ready # <<>>
      BY DEF ready
    <3> QED BY <1>1, <1>3, <3>2, <3>4, <3>5, ChainWalk DEF last
  <2>5. TailOf(n, first[readyQueue]) = last
    <3> HIDE DEF n, k
    <3> QED BY <2>2, <2>3, OneList DEF last
  <2>6. Appended(first, n, readyQueue, t) = <<first, [n EXCEPT ![last] = t]>>
    <3> HIDE DEF n
    <3> QED BY <1>5, <2>5 DEF Appended, Behind
  <2>7. Represents(first, [n EXCEPT ![last] = t], TP!Push(k, readyQueue, t), H, A)
    <3> HIDE DEF n, k
    <3>1. LET a == Appended(first, n, readyQueue, t)
          IN  Represents(a[1], a[2], TP!Push(k, readyQueue, t), H, A)
      BY <1>5, <2>2, RepresentsPush
    <3> QED BY <2>6, <3>1
  <2>8. wakeupThread(t) = <<first, [n EXCEPT ![last] = t]>>
    <3> DEFINE b == [m EXCEPT ![last] = t]
    <3>1. m \in Links(TCB)
      BY <1>1, <2>2 DEF Links
    <3>2. Behind(m, first[readyQueue], t) = b
      <4> HIDE DEF m
      <4> QED BY <2>4 DEF Behind
    <3> HIDE DEF m
    <3>3. [b EXCEPT ![t] = NULL] = [n EXCEPT ![last] = t]
      BY <1>3, <1>5, <3>1 DEF Links
    <3> HIDE DEF b, n
    <3>4. wakeupThread(t) = <<first, [b EXCEPT ![t] = NULL]>>
      BY <1>5, <1>9, <3>2 DEF wakeupThread, m, u
    <3> QED BY <3>3, <3>4
  <2>9. wakeupThread(t)[1] = first /\ wakeupThread(t)[2] = [n EXCEPT ![last] = t]
    BY <2>8
  <2> QED BY <1>5, <1>6, <1>7, <2>7, <2>9
<1> QED BY <1>8, <1>9

-----------------------------------------------------------------------------
(* The existence records.                                                    *)

LEMMA MinOf ==
  ASSUME NEW S \in SUBSET Nat, S # {}
  PROVE  Min(S) \in S /\ \A k \in S : Min(S) <= k
BY LeastNat DEF Min

LEMMA MinIs ==
  ASSUME NEW S \in SUBSET Nat, NEW n \in S, \A k \in S : n <= k
  PROVE  Min(S) = n
<1>1. Min(S) \in S /\ \A k \in S : Min(S) <= k
  BY MinOf
<1>2. Min(S) <= n /\ n <= Min(S) /\ n \in Nat /\ Min(S) \in Nat
  BY <1>1
<1> QED BY <1>2

ExistenceRecords == Seq([tid : TCB, terminated : BOOLEAN])

RecordsIn(recs, t) == {k \in DOMAIN recs : recs[k].tid = t}

RecordIn(recs, t) ==
    IF RecordsIn(recs, t) = {} THEN "none"
    ELSE IF ~recs[Min(RecordsIn(recs, t))].terminated THEN "alive" ELSE "terminated"

LEMMA RecordIs ==
  /\ newestRecords = [t \in TCB |-> RecordIn(terList, t)]
  /\ newestRecords' = [t \in TCB |-> RecordIn(terList', t)]
<1>1. \A t : Records(t) = RecordsIn(terList, t) /\ Records(t)' = RecordsIn(terList', t)
  BY DEF Records, RecordsIn
<1>2. \A t : Record(t) = RecordIn(terList, t) /\ Record(t)' = RecordIn(terList', t)
  BY <1>1 DEF Record, RecordIn, isThreadAlive, findTER
<1> QED BY <1>2 DEF newestRecords

LEMMA AliveIs ==
  ASSUME NEW t \in TCB
  PROVE  isThreadAlive(t) = TP!isThreadAlive(t)
<1>1. newestRecords[t] = Record(t)
  BY DEF newestRecords
<1>2. isThreadAlive(t) <=> Record(t) = "alive"
  BY DEF Record, isThreadAlive
<1>3. isThreadAlive(t) \in BOOLEAN
  BY DEF isThreadAlive
<1> QED BY <1>1, <1>2, <1>3 DEF TP!isThreadAlive

\* A new record is in front of those there are.
LEMMA RecordAdded ==
  ASSUME NEW recs \in ExistenceRecords, NEW t \in TCB
  PROVE  LET more == <<[tid |-> t, terminated |-> FALSE]>> \o recs
         IN  /\ more \in ExistenceRecords
             /\ \A u \in TCB : RecordIn(more, u) = IF u = t THEN "alive" ELSE RecordIn(recs, u)
<1> DEFINE R == [tid : TCB, terminated : BOOLEAN]
           r == [tid |-> t, terminated |-> FALSE]
           more == <<r>> \o recs
<1>1. recs \in Seq(R) /\ r \in R /\ <<r>> \in Seq(R)
  BY DEF ExistenceRecords
<1>2. /\ more \in Seq(R) /\ Len(more) = 1 + Len(recs) /\ Len(recs) \in Nat
      /\ DOMAIN more = 1 .. (1 + Len(recs)) /\ DOMAIN recs = 1 .. Len(recs)
      /\ more[1] = r /\ \A k \in 1 .. Len(recs) : more[k + 1] = recs[k]
  <2> HIDE DEF R, r
  <2>1. /\ more \in Seq(R) /\ Len(more) = Len(<<r>>) + Len(recs)
        /\ \A k \in 1 .. Len(more) : more[k] = IF k <= Len(<<r>>) THEN <<r>>[k]
                                               ELSE recs[k - Len(<<r>>)]
    BY <1>1, ConcatProperties
  <2>2. Len(<<r>>) = 1 /\ <<r>>[1] = r /\ Len(recs) \in Nat
    BY <1>1
  <2> HIDE DEF more
  <2>3. more[1] = r
    BY <2>1, <2>2
  <2>4. ASSUME NEW k \in 1 .. Len(recs) PROVE more[k + 1] = recs[k]
    <3>1. k + 1 \in 1 .. Len(more) /\ ~(k + 1 <= 1) /\ (k + 1) - 1 = k
      BY <2>1, <2>2
    <3> QED BY <2>1, <2>2, <3>1
  <2>5. DOMAIN more = 1 .. (1 + Len(recs)) /\ DOMAIN recs = 1 .. Len(recs)
    BY <1>1, <2>1, <2>2, LenProperties
  <2> QED BY <2>1, <2>2, <2>3, <2>4, <2>5
<1> HIDE DEF more
<1>3. RecordIn(more, t) = "alive"
  <2> DEFINE S == RecordsIn(more, t)
  <2>1. 1 \in S /\ S \in SUBSET Nat /\ \A k \in S : 1 <= k
    BY <1>2 DEF RecordsIn
  <2> HIDE DEF S
  <2>2. Min(S) = 1 /\ S # {}
    BY <2>1, MinIs
  <2> QED BY <1>2, <2>2 DEF RecordIn, S
<1>4. ASSUME NEW u \in TCB, u # t PROVE RecordIn(more, u) = RecordIn(recs, u)
  <2> DEFINE S == RecordsIn(more, u)
             Q == RecordsIn(recs, u)
  <2>1. Q \in SUBSET Nat /\ S \in SUBSET Nat /\ \A k \in Q : k \in 1 .. Len(recs)
    BY <1>2 DEF RecordsIn
  <2>2. \A k \in Q : k + 1 \in S
    BY <1>2 DEF RecordsIn
  <2>3. ASSUME NEW k \in S PROVE k - 1 \in Q
    <3>1. k \in 1 .. (1 + Len(recs)) /\ more[k].tid = u
      BY <1>2 DEF RecordsIn
    <3>2. k # 1
      BY <1>2, <1>4, <3>1
    <3>3. k - 1 \in 1 .. Len(recs) /\ (k - 1) + 1 = k
      BY <1>2, <3>1, <3>2
    <3> QED BY <1>2, <3>1, <3>3 DEF RecordsIn
  <2>4. CASE Q = {}
    <3>1. S = {}
      BY <2>3, <2>4
    <3> QED BY <2>4, <3>1 DEF RecordIn
  <2>5. CASE Q # {}
    <3> DEFINE n == Min(Q)
    <3>1. n \in Q /\ \A k \in Q : n <= k
      <4> HIDE DEF Q
      <4> QED BY <2>1, <2>5, MinOf
    <3> HIDE DEF n
    <3>2. n + 1 \in S /\ n \in Nat
      BY <2>1, <2>2, <3>1
    <3>3. ASSUME NEW k \in S PROVE n + 1 <= k
      <4>1. n <= k - 1 /\ k \in Nat
        BY <2>1, <2>3, <3>1
      <4> QED BY <3>2, <4>1
    <3>4. Min(S) = n + 1
      <4> HIDE DEF S
      <4> QED BY <2>1, <3>2, <3>3, MinIs
    <3>5. more[n + 1] = recs[n] /\ S # {}
      BY <1>2, <2>1, <3>1, <3>2
    <3> QED BY <2>5, <3>4, <3>5 DEF RecordIn, n
  <2> QED BY <2>4, <2>5
<1> QED BY <1>2, <1>3, <1>4 DEF more, ExistenceRecords

\* The newest record of a thread is marked.
LEMMA RecordMarked ==
  ASSUME NEW recs \in ExistenceRecords, NEW t \in TCB, RecordsIn(recs, t) # {}
  PROVE  LET marked == [recs EXCEPT ![Min(RecordsIn(recs, t))].terminated = TRUE]
         IN  /\ marked \in ExistenceRecords
             /\ \A u \in TCB :
                    RecordIn(marked, u) = IF u = t THEN "terminated" ELSE RecordIn(recs, u)
<1> DEFINE R == [tid : TCB, terminated : BOOLEAN]
           n == Min(RecordsIn(recs, t))
           marked == [recs EXCEPT ![n].terminated = TRUE]
<1>1. /\ recs \in Seq(R) /\ Len(recs) \in Nat /\ DOMAIN recs = 1 .. Len(recs)
      /\ \A k \in 1 .. Len(recs) : recs[k] \in R
  BY LenProperties, ElementOfSeq DEF ExistenceRecords
<1>2. \A u : RecordsIn(recs, u) \in SUBSET Nat
  BY <1>1 DEF RecordsIn
<1>3. n \in RecordsIn(recs, t)
  BY <1>2, MinOf
<1> HIDE DEF n
<1>4. n \in 1 .. Len(recs) /\ recs[n].tid = t
  BY <1>1, <1>3 DEF RecordsIn
<1>5. /\ marked[n] = [recs[n] EXCEPT !.terminated = TRUE]
      /\ DOMAIN marked = 1 .. Len(recs)
      /\ \A k \in 1 .. Len(recs) : k # n => marked[k] = recs[k]
  BY <1>1, <1>4
<1>6. marked[n] \in R /\ marked[n].tid = t /\ marked[n].terminated
  BY <1>1, <1>4, <1>5
<1>7. marked \in Seq(R)
  <2>1. \A k \in 1 .. Len(recs) : marked[k] \in R
    BY <1>1, <1>5, <1>6
  <2>2. marked = [k \in 1 .. Len(recs) |-> marked[k]]
    BY <1>1
  <2> HIDE DEF marked, R
  <2> QED BY <1>1, <2>1, <2>2
<1> HIDE DEF marked
<1>8. \A u : RecordsIn(marked, u) = RecordsIn(recs, u)
  <2>1. \A k \in 1 .. Len(recs) : marked[k].tid = recs[k].tid
    BY <1>4, <1>5, <1>6
  <2> QED BY <1>1, <1>5, <2>1 DEF RecordsIn
<1>9. RecordIn(marked, t) = "terminated"
  BY <1>3, <1>6, <1>8 DEF RecordIn, n
<1>10. ASSUME NEW u \in TCB, u # t PROVE RecordIn(marked, u) = RecordIn(recs, u)
  <2>1. CASE RecordsIn(recs, u) = {}
    BY <1>8, <2>1 DEF RecordIn
  <2>2. CASE RecordsIn(recs, u) # {}
    <3> DEFINE m == Min(RecordsIn(recs, u))
    <3>1. m \in RecordsIn(recs, u)
      BY <1>2, <2>2, MinOf
    <3> HIDE DEF m
    <3>2. m # n /\ m \in 1 .. Len(recs)
      BY <1>1, <1>4, <1>10, <3>1 DEF RecordsIn
    <3>3. marked[m] = recs[m]
      BY <1>5, <3>2
    <3> QED BY <1>8, <2>2, <3>3 DEF RecordIn, m
  <2> QED BY <2>1, <2>2
<1> QED BY <1>7, <1>9, <1>10 DEF marked, n, ExistenceRecords

-----------------------------------------------------------------------------
(* The registries.                                                           *)

\* The chain from start along nxt is one of S.
Registered(nxt, start, S) ==
    /\ Walk(nxt, start) \in Seq(S) /\ IsInjective(Walk(nxt, start))
    /\ Endless(nxt, start) \in BOOLEAN
    /\ IsChain(nxt, start, Walk(nxt, start), Endless(nxt, start))

RegistryOf(nxt, start) == [chain |-> Walk(nxt, start), looped |-> Endless(nxt, start)]

\* What was found of a chain.
LEMMA RegisteredBy ==
  ASSUME NEW nxt \in Links(Object), NEW start, NEW S \in SUBSET Object, NEW s \in Seq(S),
         IsInjective(s), NEW looped \in BOOLEAN, IsChain(nxt, start, s, looped)
  PROVE  /\ Walk(nxt, start) = s /\ Endless(nxt, start) = looped
         /\ Registered(nxt, start, S)
         /\ s # <<>> => TailOf(nxt, start) = s[Len(s)]
         /\ start = NULL <=> s = <<>>
<1>1. NULL \notin Object
  BY SameHeads
<1>2. s \in Seq(Object)
  <2>1. Len(s) \in Nat /\ s = [k \in 1 .. Len(s) |-> s[k]] /\ \A k \in 1 .. Len(s) : s[k] \in Object
    BY LenProperties, ElementOfSeq
  <2> QED BY <2>1
<1>3. /\ Walk(nxt, start) = s /\ Endless(nxt, start) = looped
      /\ s # <<>> => TailOf(nxt, start) = s[Len(s)]
  BY <1>1, <1>2, ChainWalk
<1>4. start = NULL <=> s = <<>>
  <2>1. CASE s = <<>>
    BY <2>1 DEF IsChain
  <2>2. CASE s # <<>>
    <3>1. s[1] \in Object
      BY <1>2, <2>2, LastOf
    <3> QED BY <1>1, <2>2, <3>1 DEF IsChain
  <2> QED BY <2>1, <2>2
<1> QED BY <1>3, <1>4 DEF Registered

\* A chain none of whose nodes is assigned to stays what it is.
LEMMA RegisteredSame ==
  ASSUME NEW nxt, NEW nxt2 \in Links(Object), NEW start, NEW S \in SUBSET Object,
         Registered(nxt, start, S), \A y \in Range(Walk(nxt, start)) : nxt2[y] = nxt[y]
  PROVE  Registered(nxt2, start, S) /\ RegistryOf(nxt2, start) = RegistryOf(nxt, start)
<1> DEFINE s == Walk(nxt, start)
           looped == Endless(nxt, start)
<1>1. /\ s \in Seq(S) /\ IsInjective(s) /\ looped \in BOOLEAN
      /\ IsChain(nxt, start, s, looped)
  BY DEF Registered
<1> HIDE DEF s, looped
<1>2. \A y \in Range(s) : nxt2[y] = nxt[y]
  BY DEF s
<1>3. IsChain(nxt2, start, s, looped)
  BY <1>1, <1>2, ChainSame
<1>4. /\ Walk(nxt2, start) = s /\ Endless(nxt2, start) = looped
      /\ Registered(nxt2, start, S)
  BY <1>1, <1>3, RegisteredBy
<1> QED BY <1>4 DEF RegistryOf, s, looped

\* What putting x at the end of the chain from start comes to.
RegisterOutcome(nxt, start, S, x) ==
    LET r == RegistryOf(nxt, start)
        cleared == [nxt EXCEPT ![x] = NULL]
        n == IF start = NULL THEN cleared ELSE Behind(cleared, start, x)
        head == IF start = NULL THEN x ELSE start
    IN  /\ start # NULL /\ Endless(cleared, start) <=> TP!WalkHangs(r, x)
        /\ TP!WalkHangs(r, x) =>
               /\ cleared \in Links(Object)
               /\ Registered(cleared, start, S) /\ RegistryOf(cleared, start) = r
        /\ ~TP!WalkHangs(r, x) =>
               /\ n \in Links(Object)
               /\ Registered(n, head, S) /\ RegistryOf(n, head) = TP!Register(r, x)
        /\ \A y \in Object \ S : cleared[y] = nxt[y] /\ n[y] = nxt[y]

\* The chain of the registry is what Threads says, whatever x was before.
LEMMA RegisterChain ==
  ASSUME NEW nxt \in Links(Object), NEW start, NEW S \in SUBSET Object,
         Registered(nxt, start, S), NEW x \in S
  PROVE  RegisterOutcome(nxt, start, S, x)
<1> DEFINE s == Walk(nxt, start)
           looped == Endless(nxt, start)
           r == RegistryOf(nxt, start)
           cleared == [nxt EXCEPT ![x] = NULL]
           n == IF start = NULL THEN cleared ELSE Behind(cleared, start, x)
           head == IF start = NULL THEN x ELSE start
           Goal == /\ start # NULL /\ Endless(cleared, start) <=> TP!WalkHangs(r, x)
                   /\ TP!WalkHangs(r, x) =>
                          /\ Registered(cleared, start, S) /\ RegistryOf(cleared, start) = r
                   /\ ~TP!WalkHangs(r, x) =>
                          /\ n \in Links(Object)
                          /\ Registered(n, head, S) /\ RegistryOf(n, head) = TP!Register(r, x)
                   /\ \A y \in Object \ S : n[y] = nxt[y]
<1>1. /\ s \in Seq(S) /\ IsInjective(s) /\ looped \in BOOLEAN
      /\ IsChain(nxt, start, s, looped)
  BY DEF Registered
<1>2. r = [chain |-> s, looped |-> looped] /\ r.chain = s /\ r.looped = looped
  BY DEF RegistryOf
<1> HIDE DEF s, looped, r
<1>3. start = NULL <=> s = <<>>
  BY <1>1, RegisteredBy
<1>4. cleared \in Links(Object) /\ cleared[x] = NULL /\ x # NULL /\ x \in Object
      /\ \A y \in Object \ {x} : cleared[y] = nxt[y]
  BY SameHeads DEF Links
<1>5. TP!WalkHangs(r, x) <=> looped /\ x \notin Range(s)
  BY <1>2 DEF TP!WalkHangs, TP!ToSet, Range
<1>6. s \in Seq(Object) /\ \A y \in Range(s) : y \in Object
  <2>1. Len(s) \in Nat /\ s = [k \in 1 .. Len(s) |-> s[k]] /\ \A k \in 1 .. Len(s) : s[k] \in Object
    BY <1>1, LenProperties, ElementOfSeq
  <2>2. s \in Seq(Object)
    BY <2>1
  <2>3. CASE s = <<>>
    BY <2>2, <2>3 DEF Range
  <2>4. CASE s # <<>>
    BY <2>2, <2>4, LastOf
  <2> QED BY <2>2, <2>3, <2>4
<1> HIDE DEF cleared
<1>7. ASSUME x \notin Range(s)
      PROVE  Goal
  <2>1. \A y \in Range(s) : cleared[y] = nxt[y]
    BY <1>4, <1>6, <1>7
  <2>2. IsChain(cleared, start, s, looped)
    BY <1>1, <2>1, ChainSame
  <2>3. /\ Endless(cleared, start) = looped /\ Walk(cleared, start) = s
        /\ Registered(cleared, start, S)
        /\ s # <<>> => TailOf(cleared, start) = s[Len(s)]
    BY <1>1, <1>4, <2>2, RegisteredBy
  <2>4. RegistryOf(cleared, start) = r
    BY <1>2, <2>3 DEF RegistryOf
  <2>5. TP!Register(r, x) = [chain |-> Append(s, x), looped |-> FALSE]
    BY <1>2, <1>7 DEF TP!Register, TP!ToSet, Range
  <2>6. Append(s, x) \in Seq(S) /\ IsInjective(Append(s, x))
    <3>1. TP!IsInjective(s) /\ x \notin TP!Range(s)
      BY <1>1, <1>7, SameInjective DEF TP!Range, Range
    <3>2. Append(s, x) \in Seq(S) /\ TP!IsInjective(Append(s, x))
      BY <1>1, <3>1, Assumed, TP!AppendInjective1
    <3> QED BY <3>2, SameInjective
  <2>7. CASE s = <<>>
    <3>1. start = NULL /\ n = cleared /\ head = x
      BY <1>3, <2>7
    <3>2. looped = FALSE
      BY <1>1, <2>7 DEF IsChain
    <3>3. IsChain(cleared, x, Append(s, x), FALSE)
      BY <1>4, <1>1, <1>6, <1>7, <2>2, <2>7, <3>2, ChainAppend
    <3>4. /\ Registered(cleared, x, S)
          /\ Walk(cleared, x) = Append(s, x) /\ Endless(cleared, x) = FALSE
      <4>1. cleared \in Links(Object) /\ FALSE \in BOOLEAN
        BY <1>4
      <4> HIDE DEF Goal
      <4> QED BY <2>6, <3>3, <4>1, RegisteredBy
    <3>5. Registered(n, head, S) /\ RegistryOf(n, head) = TP!Register(r, x)
      BY <2>5, <3>1, <3>4 DEF RegistryOf
    <3> QED BY <1>4, <1>5, <3>1, <3>2, <3>5
  <2>8. CASE s # <<>> /\ looped
    <3>1. TP!WalkHangs(r, x) /\ start # NULL /\ Endless(cleared, start)
      BY <1>1, <1>3, <1>5, <1>7, <2>3, <2>8
    <3>2. n = [cleared EXCEPT ![s[Len(s)]] = x]
      BY <2>3, <2>8, <3>1 DEF Behind
    <3>3. s[Len(s)] \in S
      BY <1>1, <2>8, LastOf
    <3>4. \A y \in Object \ S : n[y] = nxt[y]
      BY <1>4, <3>2, <3>3 DEF Links
    <3> QED BY <2>3, <2>4, <3>1, <3>4
  <2>9. CASE s # <<>> /\ ~looped
    <3>1. looped = FALSE /\ start # NULL /\ ~Endless(cleared, start) /\ ~TP!WalkHangs(r, x)
      BY <1>1, <1>3, <1>5, <2>3, <2>9
    <3>2. n = [cleared EXCEPT ![s[Len(s)]] = x] /\ head = start
      BY <2>3, <2>9, <3>1 DEF Behind
    <3>3. s[Len(s)] \in S
      BY <1>1, <2>9, LastOf
    <3>4. n \in Links(Object) /\ \A y \in Object \ S : n[y] = nxt[y]
      BY <1>4, <3>2, <3>3 DEF Links
    <3> HIDE DEF n, head
    <3>5. IsChain(cleared, start, s, FALSE)
      BY <2>2, <3>1
    <3>6. IsChain(n, start, Append(s, x), FALSE)
      BY <1>1, <1>4, <1>6, <1>7, <2>9, <3>2, <3>5, ChainAppend
    <3>7. /\ Registered(n, start, S)
          /\ Walk(n, start) = Append(s, x) /\ Endless(n, start) = FALSE
      BY <2>6, <3>4, <3>6, RegisteredBy
    <3>8. Registered(n, head, S) /\ RegistryOf(n, head) = TP!Register(r, x)
      BY <2>5, <3>2, <3>7 DEF RegistryOf
    <3> QED BY <3>1, <3>4, <3>8
  <2> QED BY <2>7, <2>8, <2>9
<1>8. ASSUME x \in Range(s)
      PROVE  Goal
  <2> DEFINE p == TP!Position(s, x)
             c == Cut(s, p)
  <2>1. p \in 1 .. Len(s) /\ s[p] = x
    <3>1. DOMAIN s = 1 .. Len(s)
      BY <1>1, LenProperties
    <3> QED BY <1>8, <3>1 DEF TP!Position, Range
  <2>2. s # <<>> /\ start # NULL
    BY <1>3, <1>8 DEF Range
  <2>3. TP!Register(r, x) = [chain |-> c, looped |-> TRUE]
    BY <1>2, <1>8 DEF TP!Register, TP!ToSet, Range, Cut
  <2> HIDE DEF p, c
  <2>4. /\ IsInjective(c) /\ c # <<>> /\ Len(c) = p /\ c[p] = x
        /\ IsChain([nxt EXCEPT ![s[p]] = NULL], start, c, FALSE)
        /\ IsChain([nxt EXCEPT ![s[p]] = s[p]], start, c, TRUE)
    <3>1. /\ IsInjective(c) /\ c # <<>> /\ Len(c) = p /\ c[p] = s[p]
          /\ IsChain([nxt EXCEPT ![s[p]] = NULL], start, c, FALSE)
          /\ IsChain([nxt EXCEPT ![s[p]] = s[p]], start, c, TRUE)
      <4>1. /\ s \in Seq(Object) /\ IsInjective(s) /\ looped \in BOOLEAN
            /\ IsChain(nxt, start, s, looped) /\ p \in 1 .. Len(s)
        BY <1>1, <1>6, <2>1
      <4> HIDE DEF Goal, n, head, c
      <4>2. IsInjective(c) /\ c # <<>> /\ Len(c) = p /\ c[p] = s[p]
        BY <4>1, CutOf DEF c
      <4>3. IsChain([nxt EXCEPT ![s[p]] = NULL], start, c, FALSE)
        BY <4>1, ChainCut DEF c
      <4>4. IsChain([nxt EXCEPT ![s[p]] = s[p]], start, c, TRUE)
        BY <4>1, ChainCut DEF c
      <4> QED BY <4>2, <4>3, <4>4
    <3> QED BY <2>1, <3>1
  <2>5. c \in Seq(S)
    <3>1. s \in Seq(S) /\ IsInjective(s) /\ p \in 1 .. Len(s)
      BY <1>1, <2>1
    <3> QED BY <3>1, CutOf DEF c
  <2>6. cleared = [nxt EXCEPT ![s[p]] = NULL]
    BY <2>1 DEF cleared
  <2>7. IsChain(cleared, start, c, FALSE)
    BY <2>4, <2>6
  <2>8. Endless(cleared, start) = FALSE /\ TailOf(cleared, start) = x
    <3>1. cleared \in Links(Object) /\ FALSE \in BOOLEAN
      BY <1>4
    <3> HIDE DEF Goal
    <3>2. Endless(cleared, start) = FALSE /\ TailOf(cleared, start) = c[Len(c)]
      BY <2>4, <2>5, <2>7, <3>1, RegisteredBy
    <3> QED BY <2>4, <3>2
  <2>9. n = [cleared EXCEPT ![x] = x] /\ head = start
    BY <2>2, <2>8 DEF Behind
  <2>10. n \in Links(Object) /\ \A y \in Object \ S : n[y] = nxt[y]
    <3> HIDE DEF n, head, Goal
    <3> QED BY <1>4, <2>9 DEF Links
  <2>11. n = [nxt EXCEPT ![s[p]] = s[p]]
    BY <1>4, <2>1, <2>9 DEF Links, cleared
  <2> HIDE DEF n, head
  <2>12. IsChain(n, start, c, TRUE)
    BY <2>4, <2>11
  <2>13. /\ Registered(n, start, S)
         /\ Walk(n, start) = c /\ Endless(n, start) = TRUE
    BY <2>4, <2>5, <2>10, <2>12, RegisteredBy
  <2>14. Registered(n, head, S) /\ RegistryOf(n, head) = TP!Register(r, x)
    BY <2>3, <2>9, <2>13 DEF RegistryOf
  <2> QED BY <1>5, <1>8, <2>8, <2>10, <2>14
<1>9. Goal
  BY <1>7, <1>8
<1>10. cleared \in Links(Object) /\ \A y \in Object \ S : cleared[y] = nxt[y]
  BY <1>4
<1> QED BY <1>9, <1>10 DEF cleared, r, RegisterOutcome

-----------------------------------------------------------------------------
(* The invariant: the pointers make lists and registries, and those satisfy  *)
(* the invariant of Threads.                                                 *)

ListsSound ==
    /\ Represents(first, next, lists, Active(initialized), heap)
    /\ terList \in ExistenceRecords
    /\ nextObject \in Links(Object)
    /\ Registered(nextObject, mutexListHead, Mutex)
    /\ Registered(nextObject, condListHead, Cond)

PInv == ListsSound /\ TP!Inv

LEMMA RepresentsFewer ==
  ASSUME NEW fst, NEW nxt, NEW l, NEW H, NEW A, Represents(fst, nxt, l, H, A),
         NEW B, B \subseteq A
  PROVE  Represents(fst, nxt, l, H, B)
BY DEF Represents

\* A thread that is on no list is allocated.
LEMMA RepresentsMore ==
  ASSUME NEW fst, NEW nxt, NEW l, NEW H, NEW A, Represents(fst, nxt, l, H, A),
         NEW t \in TCB, \A g \in ListHead : t \notin TP!Elems(l, g)
  PROVE  LET n == [nxt EXCEPT ![t] = NULL]
         IN  Represents(fst, n, l, H, A \cup {t}) /\ n[t] = NULL
<1> DEFINE n == [nxt EXCEPT ![t] = NULL]
<1>1. /\ nxt \in Links(TCB) /\ l \in TP!Lists /\ A \subseteq TCB /\ H \subseteq ListHead
  BY DEF Represents
<1>2. n \in Links(TCB) /\ n[t] = NULL /\ \A u \in TCB \ {t} : n[u] = nxt[u]
  BY <1>1 DEF Links
<1> HIDE DEF n
<1>3. ASSUME NEW h \in H PROVE IsChain(n, fst[h], l[h], FALSE)
  <2>1. h \in ListHead /\ l[h] \in Seq(TCB) /\ IsChain(nxt, fst[h], l[h], FALSE)
    BY <1>1, SameHeads DEF Represents, TP!Lists
  <2>2. TP!Elems(l, h) \subseteq TCB
    BY <1>1, <2>1, Assumed, SameHeads, TP!EmptyElems
  <2>3. \A u \in Range(l[h]) : n[u] = nxt[u]
    BY <1>2, <2>1, <2>2, ElemsIs
  <2> QED BY <2>1, <2>3, ChainSame
<1>4. ASSUME NEW u \in A \cup {t}, \A g \in ListHead : u \notin TP!Elems(l, g) PROVE n[u] = NULL
  BY <1>1, <1>2, <1>4 DEF Represents
<1>5. Represents(fst, n, l, H, A \cup {t})
  BY <1>1, <1>2, <1>3, <1>4 DEF Represents
<1> QED BY <1>2, <1>5 DEF n

\* x is initialised, with nobody queued on it.
LEMMA RepresentsEmpty ==
  ASSUME NEW fst, NEW nxt, NEW l, NEW ini, NEW A, Represents(fst, nxt, l, Active(ini), A),
         NEW x \in Object, x \notin ini \/ fst[x] = NULL
  PROVE  LET f == [fst EXCEPT ![x] = NULL]
         IN  /\ Represents(f, nxt, l, Active(ini), A)
             /\ Represents(f, nxt, l, Active(ini \cup {x}), A)
<1> DEFINE f == [fst EXCEPT ![x] = NULL]
<1>1. /\ fst \in [ListHead -> TCB \cup {NULL}] /\ l \in TP!Lists /\ x \in ListHead
      /\ Active(ini) \subseteq ListHead
  BY SameHeads DEF Represents
<1>2. f \in [ListHead -> TCB \cup {NULL}] /\ f[x] = NULL /\ \A h \in ListHead \ {x} : f[h] = fst[h]
  BY <1>1
<1> HIDE DEF f
<1>3. l[x] = <<>>
  <2>1. CASE x \notin ini
    <3>1. x \in ListHead \ Active(ini)
      BY <1>1, <2>1, SameHeads DEF Active
    <3> QED BY <3>1 DEF Represents
  <2>2. CASE x \in ini /\ fst[x] = NULL
    <3>1. x \in Active(ini)
      BY <2>2 DEF Active
    <3> QED BY <2>2, <3>1, OneList
  <2> QED BY <2>1, <2>2
<1>4. IsChain(nxt, f[x], l[x], FALSE)
  BY <1>2, <1>3 DEF IsChain
<1>5. \A h \in Active(ini) : IsChain(nxt, f[h], l[h], FALSE)
  BY <1>1, <1>2, <1>4 DEF Represents
<1>6. Active(ini \cup {x}) = Active(ini) \cup {x}
  BY DEF Active
<1>7. Represents(f, nxt, l, Active(ini), A)
  BY <1>2, <1>5 DEF Represents
<1>8. Represents(f, nxt, l, Active(ini) \cup {x}, A)
  BY <1>1, <1>2, <1>4, <1>5 DEF Represents
<1> QED BY <1>6, <1>7, <1>8 DEF f

\* The first of several leads to the second.
LEMMA NextOfFirst ==
  ASSUME NEW fst, NEW nxt, NEW l, NEW H, NEW A, Represents(fst, nxt, l, H, A), NEW h \in H,
         l[h] # <<>>
  PROVE  /\ nxt[fst[h]] = NULL <=> Len(l[h]) = 1
         /\ nxt[fst[h]] # NULL <=> Len(l[h]) > 1
<1> DEFINE s == l[h]
<1>1. /\ s \in Seq(TCB) /\ s # <<>> /\ fst[h] = s[1] /\ NULL \notin TCB
      /\ IsChain(nxt, fst[h], s, FALSE)
  <2>1. s \in Seq(TCB) /\ fst[h] = s[1]
    BY OneList
  <2>2. IsChain(nxt, fst[h], s, FALSE)
    BY DEF Represents
  <2> QED BY <2>1, <2>2, SameHeads
<1> HIDE DEF s
<1>2. /\ \E n \in Nat : n = Len(s) /\ n >= 1
      /\ \A k \in 1 .. Len(s) : s[k] \in TCB
  BY <1>1, LastOf
<1>3. CASE Len(s) = 1
  BY <1>1, <1>3 DEF IsChain, s
<1>4. CASE Len(s) # 1
  <2>1. 1 \in 1 .. Len(s) - 1 /\ 1 + 1 \in 1 .. Len(s) /\ Len(s) > 1
    <3>1. PICK n \in Nat : n = Len(s) /\ n >= 1
      BY <1>2
    <3>2. n # 1
      BY <1>4, <3>1
    <3>3. 1 \in 1 .. n - 1 /\ 1 + 1 \in 1 .. n /\ n > 1
      BY <3>1, <3>2
    <3> QED BY <3>1, <3>3
  <2>2. nxt[s[1]] = s[1 + 1]
    BY <1>1, <2>1 DEF IsChain
  <2> QED BY <1>1, <1>2, <1>4, <2>1, <2>2 DEF s
<1> QED BY <1>3, <1>4

\* Lists that the new pointers make are the lists of the next state.
LEMMA NewLists ==
  ASSUME NEW L, NEW A, Represents(first', next', L, Active(initialized'), A), heap' \subseteq A
  PROVE  /\ lists' = L
         /\ Represents(first, next, lists, Active(initialized), heap)'
<1>1. lists' = L
  <2>1. L = [h \in ListHead |-> IF h \in Object \ initialized' THEN <<>>
                                ELSE Walk(next', first'[h])]
    BY Mapped
  <2> QED BY <2>1 DEF lists
<1>2. Represents(first', next', L, Active(initialized'), heap')
  BY RepresentsFewer
<1>3. Represents(first, next, lists, Active(initialized), heap)'
      = Represents(first', next', lists', Active(initialized'), heap')
  BY DEF Represents, Active
<1> QED BY <1>1, <1>2, <1>3

\* Most calls leave the registries alone.
LEMMA SoundNext ==
  ASSUME ListsSound, UNCHANGED <<mutexListHead, condListHead, nextObject>>,
         NEW L, NEW A, Represents(first', next', L, Active(initialized'), A), heap' \subseteq A,
         terList' \in ExistenceRecords
  PROVE  ListsSound' /\ lists' = L
<1>1. lists' = L /\ Represents(first, next, lists, Active(initialized), heap)'
  BY NewLists
<1>2. Registered(nextObject, mutexListHead, Mutex)' /\ Registered(nextObject, condListHead, Cond)'
      /\ (nextObject \in Links(Object))'
  BY DEF ListsSound, Registered
<1> QED BY <1>1, <1>2 DEF ListsSound

LEMMA RegistriesKept ==
  ASSUME UNCHANGED registryVars
  PROVE  UNCHANGED TP!registryVars
BY DEF registryVars, TP!registryVars, Registry

LEMMA RecordsKept ==
  ASSUME terList' = terList
  PROVE  newestRecords' = newestRecords
BY RecordIs

LEMMA ThreadsKept ==
  ASSUME UNCHANGED threadVars
  PROVE  UNCHANGED TP!threadVars
BY RecordsKept DEF threadVars, TP!threadVars

\* The running thread, seen in both.
LEMMA SelfIs ==
  ASSUME PInv, status = "running"
  PROVE  /\ Represents(first, next, lists, Active(initialized), heap)
         /\ readyQueue \in Active(initialized) /\ joiningList \in Active(initialized)
         /\ \A x \in Object \cap initialized : x \in Active(initialized)
         /\ lists \in TP!Lists /\ TP!OnePlace(lists) /\ lists[readyQueue] # <<>>
         /\ thread_self = TP!thread_self /\ thread_self \in TCB /\ thread_self \in TP!Live
         /\ first[readyQueue] = thread_self /\ thread_self # NULL
         /\ readyQueueLength = TP!readyQueueLength
         /\ NotAlone <=> TP!readyQueueLength > 1
<1>1. Represents(first, next, lists, Active(initialized), heap)
  BY DEF PInv, ListsSound
<1>2. readyQueue \in Active(initialized) /\ joiningList \in Active(initialized)
      /\ \A x \in Object \cap initialized : x \in Active(initialized)
  BY DEF Active
<1>3. /\ lists \in TP!Lists /\ TP!OnePlace(lists) /\ lists[readyQueue] # <<>>
      /\ TP!thread_self \in TCB /\ TP!thread_self \in TP!Live
  BY Assumed, TP!SelfFacts DEF PInv
<1>4. first[readyQueue] = Head(lists[readyQueue])
      /\ Walk(next, first[readyQueue]) = lists[readyQueue]
  BY <1>1, <1>2, <1>3, OneList
<1>5. thread_self = TP!thread_self /\ first[readyQueue] = thread_self
  BY <1>4 DEF thread_self, TP!thread_self
<1>6. readyQueueLength = TP!readyQueueLength
  BY <1>4, <1>5 DEF readyQueueLength, TP!readyQueueLength
<1>7. next[first[readyQueue]] # NULL <=> Len(lists[readyQueue]) > 1
  BY <1>1, <1>2, <1>3, NextOfFirst
<1>8. NotAlone <=> TP!readyQueueLength > 1
  BY <1>5, <1>7 DEF NotAlone, TP!readyQueueLength
<1> QED BY <1>1, <1>2, <1>3, <1>5, <1>6, <1>8, SameHeads

\* The running thread is moved to the end of list h.
LEMMA BlocksMoves ==
  ASSUME NEW fst, NEW nxt, NEW l, NEW H, NEW A, Represents(fst, nxt, l, H, A),
         readyQueue \in H, NEW h \in H, l[readyQueue] # <<>>, fst[readyQueue] = thread_self
  PROVE  LET b == Blocks(fst, nxt, h)
         IN  Represents(b[1], b[2], TP!Move(l, readyQueue, h), H, A)
<1>1. LET t == fst[readyQueue]
          a == Appended([fst EXCEPT ![readyQueue] = nxt[t]], [nxt EXCEPT ![t] = NULL], h, t)
      IN  Represents(a[1], a[2], TP!Move(l, readyQueue, h), H, A)
  BY RepresentsMove
<1> QED BY <1>1 DEF Blocks

-----------------------------------------------------------------------------
(* Every action is the one of that name in Threads.                          *)

LEMMA CreateMaps ==
  ASSUME PInv, thread_create
  PROVE  TP!thread_create /\ ListsSound'
<1>1. PICK t \in TCB \ heap :
        /\ status = "running"
        /\ next' = Behind([next EXCEPT ![t] = NULL], first[readyQueue], t)
        /\ waitingThread' = [waitingThread EXCEPT ![t] = NULL]
        /\ condVarMutex' = [condVarMutex EXCEPT ![t] = NULL]
        /\ terList' = <<[tid |-> t, terminated |-> FALSE]>> \o terList
        /\ heap' = heap \cup {t}
        /\ UNCHANGED <<first, waitingForCleanup, owner, registryVars, status>>
  BY DEF thread_create
<1>2. /\ Represents(first, next, lists, Active(initialized), heap)
      /\ readyQueue \in Active(initialized) /\ first[readyQueue] # NULL
  BY <1>1, SelfIs
<1>3. \A g \in ListHead : t \notin TP!Elems(lists, g)
  <2>1. TP!Listed(lists) = TP!Live /\ TP!Live \subseteq heap
    BY DEF PInv, TP!Inv, TP!ThreadInv, TP!Placement, TP!HeapExact
  <2> QED BY <1>1, <2>1, SameHeads DEF TP!Listed
<1> DEFINE n == [next EXCEPT ![t] = NULL]
           L == TP!Push(lists, readyQueue, t)
<1>4. Represents(first, n, lists, Active(initialized), heap \cup {t}) /\ n[t] = NULL
  BY <1>2, <1>3, RepresentsMore
<1> HIDE DEF n
<1>5. LET a == Appended(first, n, readyQueue, t)
      IN  Represents(a[1], a[2], L, Active(initialized), heap \cup {t})
  BY <1>2, <1>3, <1>4, RepresentsPush
<1>6. Appended(first, n, readyQueue, t) = <<first', next'>>
  BY <1>1, <1>2 DEF Appended, n
<1>7. Represents(first', next', L, Active(initialized'), heap \cup {t})
  <2>1. initialized' = initialized
    BY <1>1 DEF registryVars
  <2> QED BY <1>5, <1>6, <2>1
<1>8. /\ terList' \in ExistenceRecords
      /\ \A u \in TCB : RecordIn(terList', u) = IF u = t THEN "alive" ELSE RecordIn(terList, u)
  BY <1>1, RecordAdded DEF PInv, ListsSound
<1>9. newestRecords' = [newestRecords EXCEPT ![t] = "alive"]
  BY <1>8, RecordIs
<1>10. ListsSound' /\ lists' = L
  <2>1. UNCHANGED <<mutexListHead, condListHead, nextObject>> /\ heap' \subseteq heap \cup {t}
    BY <1>1 DEF registryVars
  <2> HIDE DEF L
  <2> QED BY <1>7, <1>8, <2>1, SoundNext DEF PInv
<1>11. UNCHANGED TP!registryVars
  BY <1>1, RegistriesKept
<1>12. TP!thread_create
  BY <1>1, <1>9, <1>10, <1>11 DEF TP!thread_create
<1> QED BY <1>10, <1>12

LEMMA YieldMaps ==
  ASSUME PInv, thread_yield
  PROVE  TP!thread_yield /\ ListsSound'
<1>1. /\ status = "running"
      /\ NotAlone
      /\ first' = [first EXCEPT ![readyQueue] = next[thread_self]]
      /\ next' = Behind([next EXCEPT ![thread_self] = NULL], next[thread_self], thread_self)
      /\ UNCHANGED <<threadVars, condVarMutex, owner, registryVars, status>>
  BY DEF thread_yield
<1>2. /\ Represents(first, next, lists, Active(initialized), heap)
      /\ readyQueue \in Active(initialized) /\ lists[readyQueue] # <<>>
      /\ first[readyQueue] = thread_self /\ TP!readyQueueLength > 1
  BY <1>1, SelfIs
<1> DEFINE L == TP!Move(lists, readyQueue, readyQueue)
<1>3. LET b == Blocks(first, next, readyQueue)
      IN  Represents(b[1], b[2], L, Active(initialized), heap)
  BY <1>2, BlocksMoves
<1>4. Blocks(first, next, readyQueue) = <<first', next'>>
  <2>1. first \in [ListHead -> TCB \cup {NULL}] /\ readyQueue \in ListHead
    BY <1>2, SameHeads DEF Represents
  <2> DEFINE f == [first EXCEPT ![readyQueue] = next[thread_self]]
  <2>2. f[readyQueue] = next[thread_self] /\ next[thread_self] # NULL
    BY <1>1, <2>1 DEF NotAlone
  <2> HIDE DEF f
  <2>3. Appended(f, [next EXCEPT ![thread_self] = NULL], readyQueue, thread_self)
        = <<f, Behind([next EXCEPT ![thread_self] = NULL], next[thread_self], thread_self)>>
    BY <2>2 DEF Appended
  <2> QED BY <1>1, <2>3 DEF Blocks, f
<1>5. Represents(first', next', L, Active(initialized'), heap)
  <2>1. initialized' = initialized
    BY <1>1 DEF registryVars
  <2> QED BY <1>3, <1>4, <2>1
<1>6. ListsSound' /\ lists' = L
  <2>1. /\ UNCHANGED <<mutexListHead, condListHead, nextObject>> /\ heap' \subseteq heap
        /\ terList' \in ExistenceRecords
    BY <1>1 DEF registryVars, threadVars, PInv, ListsSound
  <2> HIDE DEF L
  <2> QED BY <1>5, <2>1, SoundNext DEF PInv
<1>7. UNCHANGED TP!registryVars /\ UNCHANGED TP!threadVars
  BY <1>1, RegistriesKept, ThreadsKept
<1>8. TP!thread_yield
  BY <1>1, <1>2, <1>6, <1>7 DEF TP!thread_yield
<1> QED BY <1>6, <1>8

LEMMA JoinMaps ==
  ASSUME PInv, thread_join
  PROVE  TP!thread_join /\ ListsSound'
<1>1. PICK t \in TCB :
        /\ status = "running"
        /\ isThreadAlive(t)
        /\ t # thread_self
        /\ waitingThread[t] = NULL
        /\ waitingThread[thread_self] # t
        /\ readyQueueLength # 1
        /\ Lists(Blocks(first, next, joiningList))
        /\ waitingThread' = [waitingThread EXCEPT ![t] = thread_self]
        /\ UNCHANGED <<terList, heap, waitingForCleanup, condVarMutex, owner,
                       registryVars, status>>
  BY DEF thread_join
<1>2. /\ Represents(first, next, lists, Active(initialized), heap)
      /\ readyQueue \in Active(initialized) /\ joiningList \in Active(initialized)
      /\ lists[readyQueue] # <<>> /\ first[readyQueue] = thread_self
      /\ readyQueueLength = TP!readyQueueLength /\ thread_self = TP!thread_self
  BY <1>1, SelfIs
<1> DEFINE L == TP!Move(lists, readyQueue, joiningList)
<1>3. LET b == Blocks(first, next, joiningList)
      IN  Represents(b[1], b[2], L, Active(initialized), heap)
  BY <1>2, BlocksMoves
<1>4. Represents(first', next', L, Active(initialized'), heap)
  <2>1. initialized' = initialized
    BY <1>1 DEF registryVars
  <2> QED BY <1>1, <1>3, <2>1 DEF Lists
<1>5. ListsSound' /\ lists' = L
  <2>1. /\ UNCHANGED <<mutexListHead, condListHead, nextObject>> /\ heap' \subseteq heap
        /\ terList' \in ExistenceRecords
    BY <1>1 DEF registryVars, PInv, ListsSound
  <2> HIDE DEF L
  <2> QED BY <1>4, <2>1, SoundNext DEF PInv
<1>6. UNCHANGED TP!registryVars
  BY <1>1, RegistriesKept
<1>7. newestRecords' = newestRecords
  BY <1>1, RecordsKept
<1>8. ~TP!JoinRefused(t)
  <2>1. TP!isThreadAlive(t)
    BY <1>1, AliveIs
  <2> QED BY <1>1, <1>2, <2>1 DEF TP!JoinRefused
<1>9. TP!thread_join
  BY <1>1, <1>2, <1>5, <1>6, <1>7, <1>8 DEF TP!thread_join
<1> QED BY <1>5, <1>9

LEMMA CleanupMaps ==
  ASSUME PInv, cleanup
  PROVE  TP!cleanup /\ ListsSound'
<1> DEFINE self == thread_self
           w == waitingThread[self]
           awoken == wakeupThread(w)
           W == TP!wakeupThread(lists, w)
           L == TP!Pop(W, readyQueue)
<1>1. /\ status = "running"
      /\ self # Main
      /\ ExitHolding \/ \A m \in Mutex \cap initialized : owner[m] # self
      /\ UNCHANGED <<condVarMutex, owner, registryVars>>
  BY DEF cleanup
<1>2. /\ Represents(first, next, lists, Active(initialized), heap)
      /\ readyQueue \in Active(initialized) /\ joiningList \in Active(initialized)
      /\ lists \in TP!Lists /\ TP!OnePlace(lists) /\ lists[readyQueue] # <<>>
      /\ self = TP!thread_self /\ self \in TCB /\ self \in TP!Live
      /\ first[readyQueue] = self
  BY <1>1, SelfIs
<1>3. w \in TP!Elems(lists, joiningList) \cup {NULL}
  BY <1>2 DEF PInv, TP!Inv, TP!ThreadInv, TP!JoinersListed
<1>4. /\ w # NULL => Joining(w)
      /\ Represents(awoken[1], awoken[2], W, Active(initialized), heap)
  <2>1. CASE w = NULL
    BY <1>2, <2>1 DEF wakeupThread, TP!wakeupThread
  <2>2. CASE w # NULL
    <3>1. w \in TP!Elems(lists, joiningList)
      BY <1>3, <2>2
    <3> HIDE DEF w
    <3> QED BY <1>2, <3>1, RepresentsWake
  <2> QED BY <2>1, <2>2
<1>5. W[readyQueue] # <<>> /\ awoken[1][readyQueue] = self
  <2>1. W[readyQueue] # <<>> /\ Head(W[readyQueue]) = Head(lists[readyQueue])
    <3> HIDE DEF w
    <3> QED BY <1>2, <1>3, Assumed, TP!WakeLemma
  <2> HIDE DEF W, awoken
  <2>2. awoken[1][readyQueue] = Head(W[readyQueue])
    BY <1>2, <1>4, <2>1, OneList
  <2>3. first[readyQueue] = Head(lists[readyQueue])
    BY <1>2, OneList
  <2> QED BY <1>2, <2>1, <2>2, <2>3
<1>6. /\ first' = [awoken[1] EXCEPT ![readyQueue] = awoken[2][self]]
      /\ next' = [awoken[2] EXCEPT ![self] = NULL]
      /\ terList' = [terList EXCEPT ![findTER(self)].terminated = TRUE]
      /\ heap' = heap \ {waitingForCleanup}
      /\ waitingForCleanup' = self
      /\ status' = IF first'[readyQueue] = NULL THEN "crashed" ELSE status
      /\ UNCHANGED waitingThread
  BY <1>4 DEF cleanup
<1> HIDE DEF awoken, W, w
<1>7. Represents(first', next', L, Active(initialized'), heap)
  <2>1. initialized' = initialized
    BY <1>1 DEF registryVars
  <2>2. LET t == awoken[1][readyQueue]
        IN  Represents([awoken[1] EXCEPT ![readyQueue] = awoken[2][t]],
                       [awoken[2] EXCEPT ![t] = NULL], L, Active(initialized), heap)
    BY <1>2, <1>4, <1>5, RepresentsPop
  <2> HIDE DEF L
  <2> QED BY <1>5, <1>6, <2>1, <2>2
<1>8. /\ terList' \in ExistenceRecords
      /\ newestRecords' = [newestRecords EXCEPT ![self] = "terminated"]
  <2>1. RecordIn(terList, self) = "alive" /\ terList \in ExistenceRecords
    BY <1>2, RecordIs DEF TP!Live, TP!isThreadAlive, PInv, ListsSound
  <2>2. RecordsIn(terList, self) # {}
    BY <2>1 DEF RecordIn
  <2>3. findTER(self) = Min(RecordsIn(terList, self))
    BY DEF findTER, Records, RecordsIn
  <2>4. /\ terList' \in ExistenceRecords
        /\ \A u \in TCB :
               RecordIn(terList', u) = IF u = self THEN "terminated" ELSE RecordIn(terList, u)
    <3> HIDE DEF self
    <3>1. terList' = [terList EXCEPT ![Min(RecordsIn(terList, self))].terminated = TRUE]
      BY <1>6, <2>3
    <3>2. self \in TCB
      BY <1>2
    <3> QED BY <2>1, <2>2, <3>1, <3>2, RecordMarked
  <2> HIDE DEF self
  <2> QED BY <2>4, RecordIs
<1>9. ListsSound' /\ lists' = L
  <2>1. UNCHANGED <<mutexListHead, condListHead, nextObject>> /\ heap' \subseteq heap
    BY <1>1, <1>6 DEF registryVars
  <2> HIDE DEF L
  <2> QED BY <1>7, <1>8, <2>1, SoundNext DEF PInv
<1>10. lists'[readyQueue] = <<>> <=> first'[readyQueue] = NULL
  <2>1. readyQueue \in Active(initialized')
    BY DEF Active
  <2> HIDE DEF L
  <2> QED BY <1>7, <1>9, <2>1, OneList
<1>11. UNCHANGED TP!registryVars
  BY <1>1, RegistriesKept
<1>12. ExitHolding \/ TP!Owns(self) = {}
  BY <1>1 DEF TP!Owns
<1>13. TP!cleanup
  <2>1. TP!thread_self = self /\ waitingThread[self] = w
    BY <1>2 DEF w
  <2>2. status' = IF \/ w \notin TP!Elems(lists, joiningList) \cup {NULL}
                     \/ lists'[readyQueue] = <<>>
                  THEN "crashed" ELSE status
    BY <1>3, <1>6, <1>10
  <2>3. lists' = TP!Pop(TP!wakeupThread(lists, w), readyQueue)
    BY <1>9 DEF W
  <2> HIDE DEF self
  <2> QED BY <1>1, <1>6, <1>8, <1>11, <1>12, <2>1, <2>2, <2>3 DEF TP!cleanup, TP!StillAllocated
<1> QED BY <1>9, <1>13

LEMMA MainReturnsMaps ==
  ASSUME PInv, MainReturns
  PROVE  TP!MainReturns /\ ListsSound'
<1>1. /\ status = "running" /\ thread_self = Main /\ status' = "exited"
      /\ UNCHANGED <<first, next, threadVars, condVarMutex, owner, registryVars>>
  BY DEF MainReturns
<1>2. ListsSound' /\ lists' = lists
  <2>1. /\ UNCHANGED <<mutexListHead, condListHead, nextObject>> /\ heap' \subseteq heap
        /\ terList' \in ExistenceRecords
        /\ Represents(first', next', lists, Active(initialized'), heap)
    BY <1>1 DEF registryVars, threadVars, PInv, ListsSound
  <2> QED BY <2>1, SoundNext DEF PInv
<1>3. UNCHANGED TP!registryVars /\ UNCHANGED TP!threadVars
  BY <1>1, RegistriesKept, ThreadsKept
<1>4. TP!thread_self = Main
  BY <1>1, SelfIs
<1>5. TP!MainReturns
  BY <1>1, <1>2, <1>3, <1>4 DEF TP!MainReturns
<1> QED BY <1>2, <1>5

LEMMA LockMaps ==
  ASSUME PInv, thread_mutex_lock
  PROVE  TP!thread_mutex_lock /\ ListsSound'
<1>1. PICK m \in Mutex \cap initialized :
        /\ status = "running"
        /\ \/ /\ owner[m] = NULL
              /\ owner' = [owner EXCEPT ![m] = thread_self]
              /\ UNCHANGED <<first, next>>
           \/ /\ owner[m] \notin {NULL, thread_self}
              /\ NotAlone
              /\ Lists(Blocks(first, next, m))
              /\ UNCHANGED owner
        /\ UNCHANGED <<threadVars, condVarMutex, registryVars, status>>
  BY DEF thread_mutex_lock
<1>2. /\ Represents(first, next, lists, Active(initialized), heap)
      /\ readyQueue \in Active(initialized) /\ m \in Active(initialized)
      /\ lists[readyQueue] # <<>> /\ first[readyQueue] = thread_self
      /\ thread_self = TP!thread_self /\ (NotAlone <=> TP!readyQueueLength > 1)
  BY <1>1, SelfIs DEF Object
<1>3. UNCHANGED TP!registryVars /\ UNCHANGED TP!threadVars
  BY <1>1, RegistriesKept, ThreadsKept
<1>4. /\ UNCHANGED <<mutexListHead, condListHead, nextObject, initialized>> /\ heap' \subseteq heap
      /\ terList' \in ExistenceRecords
  BY <1>1 DEF registryVars, threadVars, PInv, ListsSound
<1>5. CASE owner[m] = NULL /\ owner' = [owner EXCEPT ![m] = thread_self]
           /\ UNCHANGED <<first, next>>
  <2>1. Represents(first', next', lists, Active(initialized'), heap)
    BY <1>2, <1>4, <1>5
  <2>2. ListsSound' /\ lists' = lists
    BY <1>4, <2>1, SoundNext DEF PInv
  <2>3. TP!thread_mutex_lock
    BY <1>1, <1>2, <1>3, <1>5, <2>2 DEF TP!thread_mutex_lock
  <2> QED BY <2>2, <2>3
<1>6. CASE owner[m] \notin {NULL, thread_self} /\ NotAlone
           /\ Lists(Blocks(first, next, m)) /\ UNCHANGED owner
  <2> DEFINE L == TP!Move(lists, readyQueue, m)
  <2>1. LET b == Blocks(first, next, m)
        IN  Represents(b[1], b[2], L, Active(initialized), heap)
    BY <1>2, BlocksMoves
  <2>2. Represents(first', next', L, Active(initialized'), heap)
    BY <1>4, <1>6, <2>1 DEF Lists
  <2>3. ListsSound' /\ lists' = L
    <3> HIDE DEF L
    <3> QED BY <1>4, <2>2, SoundNext DEF PInv
  <2>4. TP!thread_mutex_lock
    BY <1>1, <1>2, <1>3, <1>6, <2>3 DEF TP!thread_mutex_lock
  <2> QED BY <2>3, <2>4
<1> QED BY <1>1, <1>5, <1>6

\* An unlock of m, alone or within thread_cond_wait.
LEMMA UnlockedMoves ==
  ASSUME PInv, status = "running", NEW m \in Mutex \cap initialized
  PROVE  LET u == Unlocked(m)
             L == TP!UnlockedList(m)
         IN  /\ Represents(u[1], u[2], L, Active(initialized), heap)
             /\ L[readyQueue] # <<>> /\ u[1][readyQueue] = thread_self
             /\ Head(L[readyQueue]) = thread_self
             /\ [owner EXCEPT ![m] = first[m]] = TP!UnlockedOwner(m)
<1>1. /\ Represents(first, next, lists, Active(initialized), heap)
      /\ readyQueue \in Active(initialized) /\ m \in Active(initialized)
      /\ lists[readyQueue] # <<>> /\ first[readyQueue] = thread_self
      /\ lists \in TP!Lists /\ TP!OnePlace(lists) /\ thread_self # NULL
      /\ m \in ListHead /\ m # readyQueue
  BY SelfIs, SameHeads DEF Object
<1>2. first[readyQueue] = Head(lists[readyQueue]) /\ lists[readyQueue] \in Seq(TCB)
  BY <1>1, OneList
<1>3. first[m] = NULL <=> lists[m] = <<>>
  BY <1>1, OneList
<1>4. CASE lists[m] = <<>>
  BY <1>1, <1>2, <1>3, <1>4 DEF Unlocked, TP!UnlockedList, TP!UnlockedOwner
<1>5. CASE lists[m] # <<>>
  <2> DEFINE t == first[m]
             f == [first EXCEPT ![m] = next[t]]
             n == [next EXCEPT ![t] = NULL]
             L == TP!Move(lists, m, readyQueue)
  <2>1. t = Head(lists[m]) /\ t # NULL
    BY <1>1, <1>3, <1>5, OneList
  <2>2. LET a == Appended(f, n, readyQueue, t)
        IN  Represents(a[1], a[2], L, Active(initialized), heap)
    BY <1>1, <1>5, RepresentsMove
  <2>3. f[readyQueue] = first[readyQueue]
    BY <1>1
  <2> HIDE DEF f, n
  <2>4. Appended(f, n, readyQueue, t) = <<f, Behind(n, first[readyQueue], t)>>
    BY <1>1, <2>3 DEF Appended
  <2>5. Unlocked(m) = <<f, Behind(n, first[readyQueue], t)>>
    BY <1>3, <1>5 DEF Unlocked, f, n
  <2>6. TP!UnlockedList(m) = L
    BY <1>5 DEF TP!UnlockedList
  <2>7. L[readyQueue] = Append(lists[readyQueue], t) /\ t \in TCB
    BY <1>1, <1>5, <2>1, Assumed, SameHeads, TP!MoveLemma
  <2> HIDE DEF L, t
  <2>8. L[readyQueue] # <<>> /\ Head(L[readyQueue]) = thread_self
    BY <1>1, <1>2, <2>7, HeadTailAppend, AppendOne
  <2>9. [owner EXCEPT ![m] = first[m]] = TP!UnlockedOwner(m)
    BY <1>5, <2>1 DEF TP!UnlockedOwner, t
  <2> QED BY <1>1, <2>2, <2>3, <2>4, <2>5, <2>6, <2>8, <2>9
<1> QED BY <1>4, <1>5

LEMMA UnlockMaps ==
  ASSUME PInv, thread_mutex_unlock
  PROVE  TP!thread_mutex_unlock /\ ListsSound'
<1>1. PICK m \in Mutex \cap initialized :
        /\ status = "running"
        /\ owner[m] = thread_self
        /\ Lists(Unlocked(m))
        /\ owner' = [owner EXCEPT ![m] = first[m]]
        /\ UNCHANGED <<threadVars, condVarMutex, registryVars, status>>
  BY DEF thread_mutex_unlock, HandsOver
<1> DEFINE L == TP!UnlockedList(m)
<1>2. /\ Represents(Unlocked(m)[1], Unlocked(m)[2], L, Active(initialized), heap)
      /\ owner' = TP!UnlockedOwner(m)
  BY <1>1, UnlockedMoves
<1>3. UNCHANGED TP!registryVars /\ UNCHANGED TP!threadVars
  BY <1>1, RegistriesKept, ThreadsKept
<1>4. /\ UNCHANGED <<mutexListHead, condListHead, nextObject, initialized>> /\ heap' \subseteq heap
      /\ terList' \in ExistenceRecords
  BY <1>1 DEF registryVars, threadVars, PInv, ListsSound
<1>5. Represents(first', next', L, Active(initialized'), heap)
  BY <1>1, <1>2, <1>4 DEF Lists
<1>6. ListsSound' /\ lists' = L
  <2> HIDE DEF L
  <2> QED BY <1>4, <1>5, SoundNext DEF PInv
<1>7. m \in TP!Owns(TP!thread_self)
  <2>1. thread_self = TP!thread_self
    BY <1>1, SelfIs
  <2> QED BY <1>1, <2>1 DEF TP!Owns
<1>8. TP!thread_mutex_unlock
  BY <1>1, <1>2, <1>3, <1>6, <1>7 DEF TP!thread_mutex_unlock
<1> QED BY <1>6, <1>8

LEMMA WaitMaps ==
  ASSUME PInv, thread_cond_wait
  PROVE  TP!thread_cond_wait /\ ListsSound'
<1>1. PICK c \in Cond \cap initialized, m \in Mutex \cap initialized :
        /\ status = "running"
        /\ owner[m] = thread_self
        /\ owner' = [owner EXCEPT ![m] = first[m]]
        /\ IF Unlocked(m)[2][thread_self] = NULL
           THEN Lists(Unlocked(m)) /\ UNCHANGED condVarMutex
           ELSE /\ Lists(Blocks(Unlocked(m)[1], Unlocked(m)[2], c))
                /\ condVarMutex' = [condVarMutex EXCEPT ![thread_self] = m]
        /\ UNCHANGED <<threadVars, registryVars, status>>
  BY DEF thread_cond_wait, HandsOver
<1> DEFINE U == TP!UnlockedList(m)
           f == Unlocked(m)[1]
           n == Unlocked(m)[2]
<1>2. /\ Represents(f, n, U, Active(initialized), heap)
      /\ U[readyQueue] # <<>> /\ f[readyQueue] = thread_self
      /\ owner' = TP!UnlockedOwner(m)
  BY <1>1, UnlockedMoves
<1>3. UNCHANGED TP!registryVars /\ UNCHANGED TP!threadVars
  BY <1>1, RegistriesKept, ThreadsKept
<1>4. /\ UNCHANGED <<mutexListHead, condListHead, nextObject, initialized>> /\ heap' \subseteq heap
      /\ terList' \in ExistenceRecords
  BY <1>1 DEF registryVars, threadVars, PInv, ListsSound
<1>5. thread_self = TP!thread_self /\ m \in TP!Owns(TP!thread_self)
  <2>1. thread_self = TP!thread_self
    BY <1>1, SelfIs
  <2> QED BY <1>1, <2>1 DEF TP!Owns
<1>6. readyQueue \in Active(initialized) /\ c \in Active(initialized)
  BY DEF Active, Object
<1>7. (n[thread_self] = NULL <=> Len(U[readyQueue]) = 1)
      /\ (n[thread_self] # NULL <=> Len(U[readyQueue]) > 1)
  <2> HIDE DEF f, n, U
  <2> QED BY <1>2, <1>6, NextOfFirst
<1>8. CASE n[thread_self] = NULL
  <2>1. Represents(first', next', U, Active(initialized'), heap) /\ UNCHANGED condVarMutex
    BY <1>1, <1>2, <1>4, <1>8 DEF Lists
  <2>2. ListsSound' /\ lists' = U
    <3> HIDE DEF U
    <3> QED BY <1>4, <2>1, SoundNext DEF PInv
  <2>3. TP!thread_cond_wait
    <3>1. Len(U[readyQueue]) = 1
      BY <1>7, <1>8
    <3> QED BY <1>1, <1>2, <1>3, <1>5, <2>1, <2>2, <3>1 DEF TP!thread_cond_wait
  <2> QED BY <2>2, <2>3
<1>9. CASE n[thread_self] # NULL
  <2> DEFINE L == TP!Move(U, readyQueue, c)
  <2>1. Lists(Blocks(f, n, c)) /\ condVarMutex' = [condVarMutex EXCEPT ![thread_self] = m]
    BY <1>1, <1>9
  <2>2. LET b == Blocks(f, n, c)
        IN  Represents(b[1], b[2], L, Active(initialized), heap)
    <3> HIDE DEF f, n, U
    <3> QED BY <1>2, <1>6, BlocksMoves
  <2>3. Represents(first', next', L, Active(initialized'), heap)
    <3> HIDE DEF f, n, U, L
    <3> QED BY <1>4, <2>1, <2>2 DEF Lists
  <2>4. ListsSound' /\ lists' = L
    <3> HIDE DEF L
    <3> QED BY <1>4, <2>3, SoundNext DEF PInv
  <2>5. TP!thread_cond_wait
    <3>1. Len(U[readyQueue]) > 1
      BY <1>7, <1>9
    <3> QED BY <1>1, <1>2, <1>3, <1>5, <2>1, <2>4, <3>1 DEF TP!thread_cond_wait
  <2> QED BY <2>4, <2>5
<1> QED BY <1>8, <1>9

LEMMA SignalMaps ==
  ASSUME PInv, thread_cond_signal
  PROVE  TP!thread_cond_signal /\ ListsSound'
<1>1. PICK c \in Cond \cap initialized :
        /\ status = "running"
        /\ first[c] # NULL
        /\ LET signalledThread == first[c]
               mu == condVarMutex[signalledThread]
               f == [first EXCEPT ![c] = next[signalledThread]]
               n == [next EXCEPT ![signalledThread] = NULL]
           IN  IF owner[mu] = NULL
               THEN /\ owner' = [owner EXCEPT ![mu] = signalledThread]
                    /\ Lists(Appended(f, n, readyQueue, signalledThread))
               ELSE /\ Lists(Appended(f, n, mu, signalledThread))
                    /\ UNCHANGED owner
        /\ UNCHANGED <<threadVars, condVarMutex, registryVars, status>>
  BY DEF thread_cond_signal
<1> DEFINE t == first[c]
           mu == condVarMutex[t]
           f == [first EXCEPT ![c] = next[t]]
           n == [next EXCEPT ![t] = NULL]
<1>2. /\ Represents(first, next, lists, Active(initialized), heap)
      /\ readyQueue \in Active(initialized) /\ c \in Active(initialized)
      /\ \A x \in Object \cap initialized : x \in Active(initialized)
  BY <1>1, SelfIs DEF Object
<1>3. lists[c] # <<>> /\ t = Head(lists[c]) /\ t \in TP!Elems(lists, c)
  BY <1>1, <1>2, OneList
<1>4. mu \in Mutex \cap initialized
  BY <1>3 DEF PInv, TP!Inv, TP!SyncInv, TP!CondWaiters
<1>5. UNCHANGED TP!registryVars /\ UNCHANGED TP!threadVars
  BY <1>1, RegistriesKept, ThreadsKept
<1>6. /\ UNCHANGED <<mutexListHead, condListHead, nextObject, initialized>> /\ heap' \subseteq heap
      /\ terList' \in ExistenceRecords
  BY <1>1 DEF registryVars, threadVars, PInv, ListsSound
<1>7. ASSUME NEW h \in Active(initialized), Lists(Appended(f, n, h, t))
      PROVE  ListsSound' /\ lists' = TP!Move(lists, c, h)
  <2> DEFINE L == TP!Move(lists, c, h)
  <2>1. LET a == Appended(f, n, h, t)
        IN  Represents(a[1], a[2], L, Active(initialized), heap)
    BY <1>2, <1>3, RepresentsMove
  <2>2. Represents(first', next', L, Active(initialized'), heap)
    <3> HIDE DEF f, n, t, L
    <3> QED BY <1>6, <1>7, <2>1 DEF Lists
  <2> HIDE DEF L
  <2>3. ListsSound' /\ lists' = L
    BY <1>6, <2>2, SoundNext DEF PInv
  <2> QED BY <2>3 DEF L
<1>8. CASE owner[mu] = NULL
  <2>1. owner' = [owner EXCEPT ![mu] = t] /\ Lists(Appended(f, n, readyQueue, t))
    BY <1>1, <1>8
  <2>2. ListsSound' /\ lists' = TP!Move(lists, c, readyQueue)
    <3> HIDE DEF f, n, t
    <3> QED BY <1>2, <1>7, <2>1
  <2>3. TP!thread_cond_signal
    BY <1>1, <1>3, <1>5, <1>8, <2>1, <2>2 DEF TP!thread_cond_signal
  <2> QED BY <2>2, <2>3
<1>9. CASE owner[mu] # NULL
  <2>1. UNCHANGED owner /\ Lists(Appended(f, n, mu, t))
    BY <1>1, <1>9
  <2>2. mu \in Active(initialized)
    BY <1>2, <1>4 DEF Object
  <2>3. ListsSound' /\ lists' = TP!Move(lists, c, mu)
    <3> HIDE DEF f, n, t, mu
    <3> QED BY <1>7, <2>1, <2>2
  <2>4. TP!thread_cond_signal
    BY <1>1, <1>3, <1>5, <1>9, <2>1, <2>3 DEF TP!thread_cond_signal
  <2> QED BY <2>3, <2>4
<1> QED BY <1>8, <1>9

\* The outcome of Registers, and what it leaves alone.
LEMMA RegistersMeans ==
  ASSUME nextObject \in Links(Object), NEW S \in SUBSET Object, NEW x \in S,
         NEW start, NEW head, Registered(nextObject, start, S), Registers(x, start, head)
  PROVE  LET r == RegistryOf(nextObject, start)
         IN  /\ nextObject' \in Links(Object) /\ Registered(nextObject', head, S)
             /\ IF TP!WalkHangs(r, x)
                THEN /\ status' = "hung" /\ RegistryOf(nextObject', head) = r
                     /\ UNCHANGED initialized
                ELSE /\ RegistryOf(nextObject', head) = TP!Register(r, x)
                     /\ initialized' = initialized \cup {x} /\ UNCHANGED status
             /\ \A y \in Object \ S : nextObject'[y] = nextObject[y]
<1> DEFINE r == RegistryOf(nextObject, start)
           cleared == [nextObject EXCEPT ![x] = NULL]
           n == IF start = NULL THEN cleared ELSE Behind(cleared, start, x)
           h == IF start = NULL THEN x ELSE start
<1>1. /\ start # NULL /\ Endless(cleared, start) <=> TP!WalkHangs(r, x)
      /\ TP!WalkHangs(r, x) =>
             /\ cleared \in Links(Object)
             /\ Registered(cleared, start, S) /\ RegistryOf(cleared, start) = r
      /\ ~TP!WalkHangs(r, x) =>
             /\ n \in Links(Object)
             /\ Registered(n, h, S) /\ RegistryOf(n, h) = TP!Register(r, x)
      /\ \A y \in Object \ S : cleared[y] = nextObject[y] /\ n[y] = nextObject[y]
  <2>1. RegisterOutcome(nextObject, start, S, x)
    BY RegisterChain
  <2> QED BY <2>1 DEF RegisterOutcome
<1>2. CASE TP!WalkHangs(r, x)
  <2>1. start # NULL /\ Endless(cleared, start)
    BY <1>1, <1>2
  <2>2. nextObject' = cleared /\ status' = "hung" /\ UNCHANGED initialized /\ head = start
    BY <2>1 DEF Registers
  <2> HIDE DEF r, cleared, n, h
  <2>3. /\ nextObject' \in Links(Object) /\ Registered(nextObject', head, S)
        /\ RegistryOf(nextObject', head) = r
        /\ \A y \in Object \ S : nextObject'[y] = nextObject[y]
    BY <1>1, <1>2, <2>2
  <2> QED BY <1>2, <2>2, <2>3 DEF r
<1>3. CASE ~TP!WalkHangs(r, x)
  <2>1. ~(start # NULL /\ Endless(cleared, start))
    BY <1>1, <1>3
  <2>2. /\ nextObject' = n /\ head = h
        /\ initialized' = initialized \cup {x} /\ UNCHANGED status
    BY <2>1 DEF Registers
  <2> HIDE DEF r, cleared, n, h
  <2>3. /\ nextObject' \in Links(Object) /\ Registered(nextObject', head, S)
        /\ RegistryOf(nextObject', head) = TP!Register(r, x)
        /\ \A y \in Object \ S : nextObject'[y] = nextObject[y]
    BY <1>1, <1>3, <2>2
  <2> QED BY <1>3, <2>2, <2>3 DEF r
<1> QED BY <1>2, <1>3

\* The other registry, to none of whose nodes is assigned.
LEMMA OtherRegistry ==
  ASSUME nextObject' \in Links(Object), NEW S \in SUBSET Object, NEW R \in SUBSET Object,
         R \cap S = {}, NEW start, Registered(nextObject, start, R),
         \A y \in Object \ S : nextObject'[y] = nextObject[y]
  PROVE  Registered(nextObject', start, R)
         /\ RegistryOf(nextObject', start) = RegistryOf(nextObject, start)
<1> DEFINE s == Walk(nextObject, start)
<1>1. s \in Seq(R)
  BY DEF Registered
<1> HIDE DEF s
<1>2. \A y \in Range(s) : y \in R
  <2>1. CASE s = <<>>
    BY <2>1 DEF Range
  <2>2. CASE s # <<>>
    BY <1>1, <2>2, LastOf
  <2> QED BY <2>1, <2>2
<1>3. \A y \in Range(s) : nextObject'[y] = nextObject[y]
  BY <1>2
<1> QED BY <1>3, RegisteredSame DEF s

LEMMA RegistryIs ==
  \A start : Registry(start) = RegistryOf(nextObject, start)
BY DEF Registry, RegistryOf

LEMMA MutexInitMaps ==
  ASSUME PInv, thread_mutex_init
  PROVE  TP!thread_mutex_init /\ ListsSound'
<1>1. PICK m \in Mutex :
        /\ status = "running"
        /\ MayInit(m)
        /\ owner' = [owner EXCEPT ![m] = NULL]
        /\ first' = [first EXCEPT ![m] = NULL]
        /\ Registers(m, mutexListHead, mutexListHead')
        /\ UNCHANGED <<next, threadVars, condVarMutex, condListHead>>
  BY DEF thread_mutex_init
<1>2. /\ Represents(first, next, lists, Active(initialized), heap)
      /\ nextObject \in Links(Object) /\ terList \in ExistenceRecords
      /\ Registered(nextObject, mutexListHead, Mutex)
      /\ Registered(nextObject, condListHead, Cond)
  BY DEF PInv, ListsSound
<1>3. m \in Object /\ Mutex \subseteq Object /\ Cond \subseteq Object /\ Cond \cap Mutex = {}
  BY ThreadListsAssumption DEF Object
<1>4. TP!MayInit(m) /\ (m \notin initialized \/ first[m] = NULL)
  <2>1. CASE m \notin initialized
    BY <2>1 DEF TP!MayInit
  <2>2. CASE m \in initialized
    <3>1. Reinit /\ first[m] = NULL /\ owner[m] = NULL
      BY <1>1, <2>2 DEF MayInit, Idle
    <3>2. m \in Active(initialized)
      BY <1>3, <2>2 DEF Active
    <3>3. lists[m] = <<>>
      BY <1>2, <3>1, <3>2, OneList
    <3> QED BY <3>1, <3>3 DEF TP!MayInit, TP!Idle
  <2> QED BY <2>1, <2>2
<1> DEFINE r == RegistryOf(nextObject, mutexListHead)
<1>5. /\ nextObject' \in Links(Object) /\ Registered(nextObject', mutexListHead', Mutex)
      /\ IF TP!WalkHangs(r, m)
         THEN /\ status' = "hung" /\ RegistryOf(nextObject', mutexListHead') = r
              /\ UNCHANGED initialized
         ELSE /\ RegistryOf(nextObject', mutexListHead') = TP!Register(r, m)
              /\ initialized' = initialized \cup {m} /\ UNCHANGED status
      /\ \A y \in Object \ Mutex : nextObject'[y] = nextObject[y]
  BY <1>1, <1>2, <1>3, RegistersMeans
<1> HIDE DEF r
<1>6. /\ Registered(nextObject', condListHead, Cond)
      /\ RegistryOf(nextObject', condListHead) = RegistryOf(nextObject, condListHead)
  BY <1>2, <1>3, <1>5, OtherRegistry
<1>7. Represents(first', next', lists, Active(initialized'), heap)
  <2>1. /\ Represents(first', next', lists, Active(initialized), heap)
        /\ Represents(first', next', lists, Active(initialized \cup {m}), heap)
    BY <1>1, <1>2, <1>3, <1>4, RepresentsEmpty
  <2> QED BY <1>5, <2>1
<1>8. lists' = lists /\ Represents(first, next, lists, Active(initialized), heap)'
  <2>1. heap' \subseteq heap
    BY <1>1 DEF threadVars
  <2> QED BY <1>7, <2>1, NewLists
<1>9. ListsSound'
  <2>1. Registered(nextObject, mutexListHead, Mutex)' /\ Registered(nextObject, condListHead, Cond)'
    BY <1>1, <1>5, <1>6 DEF Registered
  <2>2. terList' \in ExistenceRecords
    BY <1>1, <1>2 DEF threadVars
  <2> QED BY <1>5, <1>8, <2>1, <2>2 DEF ListsSound
<1>10. /\ r = Registry(mutexListHead) /\ RegistryOf(nextObject', mutexListHead') = Registry(mutexListHead)'
       /\ Registry(condListHead)' = Registry(condListHead)
  BY <1>1, <1>6 DEF Registry, RegistryOf, r
<1>11. UNCHANGED TP!threadVars
  BY <1>1, ThreadsKept
<1>12. TP!thread_mutex_init
  BY <1>1, <1>4, <1>5, <1>8, <1>10, <1>11 DEF TP!thread_mutex_init, TP!ResetOwner
<1> QED BY <1>9, <1>12

LEMMA CondInitMaps ==
  ASSUME PInv, thread_cond_init
  PROVE  TP!thread_cond_init /\ ListsSound'
<1>1. PICK c \in Cond :
        /\ status = "running"
        /\ MayInit(c)
        /\ first' = [first EXCEPT ![c] = NULL]
        /\ Registers(c, condListHead, condListHead')
        /\ UNCHANGED <<next, threadVars, condVarMutex, owner, mutexListHead>>
  BY DEF thread_cond_init
<1>2. /\ Represents(first, next, lists, Active(initialized), heap)
      /\ nextObject \in Links(Object) /\ terList \in ExistenceRecords
      /\ Registered(nextObject, mutexListHead, Mutex)
      /\ Registered(nextObject, condListHead, Cond)
  BY DEF PInv, ListsSound
<1>3. c \in Object /\ Mutex \subseteq Object /\ Cond \subseteq Object /\ Mutex \cap Cond = {}
      /\ c \notin Mutex
  BY ThreadListsAssumption DEF Object
<1>4. TP!MayInit(c) /\ (c \notin initialized \/ first[c] = NULL)
  <2>1. CASE c \notin initialized
    BY <2>1 DEF TP!MayInit
  <2>2. CASE c \in initialized
    <3>1. Reinit /\ first[c] = NULL
      BY <1>1, <2>2 DEF MayInit, Idle
    <3>2. c \in Active(initialized)
      BY <1>3, <2>2 DEF Active
    <3>3. lists[c] = <<>>
      BY <1>2, <3>1, <3>2, OneList
    <3> QED BY <1>3, <3>1, <3>3 DEF TP!MayInit, TP!Idle
  <2> QED BY <2>1, <2>2
<1> DEFINE r == RegistryOf(nextObject, condListHead)
<1>5. /\ nextObject' \in Links(Object) /\ Registered(nextObject', condListHead', Cond)
      /\ IF TP!WalkHangs(r, c)
         THEN /\ status' = "hung" /\ RegistryOf(nextObject', condListHead') = r
              /\ UNCHANGED initialized
         ELSE /\ RegistryOf(nextObject', condListHead') = TP!Register(r, c)
              /\ initialized' = initialized \cup {c} /\ UNCHANGED status
      /\ \A y \in Object \ Cond : nextObject'[y] = nextObject[y]
  BY <1>1, <1>2, <1>3, RegistersMeans
<1> HIDE DEF r
<1>6. /\ Registered(nextObject', mutexListHead, Mutex)
      /\ RegistryOf(nextObject', mutexListHead) = RegistryOf(nextObject, mutexListHead)
  BY <1>2, <1>3, <1>5, OtherRegistry
<1>7. Represents(first', next', lists, Active(initialized'), heap)
  <2>1. /\ Represents(first', next', lists, Active(initialized), heap)
        /\ Represents(first', next', lists, Active(initialized \cup {c}), heap)
    BY <1>1, <1>2, <1>3, <1>4, RepresentsEmpty
  <2> QED BY <1>5, <2>1
<1>8. lists' = lists /\ Represents(first, next, lists, Active(initialized), heap)'
  <2>1. heap' \subseteq heap
    BY <1>1 DEF threadVars
  <2> QED BY <1>7, <2>1, NewLists
<1>9. ListsSound'
  <2>1. Registered(nextObject, mutexListHead, Mutex)' /\ Registered(nextObject, condListHead, Cond)'
    BY <1>1, <1>5, <1>6 DEF Registered
  <2>2. terList' \in ExistenceRecords
    BY <1>1, <1>2 DEF threadVars
  <2> QED BY <1>5, <1>8, <2>1, <2>2 DEF ListsSound
<1>10. /\ r = Registry(condListHead) /\ RegistryOf(nextObject', condListHead') = Registry(condListHead)'
       /\ Registry(mutexListHead)' = Registry(mutexListHead)
  BY <1>1, <1>6 DEF Registry, RegistryOf, r
<1>11. UNCHANGED TP!threadVars
  BY <1>1, ThreadsKept
<1>12. TP!thread_cond_init
  BY <1>1, <1>4, <1>5, <1>8, <1>10, <1>11 DEF TP!thread_cond_init
<1> QED BY <1>9, <1>12

LEMMA VarsKept ==
  ASSUME UNCHANGED vars
  PROVE  UNCHANGED TP!vars /\ (ListsSound => ListsSound')
<1>1. lists' = lists
  BY DEF vars, lists
<1>2. newestRecords' = newestRecords
  BY RecordsKept DEF vars
<1>3. Registry(mutexListHead)' = Registry(mutexListHead)
      /\ Registry(condListHead)' = Registry(condListHead)
  BY DEF vars, Registry
<1>4. UNCHANGED TP!vars
  BY <1>1, <1>2, <1>3 DEF vars, TP!vars
<1>5. ListsSound => ListsSound'
  BY <1>1 DEF vars, ListsSound, Registered, Represents, Active
<1> QED BY <1>4, <1>5

LEMMA StepMaps ==
  ASSUME PInv, [Next]_vars
  PROVE  [TP!Next]_(TP!vars) /\ PInv'
<1>1. ASSUME Next PROVE TP!Next /\ ListsSound'
  <2>1. ASSUME thread_create PROVE TP!Next /\ ListsSound'
    BY <2>1, CreateMaps DEF TP!Next
  <2>2. ASSUME thread_yield PROVE TP!Next /\ ListsSound'
    BY <2>2, YieldMaps DEF TP!Next
  <2>3. ASSUME thread_join PROVE TP!Next /\ ListsSound'
    BY <2>3, JoinMaps DEF TP!Next
  <2>4. ASSUME cleanup PROVE TP!Next /\ ListsSound'
    BY <2>4, CleanupMaps DEF TP!Next
  <2>5. ASSUME MainReturns PROVE TP!Next /\ ListsSound'
    BY <2>5, MainReturnsMaps DEF TP!Next
  <2>6. ASSUME thread_mutex_init PROVE TP!Next /\ ListsSound'
    BY <2>6, MutexInitMaps DEF TP!Next
  <2>7. ASSUME thread_mutex_lock PROVE TP!Next /\ ListsSound'
    BY <2>7, LockMaps DEF TP!Next
  <2>8. ASSUME thread_mutex_unlock PROVE TP!Next /\ ListsSound'
    BY <2>8, UnlockMaps DEF TP!Next
  <2>9. ASSUME thread_cond_init PROVE TP!Next /\ ListsSound'
    BY <2>9, CondInitMaps DEF TP!Next
  <2>10. ASSUME thread_cond_wait PROVE TP!Next /\ ListsSound'
    BY <2>10, WaitMaps DEF TP!Next
  <2>11. ASSUME thread_cond_signal PROVE TP!Next /\ ListsSound'
    BY <2>11, SignalMaps DEF TP!Next
  <2>12. ASSUME Ended PROVE TP!Next /\ ListsSound'
    <3>1. status # "running" /\ UNCHANGED vars
      BY <2>12 DEF Ended
    <3>2. UNCHANGED TP!vars /\ ListsSound'
      BY <3>1, VarsKept DEF PInv
    <3>3. TP!Ended
      BY <3>1, <3>2 DEF TP!Ended
    <3> QED BY <3>2, <3>3 DEF TP!Next
  <2> QED BY <1>1, <2>1, <2>2, <2>3, <2>4, <2>5, <2>6, <2>7, <2>8, <2>9, <2>10, <2>11, <2>12
          DEF Next
<1>2. [TP!Next]_(TP!vars) /\ ListsSound'
  BY <1>1, VarsKept DEF PInv
<1>3. TP!Inv'
  BY <1>2, Assumed, TP!InvStep DEF PInv
<1> QED BY <1>2, <1>3 DEF PInv

LEMMA InitMaps == Init => TP!Init /\ PInv
<1> SUFFICES ASSUME Init PROVE TP!Init /\ PInv
  OBVIOUS
<1> DEFINE L == [h \in ListHead |-> IF h = readyQueue THEN <<Main>> ELSE <<>>]
<1>1. PICK g \in [Object -> Garbage] :
           first = [h \in ListHead |-> CASE h = readyQueue -> Main
                                         [] h = joiningList -> NULL
                                         [] OTHER -> g[h]]
  BY DEF Init
<1>2. /\ next = [t \in TCB |-> NULL]
      /\ terList = <<[tid |-> Main, terminated |-> FALSE]>>
      /\ heap = {Main} /\ initialized = {}
      /\ mutexListHead = NULL /\ condListHead = NULL
      /\ nextObject = [x \in Object |-> NULL]
  BY DEF Init
<1>3. /\ first[readyQueue] = Main /\ first[joiningList] = NULL
      /\ first \in [ListHead -> TCB \cup {NULL}]
  <2>1. \A h \in ListHead : h # readyQueue /\ h # joiningList => h \in Object
    BY DEF ListHead
  <2>2. \A x \in Object : g[x] \in TCB \cup {NULL}
    BY ThreadListsAssumption
  <2> QED BY <1>1, <2>1, <2>2, SameHeads
<1>4. L \in TP!Lists /\ TP!OnePlace(L)
  <2>1. <<Main>> \in Seq(TCB) /\ <<>> \in Seq(TCB)
    BY SameHeads
  <2>2. L \in TP!Lists
    BY <2>1, SameHeads DEF TP!Lists
  <2>3. \A h \in ListHead : TP!IsInjective(L[h])
    <3>1. TP!IsInjective(<<Main>>) /\ TP!IsInjective(<<>>)
      BY DEF TP!IsInjective
    <3> QED BY <3>1
  <2>4. \A h \in ListHead : h # readyQueue => TP!Elems(L, h) = {}
    BY DEF TP!Elems, TP!Range
  <2> HIDE DEF L
  <2>5. \A f, h \in ListHead : f # h => TP!Elems(L, f) \cap TP!Elems(L, h) = {}
    BY <2>4
  <2> QED BY <2>2, <2>3, <2>5, SameHeads DEF TP!OnePlace
<1>5. Represents(first, next, L, Active(initialized), heap)
  <2>1. Active(initialized) = {readyQueue, joiningList} /\ Active(initialized) \subseteq ListHead
    BY <1>2, SameHeads DEF Active
  <2>2. next \in Links(TCB) /\ \A t \in TCB : next[t] = NULL
    BY <1>2 DEF Links
  <2>3. L[readyQueue] = <<Main>> /\ \A h \in ListHead \ {readyQueue} : L[h] = <<>>
    BY SameHeads
  <2>4. IsChain(next, first[readyQueue], L[readyQueue], FALSE)
    <3>1. /\ <<Main>> # <<>> /\ Len(<<Main>>) = 1 /\ <<Main>>[1] = Main
          /\ \A k \in 1 .. 1 - 1 : next[<<Main>>[k]] = <<Main>>[k + 1]
      OBVIOUS
    <3> QED BY <1>3, <2>2, <2>3, <3>1, SameHeads DEF IsChain
  <2>5. IsChain(next, first[joiningList], L[joiningList], FALSE)
    BY <1>3, <2>3, SameHeads DEF IsChain
  <2>6. heap \subseteq TCB
    BY <1>2, SameHeads
  <2> HIDE DEF L
  <2> QED BY <1>3, <1>4, <2>1, <2>2, <2>3, <2>4, <2>5, <2>6 DEF Represents
<1>6. lists = L
  <2> HIDE DEF L
  <2> QED BY <1>5, Mapped DEF lists
<1>7. /\ terList \in ExistenceRecords
      /\ newestRecords = [t \in TCB |-> IF t = Main THEN "alive" ELSE "none"]
  <2> DEFINE r == [tid |-> Main, terminated |-> FALSE]
  <2>1. terList \in ExistenceRecords
    BY <1>2, SameHeads DEF ExistenceRecords
  <2>2. DOMAIN terList = {1} /\ terList[1] = r
    BY <1>2
  <2>3. RecordIn(terList, Main) = "alive"
    <3>1. RecordsIn(terList, Main) = {1}
      BY <2>2 DEF RecordsIn
    <3>2. Min({1}) = 1
      BY MinIs
    <3> QED BY <2>2, <3>1, <3>2 DEF RecordIn
  <2>4. \A t \in TCB : t # Main => RecordIn(terList, t) = "none"
    BY <2>2 DEF RecordsIn, RecordIn
  <2> QED BY <2>1, <2>3, <2>4, RecordIs
<1>8. /\ nextObject \in Links(Object)
      /\ Registered(nextObject, NULL, Mutex) /\ Registered(nextObject, NULL, Cond)
      /\ Walk(nextObject, NULL) = <<>> /\ Endless(nextObject, NULL) = FALSE
  <2>1. nextObject \in Links(Object)
    BY <1>2 DEF Links
  <2>2. Walk(nextObject, NULL) = <<>> /\ Endless(nextObject, NULL) = FALSE
    BY DEF Walk, Endless
  <2>3. IsInjective(<<>>) /\ IsChain(nextObject, NULL, <<>>, FALSE)
        /\ <<>> \in Seq(Mutex) /\ <<>> \in Seq(Cond)
    BY DEF IsInjective, IsChain
  <2> QED BY <2>1, <2>2, <2>3 DEF Registered
<1>9. ListsSound
  BY <1>2, <1>5, <1>6, <1>7, <1>8 DEF ListsSound
<1>10. TP!Init
  <2>1. owner \in [Mutex -> TCB \cup {NULL}]
    BY ThreadListsAssumption DEF Init
  <2>2. Registry(mutexListHead) = [chain |-> <<>>, looped |-> FALSE]
        /\ Registry(condListHead) = [chain |-> <<>>, looped |-> FALSE]
    BY <1>2, <1>8 DEF Registry
  <2> QED BY <1>6, <1>7, <2>1, <2>2, SameHeads DEF Init, TP!Init
<1>11. TP!Inv
  BY <1>10, Assumed, TP!InitInv
<1> QED BY <1>9, <1>10, <1>11 DEF PInv

-----------------------------------------------------------------------------
LEMMA SameInit == T!Init = TP!Init
BY DEF T!Init, T!ListHead, TP!Init, TP!ListHead

LEMMA SameVars == UNCHANGED TP!vars => UNCHANGED T!vars
BY DEF T!vars, TP!vars

\* Everything proved of Threads holds of the pointers: they always make lists,
\* registries and records that satisfy its invariant.
THEOREM PointersInvariance == Spec => []PInv
<1>1. Init => PInv
  BY InitMaps
<1>2. PInv /\ [Next]_vars => PInv'
  BY StepMaps
<1> QED BY <1>1, <1>2, PTL DEF Spec

\* Every assignment to a next field, in the order thread.c makes them, amounts
\* to the pushes, pops and moves of Threads, the newest existence record of an
\* address counts, and the registries are as described there (thread.c:21-96,
\* 113-131, 173-474).
THEOREM Implements == Spec => ImplementsThreads
<1>1. Init => T!Init
  BY InitMaps, SameInit
<1>2. PInv /\ [Next]_vars => [T!Next]_(T!vars)
  BY StepMaps, SameSteps, SameVars
<1> QED BY <1>1, <1>2, PointersInvariance, PTL DEF Spec, ImplementsThreads, T!Spec

\* What leads on stands on a list, and what it leads to is the next one there.
LEMMA Following ==
  ASSUME PInv, NEW t \in heap, next[t] # NULL
  PROVE  \E h \in Active(initialized) : \E k \in 1 .. Len(lists[h]) - 1 :
             t = lists[h][k] /\ next[t] = lists[h][k + 1]
<1>1. Represents(first, next, lists, Active(initialized), heap)
  BY DEF PInv, ListsSound
<1>2. PICK h \in ListHead : t \in TP!Elems(lists, h)
  BY <1>1 DEF Represents
<1>3. lists[h] # <<>>
  <2>1. CASE lists[h] = <<>>
    BY <1>2, <2>1, ElemsIs DEF Range
  <2> QED BY <2>1
<1>4. h \in Active(initialized)
  BY <1>1, <1>3 DEF Represents
<1> DEFINE s == lists[h]
<1>5. s \in Seq(TCB) /\ IsChain(next, first[h], s, FALSE) /\ t \in Range(s) /\ s # <<>>
  <2>1. s \in Seq(TCB)
    BY <1>1, <1>4, OneList
  <2>2. IsChain(next, first[h], s, FALSE)
    BY <1>1, <1>4 DEF Represents
  <2> QED BY <1>2, <1>3, <2>1, <2>2, ElemsIs
<1> HIDE DEF s
<1>6. Len(s) \in Nat /\ Len(s) >= 1 /\ Range(s) = {s[k] : k \in 1 .. Len(s)}
  BY <1>5, LastOf
<1>7. PICK k \in 1 .. Len(s) : t = s[k]
  BY <1>5, <1>6
<1>8. k # Len(s)
  BY <1>5, <1>7 DEF IsChain
<1>9. k \in 1 .. Len(s) - 1
  BY <1>6, <1>8
<1>10. next[t] = s[k + 1]
  BY <1>5, <1>7, <1>9 DEF IsChain
<1> QED BY <1>4, <1>7, <1>9, <1>10 DEF s

\* One next field serves all lists: no TCB follows two others, is the first of
\* a list and follows one, or is first in two lists, and what follows is
\* allocated (thread.h:41, thread.c:173-217).
THEOREM NextIsUnique == Spec => []NextUnique
<1>1. PInv => NextUnique
  <2> SUFFICES ASSUME PInv PROVE NextUnique
    OBVIOUS
  <2> DEFINE H == Active(initialized)
             led == {t \in TCB : \E h \in H : first[h] = t}
  <2>1. /\ Represents(first, next, lists, H, heap)
        /\ lists \in TP!Lists /\ TP!OnePlace(lists) /\ H \subseteq ListHead
    BY DEF PInv, ListsSound, Represents
  <2>2. TP!Live \subseteq heap /\ TP!Listed(lists) = TP!Live
    BY DEF PInv, TP!Inv, TP!ThreadInv, TP!Placement, TP!HeapExact
  <2> HIDE DEF H
  <2>3. \A h \in H : /\ lists[h] \in Seq(TCB) /\ IsInjective(lists[h])
                     /\ Len(lists[h]) \in Nat
                     /\ \A k \in 1 .. Len(lists[h]) : lists[h][k] \in Range(lists[h])
                     /\ DOMAIN lists[h] = 1 .. Len(lists[h])
                     /\ first[h] # NULL => first[h] = lists[h][1] /\ 1 \in 1 .. Len(lists[h])
    <3> SUFFICES ASSUME NEW h \in H
                 PROVE  /\ lists[h] \in Seq(TCB) /\ IsInjective(lists[h])
                        /\ Len(lists[h]) \in Nat
                        /\ \A k \in 1 .. Len(lists[h]) : lists[h][k] \in Range(lists[h])
                        /\ DOMAIN lists[h] = 1 .. Len(lists[h])
                        /\ first[h] # NULL => first[h] = lists[h][1] /\ 1 \in 1 .. Len(lists[h])
      OBVIOUS
    <3>1. /\ lists[h] \in Seq(TCB) /\ IsInjective(lists[h])
          /\ lists[h] = <<>> <=> first[h] = NULL
          /\ lists[h] # <<>> => first[h] = lists[h][1]
      BY <2>1, OneList
    <3>2. DOMAIN lists[h] = 1 .. Len(lists[h]) /\ Len(lists[h]) \in Nat
      BY <3>1, LenProperties
    <3>3. \A k \in 1 .. Len(lists[h]) : lists[h][k] \in Range(lists[h])
      BY <3>2 DEF Range
    <3>4. lists[h] # <<>> => 1 \in 1 .. Len(lists[h])
      <4>1. lists[h] # <<>> => Len(lists[h]) \in Nat /\ Len(lists[h]) >= 1
        BY <3>1, LastOf
      <4> QED BY <4>1
    <3> QED BY <3>1, <3>2, <3>3, <3>4
  <2>4. \A g, h \in H : g # h => Range(lists[g]) \cap Range(lists[h]) = {}
    BY <2>1, ElemsIs, SameHeads DEF TP!OnePlace
  <2>5. \A h \in H : \A k \in 1 .. Len(lists[h]) : lists[h][k] \in heap
    <3>1. \A h \in H : Range(lists[h]) \subseteq heap
      <4>1. \A h \in H : TP!Elems(lists, h) \subseteq TP!Listed(lists)
        BY <2>1, Assumed, SameHeads, TP!EmptyElems DEF TP!Listed
      <4> QED BY <2>2, <4>1, ElemsIs
    <3> QED BY <2>3, <3>1
  <2>6. ASSUME NEW g \in H, NEW h \in H, NEW j \in 1 .. Len(lists[g]), NEW k \in 1 .. Len(lists[h]),
               lists[g][j] = lists[h][k]
        PROVE  g = h /\ j = k
    <3>1. lists[g][j] \in Range(lists[g]) /\ lists[h][k] \in Range(lists[h])
      BY <2>3
    <3>2. g = h
      BY <2>4, <2>6, <3>1
    <3>3. IsInjective(lists[h]) /\ DOMAIN lists[h] = 1 .. Len(lists[h])
      BY <2>3
    <3> QED BY <2>6, <3>2, <3>3 DEF IsInjective
  <2>7. \A t \in heap : next[t] # NULL =>
            \E h \in H : \E k \in 1 .. Len(lists[h]) - 1 :
                t = lists[h][k] /\ next[t] = lists[h][k + 1]
    BY Following DEF H
  <2>8. \A h \in H : \A k \in 1 .. Len(lists[h]) - 1 :
            k \in 1 .. Len(lists[h]) /\ k + 1 \in 1 .. Len(lists[h]) /\ k + 1 # 1 /\ k \in Nat
    BY <2>3
  <2>9. ASSUME NEW t \in heap, next[t] # NULL PROVE next[t] \in heap \ led
    <3>1. PICK h \in H : \E k \in 1 .. Len(lists[h]) - 1 : next[t] = lists[h][k + 1]
      BY <2>7, <2>9
    <3>2. PICK k \in 1 .. Len(lists[h]) - 1 : next[t] = lists[h][k + 1]
      BY <3>1
    <3>3. k + 1 \in 1 .. Len(lists[h]) /\ k + 1 # 1
      BY <2>8
    <3>4. next[t] \in heap
      BY <2>5, <3>2, <3>3
    <3>5. ASSUME NEW g \in H, first[g] = next[t] PROVE FALSE
      <4>1. first[g] = lists[g][1] /\ 1 \in 1 .. Len(lists[g])
        BY <2>3, <2>9, <3>5
      <4>2. lists[g][1] = lists[h][k + 1]
        BY <3>2, <3>5, <4>1
      <4>3. 1 = k + 1
        BY <2>6, <3>3, <4>1, <4>2
      <4> QED BY <3>3, <4>3
    <3> QED BY <3>4, <3>5
  <2>10. ASSUME NEW t \in heap, NEW u \in heap, next[t] # NULL, next[t] = next[u] PROVE t = u
    <3>1. PICK h \in H : \E k \in 1 .. Len(lists[h]) - 1 :
              t = lists[h][k] /\ next[t] = lists[h][k + 1]
      BY <2>7, <2>10
    <3>2. PICK k \in 1 .. Len(lists[h]) - 1 : t = lists[h][k] /\ next[t] = lists[h][k + 1]
      BY <3>1
    <3>3. PICK g \in H : \E j \in 1 .. Len(lists[g]) - 1 :
              u = lists[g][j] /\ next[u] = lists[g][j + 1]
      BY <2>7, <2>10
    <3>4. PICK j \in 1 .. Len(lists[g]) - 1 : u = lists[g][j] /\ next[u] = lists[g][j + 1]
      BY <3>3
    <3>5. g = h /\ j + 1 = k + 1
      BY <2>6, <2>8, <2>10, <3>2, <3>4
    <3>6. j = k
      BY <2>8, <3>5
    <3> QED BY <3>2, <3>4, <3>5, <3>6
  <2>11. ASSUME NEW g \in H, NEW h \in H, first[g] # NULL, first[g] = first[h] PROVE g = h
    BY <2>3, <2>6, <2>11
  <2>12. H = {readyQueue, joiningList} \cup (Object \cap initialized)
    BY DEF H, Active
  <2> QED BY <2>9, <2>10, <2>11, <2>12 DEF NextUnique
<1> QED BY <1>1, PointersInvariance, PTL
=============================================================================
