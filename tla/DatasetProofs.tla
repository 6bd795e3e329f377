---------------------------- MODULE DatasetProofs -----------------------------
(***************************************************************************)
(* What the lists of Dataset hold, for every dataset: the facts that the   *)
(* proofs about the harnesses rest on.  Induction is over a set of numbers.*)
(***************************************************************************)
EXTENDS Dataset, SequenceTheorems, FiniteSetTheorems, WellFoundedInduction, TLAPS

LEMMA Least ==
  ASSUME NEW T, T \subseteq Nat, T # {}
  PROVE  \E n \in T : \A m \in T : n <= m
<1>1. IsWellFoundedOn(OpToRel(<, Nat), Nat)
  BY NatLessThanWellFounded
<1>2. PICK n \in T : \A m \in T : ~(<<m, n>> \in OpToRel(<, Nat))
  BY <1>1, WFMin
<1>3. \A m \in T : <<m, n>> \in Nat \X Nat
  OBVIOUS
<1>4. \A m \in T : ~(m < n)
  BY <1>2, <1>3 DEF OpToRel
<1> QED
  BY <1>4

LEMMA UpTo ==
  ASSUME NEW n \in Nat
  PROVE  IsFiniteSet(1..n) /\ Cardinality(1..n) = n
<1>1. 1 \in Int /\ n \in Int /\ (1 > n => n = 0)
  OBVIOUS
<1>2. IsFiniteSet(1..n) /\ Cardinality(1..n) = IF 1 > n THEN 0 ELSE n - 1 + 1
  BY <1>1, FS_Interval
<1> QED
  BY <1>1, <1>2

LEMMA SetInduction ==
  ASSUME NEW N \in Nat, NEW T, 0 \in T,
         \A n \in 1..N : n - 1 \in T => n \in T
  PROVE  0..N \subseteq T
<1> DEFINE U == (0..N) \ T
<1> SUFFICES ASSUME U # {} PROVE FALSE
  OBVIOUS
<1>1. U \subseteq Nat
  OBVIOUS
<1>2. PICK n \in U : \A m \in U : n <= m
  <2> HIDE DEF U
  <2> QED
    BY <1>1, Least
<1>3. n \in 1..N /\ n - 1 \in 0..N /\ n - 1 \notin U
  BY <1>2
<1> QED
  BY <1>2, <1>3

Picks == [id : PairIds, base : Bases]

(* f is the recursive function of Listed(I), up to position n.             *)
Grown(I, f, n) == IF n \in I \ {0} THEN Append(f[n - 1], Pairs[n]) ELSE f[n - 1]
Lists(I, f, n) ==
  /\ f \in [0..n -> Seq(Picks)]
  /\ f[0] = <<>>
  /\ \A m \in 1..n : f[m] = Grown(I, f, m)

LEMMA PairsTyped ==
  /\ Pairs \in Seq(Picks) /\ Len(Pairs) \in Nat /\ DOMAIN Pairs = 1..Len(Pairs)
  /\ \A i \in 1..Len(Pairs) : Pairs[i] \in Picks
BY DatasetAssumption, LenProperties, ElementOfSeq DEF Picks

LEMMA ListsMore ==
  ASSUME NEW I, NEW n \in 1..Len(Pairs), NEW f, Lists(I, f, n - 1)
  PROVE  \E g : Lists(I, g, n)
<1> DEFINE g == [k \in 0..n |-> IF k = n THEN Grown(I, f, n) ELSE f[k]]
<1>1. /\ n \in Nat /\ n - 1 \in 0..(n - 1) /\ Pairs[n] \in Picks
      /\ f \in [0..(n - 1) -> Seq(Picks)]
  BY PairsTyped DEF Lists
<1>2. Grown(I, f, n) \in Seq(Picks)
  BY <1>1, AppendProperties DEF Grown
<1>3. g \in [0..n -> Seq(Picks)] /\ g[n] = Grown(I, f, n)
  BY <1>1, <1>2
<1>4. \A k \in 0..(n - 1) : g[k] = f[k]
  BY <1>1
<1> HIDE DEF g
<1>5. \A m \in 1..n : g[m - 1] = f[m - 1] /\ Grown(I, g, m) = Grown(I, f, m)
  BY <1>1, <1>4 DEF Grown
<1>6. \A m \in 1..n : g[m] = Grown(I, f, m)
  BY <1>1, <1>3, <1>4, SMTT(30) DEF Lists
<1>7. g[0] = <<>>
  BY <1>1, <1>4 DEF Lists
<1>8. Lists(I, g, n)
  BY <1>3, <1>5, <1>6, <1>7 DEF Lists
<1> QED
  BY <1>8

(* The recursive function exists.                                          *)
LEMMA ListsExist ==
  ASSUME NEW I
  PROVE  \E f : Lists(I, f, Len(Pairs))
<1> DEFINE T == {n \in 0..Len(Pairs) : \E f : Lists(I, f, n)}
<1>1. 0 \in T
  <2>1. Lists(I, [k \in 0..0 |-> <<>>], 0)
    BY DEF Lists
  <2> QED
    BY <2>1, PairsTyped
<1>2. ASSUME NEW n \in 1..Len(Pairs), n - 1 \in T
      PROVE  n \in T
  BY <1>2, ListsMore, PairsTyped
<1>3. 0..Len(Pairs) \subseteq T
  <2> HIDE DEF T
  <2> QED
    BY <1>1, <1>2, SetInduction, PairsTyped
<1> QED
  BY <1>3, PairsTyped

LEMMA ListedLists ==
  ASSUME NEW I
  PROVE  \E f : Lists(I, f, Len(Pairs)) /\ Listed(I) = f[Len(Pairs)]
<1> DEFINE N == Len(Pairs)
           Eq(f) == f = [n \in 0..N |->
                      CASE n = 0          -> <<>>
                        [] n \in I \ {0}  -> Append(f[n - 1], Pairs[n])
                        [] OTHER          -> f[n - 1]]
           upTo == CHOOSE f : Eq(f)
<1>1. PICK h : Lists(I, h, N)
  BY ListsExist
<1>2. h = [n \in 0..N |-> h[n]]
  BY <1>1 DEF Lists
<1>3. \A n \in 0..N : h[n] = CASE n = 0          -> <<>>
                               [] n \in I \ {0}  -> Append(h[n - 1], Pairs[n])
                               [] OTHER          -> h[n - 1]
  <2> TAKE n \in 0..N
  <2>1. CASE n = 0
    BY <1>1, <2>1 DEF Lists
  <2>2. CASE n # 0
    <3>1. n \in 1..N
      BY <2>2, PairsTyped
    <3>2. h[n] = Grown(I, h, n)
      BY <1>1, <3>1 DEF Lists
    <3>3. CASE n \in I
      BY <2>2, <3>2, <3>3 DEF Grown
    <3>4. CASE n \notin I
      BY <2>2, <3>2, <3>4 DEF Grown
    <3> QED
      BY <3>3, <3>4
  <2> QED
    BY <2>1, <2>2
<1>4. Eq(h)
  BY <1>2, <1>3
<1>5. Eq(upTo)
  BY <1>4
<1>6. Listed(I) = upTo[N]
  BY DEF Listed
<1>7. Lists(I, upTo, N)
  <2> DEFINE T == {n \in 0..N : upTo[n] = h[n]}
  <2> HIDE DEF upTo
  <2>1. 0 \in T
    BY <1>3, <1>5, PairsTyped
  <2>2. ASSUME NEW n \in 1..N, n - 1 \in T
        PROVE  n \in T
    <3>1. n \in 0..N /\ n # 0
      BY PairsTyped
    <3>2. upTo[n - 1] = h[n - 1]
      BY <2>2
    <3>3. CASE n \in I
      <4>1. upTo[n] = Append(upTo[n - 1], Pairs[n]) /\ h[n] = Append(h[n - 1], Pairs[n])
        BY <1>3, <1>5, <3>1, <3>3
      <4> QED
        BY <3>1, <3>2, <4>1
    <3>4. CASE n \notin I
      <4>1. upTo[n] = upTo[n - 1] /\ h[n] = h[n - 1]
        BY <1>3, <1>5, <3>1, <3>4
      <4> QED
        BY <3>1, <3>2, <4>1
    <3> QED
      BY <3>3, <3>4
  <2>3. 0..N \subseteq T
    <3> HIDE DEF T
    <3> QED
      BY <2>1, <2>2, SetInduction, PairsTyped
  <2>4. upTo = [n \in 0..N |-> upTo[n]] /\ h = [n \in 0..N |-> h[n]]
    BY <1>2, <1>5
  <2>5. upTo = h
    BY <2>3, <2>4
  <2> QED
    BY <1>1, <2>5
<1> QED
  BY <1>6, <1>7

(* Listed(I) is the pairs at the positions in I, each once, in order: h    *)
(* says where in the dataset its k-th member stands.                       *)
Places(I, n, h, s) ==
  /\ s \in Seq(Picks)
  /\ h \in [1..Len(s) -> I \cap (1..n)]
  /\ \A k \in 1..Len(s) : s[k] = Pairs[h[k]]
  /\ \A k, l \in 1..Len(s) : k < l => h[k] < h[l]
  /\ \A i \in I \cap (1..n) : \E k \in 1..Len(s) : h[k] = i

LEMMA PlacesMore ==
  ASSUME NEW I, NEW n \in 1..Len(Pairs), NEW s, NEW h, Places(I, n - 1, h, s)
  PROVE  /\ n \notin I => Places(I, n, h, s)
         /\ n \in I => \E g : Places(I, n, g, Append(s, Pairs[n]))
<1>1. /\ n \in Nat /\ Pairs[n] \in Picks /\ s \in Seq(Picks) /\ Len(s) \in Nat
      /\ I \cap (1..(n - 1)) \subseteq I \cap (1..n)
  BY PairsTyped, LenProperties DEF Places
<1>2. CASE n \notin I
  <2>1. I \cap (1..(n - 1)) = I \cap (1..n)
    BY <1>1, <1>2
  <2> QED
    BY <1>2, <2>1 DEF Places
<1>3. CASE n \in I
  <2> DEFINE m == Len(s) + 1
             t == Append(s, Pairs[n])
             g == [k \in 1..m |-> IF k = m THEN n ELSE h[k]]
  <2>1. /\ t \in Seq(Picks) /\ Len(t) = m /\ t[m] = Pairs[n] /\ m \in Nat
        /\ \A k \in 1..Len(s) : t[k] = s[k]
    BY <1>1, AppendProperties
  <2>2. /\ \A k \in 1..Len(s) : h[k] \in I \cap (1..(n - 1)) /\ s[k] = Pairs[h[k]]
        /\ \A k, l \in 1..Len(s) : k < l => h[k] < h[l]
        /\ \A i \in I \cap (1..(n - 1)) : \E k \in 1..Len(s) : h[k] = i
    BY DEF Places
  <2>3. g[m] = n /\ \A k \in 1..Len(s) : g[k] = h[k]
    BY <1>1
  <2>4. g \in [1..m -> I \cap (1..n)]
    BY <1>1, <1>3, <2>2
  <2> HIDE DEF g, t
  <2>5. \A k \in 1..m : k = m \/ k \in 1..Len(s)
    BY <1>1
  <2>6. \A k \in 1..m : t[k] = Pairs[g[k]]
    BY <2>1, <2>2, <2>3, <2>5
  <2>7. \A k, l \in 1..m : k < l => g[k] < g[l]
    <3> SUFFICES ASSUME NEW k \in 1..m, NEW l \in 1..m, k < l PROVE g[k] < g[l]
      OBVIOUS
    <3>1. k \in 1..Len(s)
      BY <1>1
    <3>2. h[k] < n
      BY <1>1, <2>2, <3>1
    <3> QED
      BY <2>2, <2>3, <2>5, <3>1, <3>2
  <2>8. \A i \in I \cap (1..n) : \E k \in 1..m : g[k] = i
    <3> SUFFICES ASSUME NEW i \in I \cap (1..n) PROVE \E k \in 1..m : g[k] = i
      OBVIOUS
    <3>1. CASE i = n
      BY <1>1, <2>3, <3>1
    <3>2. CASE i # n
      <4>1. i \in I \cap (1..(n - 1))
        BY <1>1, <3>2
      <4> QED
        BY <1>1, <2>2, <2>3, <4>1
    <3> QED
      BY <3>1, <3>2
  <2>9. Places(I, n, g, t)
    BY <2>1, <2>4, <2>6, <2>7, <2>8 DEF Places
  <2> QED
    BY <1>3, <2>9 DEF t
<1> QED
  BY <1>2, <1>3

LEMMA ListedPlaces ==
  ASSUME NEW I
  PROVE  \E h : Places(I, Len(Pairs), h, Listed(I))
<1>1. PICK f : Lists(I, f, Len(Pairs)) /\ Listed(I) = f[Len(Pairs)]
  BY ListedLists
<1> DEFINE T == {n \in 0..Len(Pairs) : \E h : Places(I, n, h, f[n])}
<1>2. 0 \in T
  <2>1. Places(I, 0, [k \in 1..0 |-> 0], <<>>)
    BY DEF Places
  <2> QED
    BY <1>1, <2>1, PairsTyped DEF Lists
<1>3. ASSUME NEW n \in 1..Len(Pairs), n - 1 \in T
      PROVE  n \in T
  <2>1. n \in 0..Len(Pairs) /\ n # 0 /\ f[n] = Grown(I, f, n)
    BY <1>1, PairsTyped DEF Lists
  <2>2. PICK h : Places(I, n - 1, h, f[n - 1])
    BY <1>3
  <2> QED
    BY <2>1, <2>2, PlacesMore DEF Grown
<1>4. 0..Len(Pairs) \subseteq T
  <2> HIDE DEF T
  <2> QED
    BY <1>2, <1>3, SetInduction, PairsTyped
<1> QED
  BY <1>1, <1>4, PairsTyped

-----------------------------------------------------------------------------
(* What the harnesses rely on.                                             *)

(* A program's list holds the pairs of this program, each once.            *)
LEMMA ByFacts ==
  ASSUME NEW b \in Bases
  PROVE  /\ By[b] \in Seq(Picks) /\ Len(By[b]) \in Nat \ {0}
         /\ DOMAIN By[b] = 1..Len(By[b]) /\ Len(By[b]) <= Len(Pairs)
         /\ \A k \in 1..Len(By[b]) :
              /\ By[b][k].base = b /\ By[b][k].id \in PairIds
              /\ \E i \in 1..Len(Pairs) : By[b][k] = Pairs[i]
         /\ \A k, l \in 1..Len(By[b]) : By[b][k].id = By[b][l].id => k = l
         /\ \A i \in 1..Len(Pairs) :
              Pairs[i].base = b => \E k \in 1..Len(By[b]) : By[b][k] = Pairs[i]
<1> DEFINE I == {i \in DOMAIN Pairs : Pairs[i].base = b}
           s == By[b]
<1>1. s = Listed(I)
  BY DEF By
<1>2. PICK h : Places(I, Len(Pairs), h, s)
  BY <1>1, ListedPlaces
<1> HIDE DEF s
<1>3. /\ s \in Seq(Picks) /\ Len(s) \in Nat /\ DOMAIN s = 1..Len(s)
      /\ \A k \in 1..Len(s) : h[k] \in I /\ s[k] = Pairs[h[k]]
      /\ \A k, l \in 1..Len(s) : k < l => h[k] < h[l]
      /\ \A i \in I : \E k \in 1..Len(s) : h[k] = i
      /\ h \in [1..Len(s) -> 1..Len(Pairs)]
  BY <1>2, PairsTyped, LenProperties DEF Places
<1>4. \A k \in 1..Len(s) :
        /\ s[k].base = b /\ s[k].id \in PairIds
        /\ \E i \in 1..Len(Pairs) : s[k] = Pairs[i]
  BY <1>3, PairsTyped DEF Picks
<1>5. \A k, l \in 1..Len(s) : s[k].id = s[l].id => k = l
  <2> SUFFICES ASSUME NEW k \in 1..Len(s), NEW l \in 1..Len(s), s[k].id = s[l].id
               PROVE  k = l
    OBVIOUS
  <2>1. h[k] = h[l]
    BY <1>3, DatasetAssumption
  <2>2. h[k] \in Nat /\ ~(k < l) /\ ~(l < k)
    BY <1>3, <2>1
  <2> QED
    BY <1>3, <2>2
<1>6. \A i \in 1..Len(Pairs) :
        Pairs[i].base = b => \E k \in 1..Len(s) : s[k] = Pairs[i]
  BY <1>3, PairsTyped
<1>7. Len(s) \in Nat \ {0}
  BY <1>3, <1>6, PairsTyped DEF Bases
<1>8. Len(s) <= Len(Pairs)
  <2>1. h \in Injection(1..Len(s), 1..Len(Pairs))
    <3>1. \A k, l \in 1..Len(s) : h[k] = h[l] => k = l
      <4> SUFFICES ASSUME NEW k \in 1..Len(s), NEW l \in 1..Len(s), h[k] = h[l]
                   PROVE  k = l
        OBVIOUS
      <4>1. h[k] \in Nat /\ ~(k < l) /\ ~(l < k)
        BY <1>3
      <4> QED
        BY <1>3, <4>1
    <3> QED
      BY <1>3, <3>1 DEF Injection, IsInjective
  <2>2. /\ IsFiniteSet(1..Len(Pairs)) /\ Cardinality(1..Len(Pairs)) = Len(Pairs)
        /\ IsFiniteSet(1..Len(s)) /\ Cardinality(1..Len(s)) = Len(s)
    BY <1>3, PairsTyped, UpTo
  <2> QED
    BY <2>1, <2>2, FS_Injection
<1> QED
  BY <1>3, <1>4, <1>5, <1>6, <1>7, <1>8 DEF s

(* No pair is in two lists.                                                *)
LEMMA ByDisjoint ==
  ASSUME NEW b \in Bases, NEW c \in Bases,
         NEW k \in 1..Len(By[b]), NEW l \in 1..Len(By[c]), By[b][k].id = By[c][l].id
  PROVE  b = c /\ k = l
<1>1. PICK i \in 1..Len(Pairs) : By[b][k] = Pairs[i]
  BY ByFacts
<1>2. PICK j \in 1..Len(Pairs) : By[c][l] = Pairs[j]
  BY ByFacts
<1>3. i = j
  BY <1>1, <1>2, PairsTyped, DatasetAssumption
<1>4. b = c
  <2>1. By[b][k].base = b
    BY ByFacts
  <2>2. By[c][l].base = c
    BY ByFacts
  <2> QED
    BY <1>1, <1>2, <1>3, <2>1, <2>2
<1> QED
  BY <1>4, ByFacts

LEMMA BasesFinite == IsFiniteSet(Bases)
<1> DEFINE f == [i \in 1..Len(Pairs) |-> Pairs[i].base]
<1>1. f \in Surjection(1..Len(Pairs), Bases)
  BY PairsTyped DEF Bases, Surjection, Picks
<1>2. IsFiniteSet(1..Len(Pairs))
  BY PairsTyped, UpTo
<1> QED
  BY <1>1, <1>2, FS_Surjection

(* Everything listed in order is the dataset itself.                       *)
LEMMA ListedAll == Listed(DOMAIN Pairs) = Pairs
<1> DEFINE I == DOMAIN Pairs
<1>1. PICK f : Lists(I, f, Len(Pairs)) /\ Listed(I) = f[Len(Pairs)]
  BY ListedLists
<1> DEFINE T == {n \in 0..Len(Pairs) :
                   Len(f[n]) = n /\ \A k \in 1..n : f[n][k] = Pairs[k]}
<1>2. 0 \in T
  BY <1>1, PairsTyped DEF Lists
<1>3. ASSUME NEW n \in 1..Len(Pairs), n - 1 \in T
      PROVE  n \in T
  <2>0. n \in Nat /\ n \in I \ {0} /\ n - 1 \in 0..Len(Pairs) /\ Pairs[n] \in Picks
    BY PairsTyped
  <2>1. f[n] = Append(f[n - 1], Pairs[n]) /\ f[n - 1] \in Seq(Picks)
    BY <1>1, <2>0 DEF Lists, Grown
  <2>2. Len(f[n - 1]) = n - 1 /\ \A k \in 1..(n - 1) : f[n - 1][k] = Pairs[k]
    BY <1>3
  <2>3. /\ Len(f[n]) = n /\ f[n][n] = Pairs[n]
        /\ \A k \in 1..(n - 1) : f[n][k] = f[n - 1][k]
    BY <2>0, <2>1, <2>2, AppendProperties
  <2>4. \A k \in 1..n : f[n][k] = Pairs[k]
    BY <2>0, <2>2, <2>3
  <2> QED
    BY <2>0, <2>3, <2>4
<1>4. Len(Pairs) \in T
  <2> HIDE DEF T
  <2>1. 0..Len(Pairs) \subseteq T
    BY <1>2, <1>3, SetInduction, PairsTyped
  <2> QED
    BY <2>1, PairsTyped
<1>5. f[Len(Pairs)] \in Seq(Picks)
  BY <1>1, PairsTyped DEF Lists
<1> QED
  BY <1>1, <1>4, <1>5, PairsTyped, SeqEqual

(* There are as many ids as pairs, and a list of that length that has them *)
(* all has each once.                                                      *)
LEMMA PairIdsCount ==
  /\ PairIds = {Pairs[i].id : i \in 1..Len(Pairs)}
  /\ IsFiniteSet(PairIds) /\ Cardinality(PairIds) = Len(Pairs)
<1> DEFINE f == [i \in 1..Len(Pairs) |-> Pairs[i].id]
<1>1. PairIds = {Pairs[i].id : i \in 1..Len(Pairs)}
  BY PairsTyped DEF PairIds
<1>2. f \in Surjection(1..Len(Pairs), PairIds)
  BY <1>1 DEF Surjection
<1>3. f \in Injection(1..Len(Pairs), PairIds)
  BY <1>1, PairsTyped, DatasetAssumption DEF Injection, IsInjective
<1>4. IsFiniteSet(1..Len(Pairs)) /\ Cardinality(1..Len(Pairs)) = Len(Pairs)
  BY PairsTyped, UpTo
<1> HIDE DEF f
<1> QED
  BY <1>1, <1>2, <1>3, <1>4, FS_Surjection

LEMMA EachListedOnce ==
  ASSUME NEW s, s = [i \in 1..Len(Pairs) |-> s[i]],
         {s[i] : i \in 1..Len(Pairs)} = PairIds
  PROVE  /\ s \in [1..Cardinality(PairIds) -> PairIds]
         /\ \A i, j \in 1..Cardinality(PairIds) : s[i] = s[j] => i = j
<1>1. IsFiniteSet(1..Len(Pairs)) /\ Cardinality(1..Len(Pairs)) = Len(Pairs)
  BY PairsTyped, UpTo
<1>2. s \in [1..Len(Pairs) -> PairIds]
  OBVIOUS
<1>3. s \in Surjection(1..Len(Pairs), PairIds)
  BY <1>2 DEF Surjection
<1>4. s \in Injection(1..Len(Pairs), PairIds)
  BY <1>1, <1>3, FS_Surjection, PairIdsCount
<1> QED
  BY <1>2, <1>4, PairIdsCount DEF Injection, IsInjective
=============================================================================
