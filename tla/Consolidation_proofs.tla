------------------------ MODULE Consolidation_proofs ------------------------
(***************************************************************************)
(* Deduplication and merging, for lists of findings of any length, unions  *)
(* in any order, all stored findings and all rule sets.                    *)
(*                                                                         *)
(* A walk along the parents ends because ranks grow along it and a list    *)
(* has only so many positions (WalkEnds); where it ends is the root        *)
(* (RootIs), which path compression leaves alone and a union redirects for *)
(* one whole tree (UnionMerges).  Hence Sound: two positions have one root *)
(* exactly if the links made so far connect them, Connected being the      *)
(* least set closed under those links (ConnectedIsLeast).  What is merged  *)
(* is typed because sorting by counting fills every place (SortedByKey).   *)
(*                                                                         *)
(* The order of a list decides nothing (OrderIsFree): lists that have each *)
(* element equally often sort alike (DescendingSame), and what ties there  *)
(* is the same, since among the results of a run a key names one           *)
(* (KeyNamesResult).                                                       *)
(*                                                                         *)
(* The library's induction takes the property as an operator; AllNaturals  *)
(* takes it as a set of numbers.                                           *)
(***************************************************************************)
EXTENDS Consolidation, FiniteSetTheorems, SequenceTheorems,
        WellFoundedInduction, TLAPS

---------------------------------------------------------------------------
(* Induction over the natural numbers, by least counterexample              *)

\* What holds at 0 and passes from each number to the next holds for all: sets
\* of numbers stand for properties.
LEMMA AllNaturals ==
  ASSUME NEW S \in SUBSET Nat, 0 \in S, \A k \in S : k + 1 \in S
  PROVE  \A k \in Nat : k \in S
<1> SUFFICES ASSUME Nat \ S # {} PROVE FALSE
  OBVIOUS
<1>1. PICK m \in Nat \ S : \A k \in Nat \ S : ~ (<<k, m>> \in OpToRel(<, Nat))
  <2> DEFINE R == OpToRel(<, Nat)
  <2>1. IsWellFoundedOn(R, Nat)
    BY NatLessThanWellFounded
  <2> HIDE DEF R
  <2>2. \E m \in Nat \ S : \A k \in Nat \ S : ~ (<<k, m>> \in R)
    BY <2>1, WFMin
  <2> QED
    BY <2>2 DEF R
<1>2. m \in Nat /\ m # 0 /\ m - 1 \in Nat
  OBVIOUS
<1>3. <<m - 1, m>> \in OpToRel(<, Nat)
  BY <1>2 DEF OpToRel
<1>4. m - 1 \in S
  BY <1>1, <1>2, <1>3
<1> QED
  BY <1>2, <1>4

---------------------------------------------------------------------------
(* The walk of find                                                         *)

\* The pointers of n findings, and what find visits from x on.
Pointers(n) == [1..n -> 1..n]

Walk(n, p, x, w) ==
  /\ w \in [0..n -> 1..n]
  /\ w[0] = x
  /\ \A k \in 0..n - 1 : w[k + 1] = p[w[k]]

\* Such a walk exists: a walk of k steps has one more.
LEMMA WalkExists ==
  ASSUME NEW n \in Nat, NEW p \in Pointers(n), NEW x \in 1..n
  PROVE  \E w : Walk(n, p, x, w)
<1> DEFINE Steps(m, w) == /\ w \in [0..m -> 1..n] /\ w[0] = x
                          /\ \A k \in 0..m - 1 : w[k + 1] = p[w[k]]
           S == {m \in Nat : \E w : Steps(m, w)}
<1>1. 0 \in S
  <2>1. Steps(0, [k \in 0..0 |-> x])
    OBVIOUS
  <2> QED
    BY <2>1
<1>2. ASSUME NEW m \in S PROVE m + 1 \in S
  <2>1. PICK w : Steps(m, w)
    OBVIOUS
  <2> DEFINE v == [k \in 0..m + 1 |-> IF k \in 0..m THEN w[k] ELSE p[w[m]]]
  <2>2. w[m] \in 1..n /\ p[w[m]] \in 1..n
    BY <2>1 DEF Pointers
  <2>3. v \in [0..m + 1 -> 1..n] /\ v[0] = x
    BY <2>1, <2>2
  <2>4. ASSUME NEW k \in 0..(m + 1) - 1 PROVE v[k + 1] = p[v[k]]
    <3>1. CASE k = m
      BY <3>1
    <3>2. CASE k \in 0..m - 1
      BY <2>1, <3>2
    <3> QED
      BY <3>1, <3>2
  <2>5. Steps(m + 1, v)
    BY <2>3, <2>4
  <2> HIDE DEF Steps, v
  <2> QED
    BY <2>5
<1> HIDE DEF S
<1>3. n \in S
  BY <1>1, <1>2, AllNaturals DEF S
<1> QED
  BY <1>3 DEF S, Walk

\* Path is what a walk visits.
LEMMA PathIsWalk ==
  ASSUME NEW n \in Nat, NEW p \in Pointers(n), NEW x \in 1..n
  PROVE  \E w : Walk(n, p, x, w) /\ Path(p, x) = {w[k] : k \in 0..n}
<1>1. Len(p) = n
  BY DEF Pointers
<1> DEFINE Rec(w) == w = [k \in 0..n |-> IF k = 0 THEN x ELSE p[w[k - 1]]]
<1>2. PICK v : Walk(n, p, x, v)
  BY WalkExists
<1>3. Rec(v)
  <2>1. ASSUME NEW k \in 0..n PROVE v[k] = IF k = 0 THEN x ELSE p[v[k - 1]]
    <3>1. CASE k = 0
      BY <1>2, <3>1 DEF Walk
    <3>2. CASE k # 0
      <4>1. k - 1 \in 0..n - 1 /\ (k - 1) + 1 = k
        BY <3>2
      <4>2. v[(k - 1) + 1] = p[v[k - 1]]
        BY <1>2, <4>1 DEF Walk
      <4> QED
        BY <3>2, <4>1, <4>2
    <3> QED
      BY <3>1, <3>2
  <2>2. v = [k \in 0..n |-> v[k]]
    BY <1>2 DEF Walk
  <2> QED
    BY <2>1, <2>2
<1>4. PICK w : Rec(w) /\ Path(p, x) = {w[k] : k \in 0..n}
  BY <1>1, <1>3 DEF Path
<1>5. Walk(n, p, x, w)
  <2> DEFINE S == {k \in Nat : k \in 0..n => w[k] \in 1..n}
  <2>1. 0 \in S
    BY <1>4
  <2>2. ASSUME NEW k \in S PROVE k + 1 \in S
    <3>1. k + 1 \in 0..n => w[k + 1] = p[w[k]]
      BY <1>4
    <3> QED
      BY <3>1 DEF Pointers
  <2>3. \A k \in 0..n : w[k] \in 1..n
    <3> HIDE DEF S
    <3>1. \A k \in Nat : k \in S
      BY <2>1, <2>2, AllNaturals DEF S
    <3> QED
      BY <3>1 DEF S
  <2>4. w \in [0..n -> 1..n] /\ w[0] = x
    BY <1>4, <2>3
  <2>5. ASSUME NEW k \in 0..n - 1 PROVE w[k + 1] = p[w[k]]
    BY <1>4
  <2> QED
    BY <2>4, <2>5 DEF Walk
<1> QED
  BY <1>4, <1>5

---------------------------------------------------------------------------
(* Trees and their roots                                                    *)

\* RanksGrow, of any pointers and ranks.
Forest(n, p, rk) ==
  /\ p \in Pointers(n) /\ rk \in [1..n -> Nat]
  /\ \A i \in 1..n : p[i] # i => rk[i] < rk[p[i]]

\* A walk that has met a root stays there.
LEMMA WalkStays ==
  ASSUME NEW n \in Nat, NEW p \in Pointers(n), NEW x \in 1..n, NEW w, Walk(n, p, x, w),
         NEW m \in 0..n, p[w[m]] = w[m]
  PROVE  w[n] = w[m]
<1> DEFINE S == {k \in Nat : m + k \in 0..n => w[m + k] = w[m]}
<1>1. 0 \in S
  OBVIOUS
<1>2. ASSUME NEW k \in S PROVE k + 1 \in S
  <2>1. CASE m + (k + 1) \in 0..n
    <3>1. m + k \in 0..n - 1 /\ m + (k + 1) = (m + k) + 1
      BY <2>1
    <3>2. w[(m + k) + 1] = p[w[m + k]] /\ w[m + k] = w[m]
      BY <3>1 DEF Walk
    <3> QED
      BY <3>1, <3>2
  <2> QED
    BY <2>1
<1>3. \A k \in Nat : k \in S
  <2> HIDE DEF S
  <2> QED
    BY <1>1, <1>2, AllNaturals DEF S
<1>4. n - m \in Nat /\ m + (n - m) = n
  OBVIOUS
<1> QED
  BY <1>3, <1>4

\* n steps reach a root: ranks grow as long as none is met, so the n + 1 places
\* of the walk would all be different.
LEMMA WalkEnds ==
  ASSUME NEW n \in Nat, NEW p, NEW rk, Forest(n, p, rk), NEW x \in 1..n,
         NEW w, Walk(n, p, x, w)
  PROVE  p[w[n]] = w[n]
<1>1. ASSUME \A m \in 0..n : p[w[m]] # w[m] PROVE FALSE
  <2> DEFINE S == {k \in Nat : k \in 0..n => \A j \in 0..k : j < k => rk[w[j]] < rk[w[k]]}
  <2>1. 0 \in S
    OBVIOUS
  <2>2. ASSUME NEW k \in S PROVE k + 1 \in S
    <3>1. CASE k + 1 \in 0..n
      <4>1. w[k + 1] = p[w[k]] /\ w[k] \in 1..n /\ w[k + 1] \in 1..n
        BY <3>1 DEF Walk
      <4>2. rk[w[k]] < rk[w[k + 1]]
        BY <1>1, <3>1, <4>1 DEF Forest
      <4>3. ASSUME NEW j \in 0..k + 1, j < k + 1 PROVE rk[w[j]] < rk[w[k + 1]]
        <5>1. CASE j = k
          BY <4>2, <5>1
        <5>2. CASE j \in 0..k /\ j < k
          <6>1. rk[w[j]] < rk[w[k]]
            BY <3>1, <5>2
          <6>2. rk[w[j]] \in Nat /\ rk[w[k]] \in Nat /\ rk[w[k + 1]] \in Nat
            <7>1. w[j] \in 1..n
              BY <3>1, <4>3 DEF Walk
            <7> QED
              BY <4>1, <7>1 DEF Forest
          <6> QED
            BY <4>2, <6>1, <6>2
        <5> QED
          BY <4>3, <5>1, <5>2
      <4> QED
        BY <4>3
    <3> QED
      BY <3>1
  <2>3. \A k \in Nat : k \in S
    <3> HIDE DEF S
    <3> QED
      BY <2>1, <2>2, AllNaturals DEF S
  <2>4. w \in [0..n -> 1..n]
    BY DEF Walk
  <2>5. /\ IsFiniteSet(0..n) /\ Cardinality(0..n) = n + 1
        /\ IsFiniteSet(1..n) /\ Cardinality(1..n) = n
    BY FS_Interval
  <2>6. PICK j, k \in 0..n : j # k /\ w[j] = w[k]
    <3>1. Cardinality(1..n) < Cardinality(0..n)
      BY <2>5
    <3> QED
      BY <2>4, <2>5, <3>1, FS_PigeonHole
  <2>7. rk[w[j]] \in Nat
    BY <2>4 DEF Forest
  <2>8. CASE j < k
    BY <2>3, <2>6, <2>7, <2>8
  <2>9. CASE k < j
    BY <2>3, <2>6, <2>7, <2>9
  <2> QED
    BY <2>6, <2>8, <2>9
<1>2. PICK m \in 0..n : p[w[m]] = w[m]
  BY <1>1
<1>3. w[n] = w[m]
  BY <1>2, WalkStays DEF Forest
<1> QED
  BY <1>2, <1>3

\* So the root is where the walk ends.
LEMMA RootIsEnd ==
  ASSUME NEW n \in Nat, NEW p, NEW rk, Forest(n, p, rk), NEW x \in 1..n
  PROVE  \E w : /\ Walk(n, p, x, w) /\ Path(p, x) = {w[k] : k \in 0..n}
                /\ Root(p, x) = w[n] /\ p[w[n]] = w[n]
<1>1. PICK w : Walk(n, p, x, w) /\ Path(p, x) = {w[k] : k \in 0..n}
  BY PathIsWalk DEF Forest
<1>2. p[w[n]] = w[n]
  BY <1>1, WalkEnds
<1>3. \A m \in 0..n : p[w[m]] = w[m] => w[m] = w[n]
  BY <1>1, WalkStays DEF Forest
<1>4. Root(p, x) = w[n]
  <2>1. w[n] \in Path(p, x)
    BY <1>1
  <2>2. \A r \in Path(p, x) : p[r] = r => r = w[n]
    BY <1>1, <1>3
  <2> QED
    BY <1>2, <2>1, <2>2 DEF Root
<1> QED
  BY <1>1, <1>2, <1>4

\* What agrees along the pointers, and is the element itself at a root.
RootMap(n, p, g) ==
  /\ g \in [1..n -> 1..n]
  /\ \A i \in 1..n : g[p[i]] = g[i] /\ (p[i] = i => g[i] = i)

\* Only the root is like that.
LEMMA RootIs ==
  ASSUME NEW n \in Nat, NEW p, NEW rk, Forest(n, p, rk), NEW g, RootMap(n, p, g), NEW x \in 1..n
  PROVE  Root(p, x) = g[x]
<1> USE DEF RootMap
<1>1. PICK w : Walk(n, p, x, w) /\ Root(p, x) = w[n] /\ p[w[n]] = w[n]
  <2>1. \E w : /\ Walk(n, p, x, w) /\ Path(p, x) = {w[k] : k \in 0..n}
               /\ Root(p, x) = w[n] /\ p[w[n]] = w[n]
    BY RootIsEnd
  <2> QED
    BY <2>1
<1> DEFINE S == {k \in Nat : k \in 0..n => g[w[k]] = g[x]}
<1>2. 0 \in S
  BY <1>1 DEF Walk
<1>3. ASSUME NEW k \in S PROVE k + 1 \in S
  <2>1. CASE k + 1 \in 0..n
    <3> k \in 0..n - 1
      BY <2>1
    <3> HIDE DEF S
    <3>1. w[k + 1] = p[w[k]]
      BY <1>1 DEF Walk
    <3>3. w[k] \in 1..n
      <4>1. k \in 0..n
        OBVIOUS
      <4> QED
        BY <1>1, <4>1 DEF Walk
    <3> USE DEF S
    <3>2. g[w[k + 1]] = g[x]
      BY <2>1, <3>1, <3>3
    <3> QED
      BY <3>2
  <2> QED
    BY <2>1
<1>4. g[w[n]] = g[x]
  <2> HIDE DEF S
  <2>1. \A k \in Nat : k \in S
    BY <1>2, <1>3, AllNaturals DEF S
  <2> QED
    BY <2>1 DEF S
<1>5. w[n] \in 1..n
  BY <1>1 DEF Walk
<1> QED
  BY <1>1, <1>4, <1>5

\* The place a pointer leads to has the same root.
LEMMA RootOfNext ==
  ASSUME NEW n \in Nat, NEW p, NEW rk, Forest(n, p, rk), NEW x \in 1..n
  PROVE  Root(p, p[x]) = Root(p, x)
<1>1. p \in Pointers(n) /\ p[x] \in 1..n
  BY DEF Forest, Pointers
<1>2. PICK w : Walk(n, p, x, w) /\ Root(p, x) = w[n] /\ p[w[n]] = w[n]
  <2>1. \E w : /\ Walk(n, p, x, w) /\ Path(p, x) = {w[k] : k \in 0..n}
               /\ Root(p, x) = w[n] /\ p[w[n]] = w[n]
    BY RootIsEnd
  <2> QED
    BY <2>1
<1>3. PICK v : Walk(n, p, p[x], v) /\ Root(p, p[x]) = v[n]
  <2>1. \E v : /\ Walk(n, p, p[x], v) /\ Path(p, p[x]) = {v[k] : k \in 0..n}
               /\ Root(p, p[x]) = v[n] /\ p[v[n]] = v[n]
    BY <1>1, RootIsEnd
  <2> QED
    BY <2>1
<1> DEFINE S == {k \in Nat : k \in 0..n - 1 => v[k] = w[k + 1]}
<1>4. 0 \in S
  <2>1. n - 1 \in Nat => w[0 + 1] = p[x]
    BY <1>2 DEF Walk
  <2> QED
    BY <1>3, <2>1 DEF Walk
<1>5. ASSUME NEW k \in S PROVE k + 1 \in S
  <2>1. CASE k + 1 \in 0..n - 1
    <3>1. k \in 0..n - 1 /\ k \in 0..n - 1
      BY <2>1
    <3>2. v[k + 1] = p[v[k]]
      BY <1>3, <3>1 DEF Walk
    <3>3. w[(k + 1) + 1] = p[w[k + 1]]
      BY <1>2, <2>1 DEF Walk
    <3>4. v[k + 1] = w[(k + 1) + 1]
      BY <3>1, <3>2, <3>3
    <3> QED
      BY <3>4
  <2> QED
    BY <2>1
<1>6. n - 1 \in 0..n - 1 /\ (n - 1) + 1 = n
  OBVIOUS
<1>7. v[n - 1] = w[n]
  <2> HIDE DEF S
  <2>1. \A k \in Nat : k \in S
    BY <1>4, <1>5, AllNaturals DEF S
  <2>2. n - 1 \in S
    BY <1>6, <2>1
  <2> QED
    BY <1>6, <2>2 DEF S
<1>8. v[n] = v[n - 1]
  <2>1. n - 1 \in 0..n /\ p[v[n - 1]] = v[n - 1]
    BY <1>2, <1>6, <1>7
  <2> QED
    BY <1>1, <1>3, <2>1, WalkStays
<1> QED
  BY <1>2, <1>3, <1>7, <1>8

\* The root is a root, higher than all it is the root of, and the same all
\* along a path.
LEMMA RootFacts ==
  ASSUME NEW n \in Nat, NEW p, NEW rk, Forest(n, p, rk), NEW x \in 1..n
  PROVE  /\ Root(p, x) \in 1..n /\ p[Root(p, x)] = Root(p, x)
         /\ p[x] = x => Root(p, x) = x
         /\ x # Root(p, x) => rk[x] < rk[Root(p, x)]
         /\ x \in Path(p, x)
         /\ \A i \in Path(p, x) : i \in 1..n /\ Root(p, i) = Root(p, x)
<1>1. PICK w : /\ Walk(n, p, x, w) /\ Path(p, x) = {w[k] : k \in 0..n}
               /\ Root(p, x) = w[n] /\ p[w[n]] = w[n]
  BY RootIsEnd
<1>2. w \in [0..n -> 1..n] /\ w[0] = x
  BY <1>1 DEF Walk
<1>3. p[x] = x => w[n] = x
  <2>1. p \in Pointers(n) /\ 0 \in 0..n
    BY DEF Forest
  <2> SUFFICES ASSUME p[w[0]] = w[0] PROVE w[n] = w[0]
    BY <1>2
  <2> QED
    BY <1>1, <2>1, WalkStays
<1> DEFINE S == {k \in Nat : k \in 0..n => /\ Root(p, w[k]) = Root(p, x)
                                           /\ w[k] # x => rk[x] < rk[w[k]]}
<1>4. 0 \in S
  BY <1>2
<1>5. ASSUME NEW k \in S PROVE k + 1 \in S
  <2>1. CASE k + 1 \in 0..n
    <3> k \in 0..n - 1 /\ k \in 0..n
      BY <2>1
    <3>1. w[k + 1] = p[w[k]] /\ w[k] \in 1..n /\ w[k + 1] \in 1..n
      BY <1>1, <1>2, <2>1 DEF Walk
    <3>2. Root(p, w[k + 1]) = Root(p, x)
      <4>1. Root(p, p[w[k]]) = Root(p, w[k])
        BY <3>1, RootOfNext
      <4> QED
        BY <3>1, <4>1
    <3>3. ASSUME w[k + 1] # x PROVE rk[x] < rk[w[k + 1]]
      <4>1. rk[x] \in Nat /\ rk[w[k]] \in Nat /\ rk[w[k + 1]] \in Nat
        BY <3>1 DEF Forest
      <4>2. w[k + 1] # w[k] => rk[w[k]] < rk[w[k + 1]]
        BY <3>1 DEF Forest
      <4>3. w[k] # x => rk[x] < rk[w[k]]
        OBVIOUS
      <4> QED
        BY <3>3, <4>1, <4>2, <4>3
    <3> QED
      BY <3>2, <3>3
  <2> QED
    BY <2>1
<1>6. \A k \in 0..n : /\ Root(p, w[k]) = Root(p, x)
                      /\ w[k] # x => rk[x] < rk[w[k]]
  <2> HIDE DEF S
  <2>1. \A k \in Nat : k \in S
    BY <1>4, <1>5, AllNaturals DEF S
  <2> QED
    BY <2>1 DEF S
<1>7. 0 \in 0..n /\ n \in 0..n
  OBVIOUS
<1> QED
  BY <1>1, <1>2, <1>3, <1>6, <1>7

\* Compression keeps the order of ranks and all roots.
LEMMA CompressedForest ==
  ASSUME NEW n \in Nat, NEW p, NEW rk, Forest(n, p, rk), NEW x \in 1..n
  PROVE  /\ Forest(n, Compressed(p, x), rk)
         /\ \A i \in 1..n : Root(Compressed(p, x), i) = Root(p, i)
<1> DEFINE q == Compressed(p, x)
           g == [i \in 1..n |-> Root(p, i)]
<1>1. /\ p \in [1..n -> 1..n] /\ DOMAIN p = 1..n
      /\ q = [i \in 1..n |-> IF i \in Path(p, x) THEN Root(p, x) ELSE p[i]]
  BY DEF Forest, Pointers, Compressed
<1>2. /\ Root(p, x) \in 1..n /\ p[Root(p, x)] = Root(p, x)
      /\ \A i \in Path(p, x) : i \in 1..n /\ Root(p, i) = Root(p, x)
  BY RootFacts
<1>3. \A i \in 1..n : i # Root(p, i) => rk[i] < rk[Root(p, i)]
  BY RootFacts
<1>4. \A i \in 1..n : /\ Root(p, i) \in 1..n
                      /\ p[i] = i => Root(p, i) = i
  BY RootFacts
<1>5. \A i \in 1..n : Root(p, p[i]) = Root(p, i)
  BY RootOfNext
<1> HIDE DEF q
<1>6. Forest(n, q, rk)
  <2>1. q \in Pointers(n)
    BY <1>1, <1>2 DEF Pointers
  <2>2. ASSUME NEW i \in 1..n, q[i] # i PROVE rk[i] < rk[q[i]]
    <3>1. CASE i \in Path(p, x)
      BY <1>1, <1>2, <1>3, <2>2, <3>1
    <3>2. CASE i \notin Path(p, x)
      BY <1>1, <2>2, <3>2 DEF Forest
    <3> QED
      BY <3>1, <3>2
  <2> QED
    BY <2>1, <2>2 DEF Forest
<1>7. g \in [1..n -> 1..n]
  BY <1>4
<1>8. ASSUME NEW i \in 1..n PROVE g[q[i]] = g[i] /\ (q[i] = i => g[i] = i)
  <2>1. q[i] \in 1..n /\ g[q[i]] = Root(p, q[i]) /\ g[i] = Root(p, i)
    BY <1>6 DEF Forest, Pointers
  <2>2. CASE i \in Path(p, x)
    <3>1. q[i] = Root(p, x) /\ Root(p, i) = Root(p, x)
      BY <1>1, <1>2, <2>2
    <3>2. Root(p, Root(p, x)) = Root(p, x)
      BY <1>2, <1>4
    <3> QED
      BY <2>1, <3>1, <3>2
  <2>3. CASE i \notin Path(p, x)
    <3>1. q[i] = p[i]
      BY <1>1, <2>3
    <3> QED
      BY <1>4, <1>5, <2>1, <3>1
  <2> QED
    BY <2>2, <2>3
<1>9. ASSUME NEW i \in 1..n PROVE Root(q, i) = Root(p, i)
  <2>1. Root(q, i) = g[i]
    <3> HIDE DEF g
    <3>1. RootMap(n, q, g)
      BY <1>7, <1>8 DEF RootMap
    <3> QED
      BY <1>6, <3>1, RootIs
  <2> QED
    BY <2>1
<1> QED
  BY <1>6, <1>9 DEF q

\* The ranks rl fit pointers p in which a root is to be attached to another.
Fits(n, p, rk, from, to, rl) ==
  /\ from \in 1..n /\ to \in 1..n /\ from # to /\ p[from] = from /\ p[to] = to
  /\ rl \in [1..n -> Nat] /\ rl[from] < rl[to]
  /\ \A i \in 1..n : rk[i] <= rl[i] /\ (i # to => rl[i] = rk[i])

Joined(p, from, to) == [p EXCEPT ![from] = to]

\* That merges the two trees and leaves the rest alone.
LEMMA JoinedForest ==
  ASSUME NEW n \in Nat, NEW p, NEW rk, Forest(n, p, rk),
         NEW from, NEW to, NEW rl, Fits(n, p, rk, from, to, rl)
  PROVE  /\ Forest(n, Joined(p, from, to), rl)
         /\ \A i \in 1..n : Root(Joined(p, from, to), i)
                              = IF Root(p, i) = from THEN to ELSE Root(p, i)
<1> DEFINE q == Joined(p, from, to)
           g == [i \in 1..n |-> IF Root(p, i) = from THEN to ELSE Root(p, i)]
<1>1. p \in [1..n -> 1..n] /\ rk \in [1..n -> Nat]
  BY DEF Forest, Pointers
<1>2. q \in [1..n -> 1..n] /\ q[from] = to /\ \A i \in 1..n : i # from => q[i] = p[i]
  BY <1>1 DEF Fits, Joined
<1>3. \A i \in 1..n : /\ Root(p, i) \in 1..n
                      /\ p[i] = i => Root(p, i) = i
  BY RootFacts
<1>4. \A i \in 1..n : Root(p, p[i]) = Root(p, i)
  BY RootOfNext
<1> USE DEF Fits
<1> HIDE DEF q
<1>5. Forest(n, q, rl)
  <2>1. ASSUME NEW i \in 1..n, q[i] # i PROVE rl[i] < rl[q[i]]
    <3>1. CASE i = from
      BY <1>2, <3>1
    <3>2. CASE i # from
      <4>1. q[i] = p[i] /\ p[i] # i /\ i # to /\ p[i] \in 1..n
        BY <1>1, <1>2, <2>1, <3>2
      <4>2. rk[i] < rk[p[i]]
        BY <4>1 DEF Forest
      <4>3. rl[i] = rk[i] /\ rk[p[i]] <= rl[p[i]]
        BY <4>1
      <4>4. rk[i] \in Nat /\ rk[p[i]] \in Nat /\ rl[p[i]] \in Nat
        BY <1>1, <4>1
      <4> QED
        BY <4>1, <4>2, <4>3, <4>4
    <3> QED
      BY <3>1, <3>2
  <2> QED
    BY <1>2, <2>1 DEF Forest, Pointers
<1>6. g \in [1..n -> 1..n]
  BY <1>3
<1>7. ASSUME NEW i \in 1..n PROVE g[q[i]] = g[i] /\ (q[i] = i => g[i] = i)
  <2>1. CASE i = from
    <3>1. q[i] = to /\ Root(p, to) = to /\ Root(p, i) = from
      BY <1>2, <1>3, <2>1
    <3> QED
      BY <2>1, <3>1
  <2>2. CASE i # from
    <3>1. q[i] = p[i] /\ p[i] \in 1..n /\ Root(p, p[i]) = Root(p, i)
      BY <1>1, <1>2, <1>4, <2>2
    <3>2. g[q[i]] = g[i]
      BY <3>1
    <3>3. ASSUME q[i] = i PROVE g[i] = i
      <4>1. Root(p, i) = i
        BY <1>3, <3>1, <3>3
      <4> QED
        BY <2>2, <4>1
    <3> QED
      BY <3>2, <3>3
  <2> QED
    BY <2>1, <2>2
<1>8. ASSUME NEW i \in 1..n PROVE Root(q, i) = g[i]
  <2> HIDE DEF g
  <2>1. RootMap(n, q, g)
    BY <1>6, <1>7 DEF RootMap
  <2> QED
    BY <1>5, <2>1, RootIs
<1>9. \A i \in 1..n : Root(q, i) = IF Root(p, i) = from THEN to ELSE Root(p, i)
  BY <1>8
<1> QED
  BY <1>5, <1>9 DEF q

\* Attach and Raised do that, whichever of the two is lower.
LEMMA AttachForest ==
  ASSUME NEW n \in Nat, NEW p, Forest(n, p, rank),
         NEW x \in 1..n, NEW y \in 1..n, p[x] = x, p[y] = y, x # y
  PROVE  /\ Forest(n, Attach(p, x, y), Raised(x, y))
         /\ \E from, to \in {x, y} :
              /\ from # to
              /\ \A i \in 1..n :
                   Root(Attach(p, x, y), i) = IF Root(p, i) = from THEN to ELSE Root(p, i)
<1>1. rank \in [1..n -> Nat] /\ rank[x] \in Nat /\ rank[y] \in Nat
  BY DEF Forest
<1>2. \A i \in 1..n : rank[i] \in Nat
  BY <1>1
<1>3. CASE rank[x] < rank[y]
  <2>1. Attach(p, x, y) = Joined(p, x, y) /\ Raised(x, y) = rank
    BY <1>1, <1>3 DEF Attach, Raised, Joined
  <2>2. /\ Forest(n, Joined(p, x, y), rank)
        /\ \A i \in 1..n : Root(Joined(p, x, y), i)
                             = IF Root(p, i) = x THEN y ELSE Root(p, i)
    <3>1. Fits(n, p, rank, x, y, rank)
      BY <1>1, <1>2, <1>3 DEF Fits
    <3> QED
      BY <3>1, JoinedForest
  <2> QED
    BY <2>1, <2>2
<1>4. CASE ~ (rank[x] < rank[y])
  <2> DEFINE rl == Raised(x, y)
  <2>1. Attach(p, x, y) = Joined(p, y, x)
    BY <1>4 DEF Attach, Joined
  <2>2. rl \in [1..n -> Nat] /\ rl[y] < rl[x]
    BY <1>1, <1>4 DEF Raised
  <2>3. \A i \in 1..n : rank[i] <= rl[i] /\ (i # x => rl[i] = rank[i])
    BY <1>1, <1>2 DEF Raised
  <2> HIDE DEF rl
  <2>4. /\ Forest(n, Joined(p, y, x), rl)
        /\ \A i \in 1..n : Root(Joined(p, y, x), i)
                             = IF Root(p, i) = y THEN x ELSE Root(p, i)
    <3>1. Fits(n, p, rank, y, x, rl)
      BY <2>2, <2>3 DEF Fits
    <3> QED
      BY <3>1, JoinedForest
  <2> QED
    BY <2>1, <2>4 DEF rl
<1> QED
  BY <1>3, <1>4

\* What a union does to the roots: it merges two trees, or none.
LEMMA UnionMerges ==
  ASSUME NEW n \in Nat, Forest(n, parent, rank), NEW x \in 1..n, NEW y \in 1..n, Union(x, y)
  PROVE  /\ Forest(n, parent', rank')
         /\ \A i, j \in 1..n :
              Root(parent', i) = Root(parent', j)
                <=> \/ Root(parent, i) = Root(parent, j)
                    \/ {Root(parent, i), Root(parent, j)}
                         \subseteq {Root(parent, x), Root(parent, y)}
<1> DEFINE rx == Root(parent, x)
           ry == Root(parent, y)
           c == Compressed(parent, x)
           d == Compressed(c, y)
<1>1. Forest(n, c, rank) /\ \A i \in 1..n : Root(c, i) = Root(parent, i)
  BY CompressedForest
<1>2. Forest(n, d, rank) /\ \A i \in 1..n : Root(d, i) = Root(c, i)
  <2> HIDE DEF c
  <2> QED
    BY <1>1, CompressedForest
<1>3. \A i \in 1..n : Root(d, i) = Root(parent, i)
  <2> HIDE DEF c, d
  <2> QED
    BY <1>1, <1>2
<1>4. rx \in 1..n /\ ry \in 1..n /\ Root(d, x) = rx /\ Root(d, y) = ry
  <2>1. rx \in 1..n /\ ry \in 1..n
    BY RootFacts
  <2> HIDE DEF d
  <2> QED
    BY <1>3, <2>1
<1>5. d[rx] = rx /\ d[ry] = ry
  <2>1. \A i \in 1..n : d[Root(d, i)] = Root(d, i)
    <3> HIDE DEF d
    <3> QED
      BY <1>2, RootFacts
  <2> HIDE DEF d
  <2> QED
    BY <1>4, <2>1
<1>6. \/ rx = ry /\ parent' = d /\ rank' = rank
      \/ rx # ry /\ parent' = Attach(d, rx, ry) /\ rank' = Raised(rx, ry)
  BY DEF Union
<1> HIDE DEF rx, ry, c, d
<1>7. CASE rx = ry /\ parent' = d /\ rank' = rank
  BY <1>2, <1>3, <1>7 DEF rx, ry
<1>8. CASE rx # ry /\ parent' = Attach(d, rx, ry) /\ rank' = Raised(rx, ry)
  <2>1. /\ Forest(n, parent', rank')
        /\ \E from, to \in {rx, ry} :
             /\ from # to
             /\ \A i \in 1..n :
                  Root(parent', i) = IF Root(d, i) = from THEN to ELSE Root(d, i)
    BY <1>2, <1>4, <1>5, <1>8, AttachForest
  <2>2. PICK from, to \in {rx, ry} :
          /\ from # to
          /\ \A i \in 1..n :
               Root(parent', i) = IF Root(parent, i) = from THEN to ELSE Root(parent, i)
    BY <1>3, <2>1
  <2>3. ASSUME NEW i \in 1..n, NEW j \in 1..n
        PROVE  Root(parent', i) = Root(parent', j)
                 <=> \/ Root(parent, i) = Root(parent, j)
                     \/ {Root(parent, i), Root(parent, j)} \subseteq {rx, ry}
    BY <2>2
  <2> QED
    BY <2>1, <2>3 DEF rx, ry
<1> QED
  BY <1>6, <1>7, <1>8

---------------------------------------------------------------------------
(* What chains of pairs connect                                             *)

\* R does not lead out of S, in either direction.
Closed(R, S) == \A l \in R : l[1] \in S <=> l[2] \in S

Neighbours(R, S) ==
  S \cup {l[1] : l \in {m \in R : m[2] \in S}} \cup {l[2] : l \in {m \in R : m[1] \in S}}

Reach(n, R, i, r) ==
  /\ r \in [0..n -> SUBSET (1..n)]
  /\ r[0] = {i}
  /\ \A k \in 0..n - 1 : r[k + 1] = Neighbours(R, r[k])

LEMMA NeighboursType ==
  ASSUME NEW n \in Nat, NEW R \in SUBSET ((1..n) \X (1..n)), NEW S \in SUBSET (1..n)
  PROVE  Neighbours(R, S) \in SUBSET (1..n) /\ S \subseteq Neighbours(R, S)
BY DEF Neighbours

LEMMA ReachExists ==
  ASSUME NEW n \in Nat, NEW R \in SUBSET ((1..n) \X (1..n)), NEW i \in 1..n
  PROVE  \E r : Reach(n, R, i, r)
<1> DEFINE Steps(m, r) == /\ r \in [0..m -> SUBSET (1..n)] /\ r[0] = {i}
                          /\ \A k \in 0..m - 1 : r[k + 1] = Neighbours(R, r[k])
           S == {m \in Nat : \E r : Steps(m, r)}
<1>1. 0 \in S
  <2>1. Steps(0, [k \in 0..0 |-> {i}])
    OBVIOUS
  <2> QED
    BY <2>1
<1>2. ASSUME NEW m \in S PROVE m + 1 \in S
  <2>1. PICK r : Steps(m, r)
    OBVIOUS
  <2> DEFINE v == [k \in 0..m + 1 |-> IF k \in 0..m THEN r[k] ELSE Neighbours(R, r[m])]
  <2>2. r[m] \in SUBSET (1..n) /\ Neighbours(R, r[m]) \in SUBSET (1..n)
    <3>1. r[m] \in SUBSET (1..n)
      BY <2>1
    <3> QED
      BY <3>1, NeighboursType
  <2>3. v \in [0..m + 1 -> SUBSET (1..n)] /\ v[0] = {i}
    BY <2>1, <2>2
  <2>4. ASSUME NEW k \in 0..(m + 1) - 1 PROVE v[k + 1] = Neighbours(R, v[k])
    <3>1. CASE k = m
      BY <3>1
    <3>2. CASE k \in 0..m - 1
      BY <2>1, <3>2
    <3> QED
      BY <3>1, <3>2
  <2>5. Steps(m + 1, v)
    BY <2>3, <2>4
  <2> HIDE DEF Steps, v
  <2> QED
    BY <2>5
<1> HIDE DEF S
<1>3. n \in S
  BY <1>1, <1>2, AllNaturals DEF S
<1> QED
  BY <1>3 DEF S, Reach

\* Connected is the last of such a chain of sets.
LEMMA ConnectedIsReach ==
  ASSUME NEW n \in Nat, NEW R \in SUBSET ((1..n) \X (1..n)), NEW i \in 1..n
  PROVE  \E r : Reach(n, R, i, r) /\ Connected(n, R, i) = r[n]
<1> DEFINE Rec(r) ==
      r = [k \in 0..n |->
             IF k = 0 THEN {i}
             ELSE r[k - 1] \cup {l[1] : l \in {m \in R : m[2] \in r[k - 1]}}
                           \cup {l[2] : l \in {m \in R : m[1] \in r[k - 1]}}]
<1>1. PICK v : Reach(n, R, i, v)
  BY ReachExists
<1>2. Rec(v)
  <2>1. ASSUME NEW k \in 0..n
        PROVE  v[k] = IF k = 0 THEN {i} ELSE Neighbours(R, v[k - 1])
    <3>1. CASE k = 0
      BY <1>1, <3>1 DEF Reach
    <3>2. CASE k # 0
      <4>1. k - 1 \in 0..n - 1 /\ (k - 1) + 1 = k
        BY <3>2
      <4>2. v[(k - 1) + 1] = Neighbours(R, v[k - 1])
        BY <1>1, <4>1 DEF Reach
      <4> QED
        BY <3>2, <4>1, <4>2
    <3> QED
      BY <3>1, <3>2
  <2>2. v = [k \in 0..n |-> v[k]]
    BY <1>1 DEF Reach
  <2>3. v = [k \in 0..n |-> IF k = 0 THEN {i} ELSE Neighbours(R, v[k - 1])]
    BY <2>1, <2>2
  <2> QED
    BY <2>3, Zenon DEF Neighbours
<1>3. PICK r : Rec(r) /\ Connected(n, R, i) = r[n]
  BY <1>2, Zenon DEF Connected
<1>4. r = [k \in 0..n |-> IF k = 0 THEN {i} ELSE Neighbours(R, r[k - 1])]
  BY <1>3, Zenon DEF Neighbours
<1> HIDE DEF Rec
<1>5. ASSUME NEW k \in 0..n - 1 PROVE r[k + 1] = Neighbours(R, r[k])
  <2>1. k + 1 \in 0..n /\ k + 1 # 0 /\ (k + 1) - 1 = k
    OBVIOUS
  <2>2. r[k + 1] = Neighbours(R, r[(k + 1) - 1])
    BY <1>4, <2>1
  <2> QED
    BY <2>1, <2>2
<1>6. r[0] = {i}
  BY <1>4
<1>7. r \in [0..n -> SUBSET (1..n)]
  <2> DEFINE S == {k \in Nat : k \in 0..n => r[k] \in SUBSET (1..n)}
  <2>1. 0 \in S
    BY <1>6
  <2>2. ASSUME NEW k \in S PROVE k + 1 \in S
    <3>1. CASE k + 1 \in 0..n
      <4>1. k \in 0..n - 1 /\ r[k] \in SUBSET (1..n)
        BY <3>1
      <4>2. r[k + 1] \in SUBSET (1..n)
        <5>1. r[k + 1] = Neighbours(R, r[k])
          BY <1>5, <4>1
        <5> QED
          BY <4>1, <5>1 DEF Neighbours
      <4> QED
        BY <4>2
    <3> QED
      BY <3>1
  <2>3. \A k \in 0..n : r[k] \in SUBSET (1..n)
    <3> HIDE DEF S
    <3>1. \A k \in Nat : k \in S
      BY <2>1, <2>2, AllNaturals DEF S
    <3> QED
      BY <3>1 DEF S
  <2>4. r = [k \in 0..n |-> r[k]]
    BY <1>4
  <2> QED
    BY <2>3, <2>4
<1> QED
  BY <1>3, <1>5, <1>6, <1>7 DEF Reach

\* n rounds close the set: a round that adds nothing is followed by no other
\* that does, and n rounds that each add one would make it too large.
LEMMA ReachCloses ==
  ASSUME NEW n \in Nat, NEW R \in SUBSET ((1..n) \X (1..n)), NEW i \in 1..n,
         NEW r, Reach(n, R, i, r)
  PROVE  Neighbours(R, r[n]) = r[n]
<1>1. ASSUME \A k \in 0..n : Neighbours(R, r[k]) # r[k] PROVE FALSE
  <2> DEFINE S == {k \in Nat : k \in 0..n => Cardinality(r[k]) >= k + 1}
  <2>1. \A k \in 0..n : r[k] \in SUBSET (1..n) /\ IsFiniteSet(r[k])
    <3>1. IsFiniteSet(1..n)
      BY FS_Interval
    <3>2. \A k \in 0..n : r[k] \in SUBSET (1..n)
      BY DEF Reach
    <3> QED
      BY <3>1, <3>2, FS_Subset
  <2>2. 0 \in S
    <3>1. r[0] = {i} /\ Cardinality({i}) = 1
      BY FS_Singleton DEF Reach
    <3> QED
      BY <3>1
  <2>3. ASSUME NEW k \in S PROVE k + 1 \in S
    <3>1. CASE k + 1 \in 0..n
      <4>1. k \in 0..n - 1 /\ k \in 0..n
        BY <3>1
      <4>2. r[k + 1] = Neighbours(R, r[k]) /\ r[k] \subseteq r[k + 1]
        <5>1. r[k + 1] = Neighbours(R, r[k])
          BY <4>1 DEF Reach
        <5> QED
          BY <2>1, <4>1, <5>1, NeighboursType
      <4>3. r[k + 1] # r[k]
        BY <1>1, <4>1, <4>2
      <4>4. /\ Cardinality(r[k]) \in Nat /\ Cardinality(r[k + 1]) \in Nat
            /\ Cardinality(r[k]) <= Cardinality(r[k + 1])
            /\ Cardinality(r[k]) # Cardinality(r[k + 1])
        <5>1. IsFiniteSet(r[k]) /\ IsFiniteSet(r[k + 1])
          BY <2>1, <3>1, <4>1
        <5> QED
          BY <4>2, <4>3, <5>1, FS_Subset, FS_CardinalityType
      <4>5. Cardinality(r[k]) >= k + 1
        BY <4>1
      <4>6. Cardinality(r[k + 1]) >= (k + 1) + 1
        BY <4>4, <4>5
      <4> QED
        BY <4>6
    <3> QED
      BY <3>1
  <2>4. Cardinality(r[n]) >= n + 1
    <3> HIDE DEF S
    <3>1. \A k \in Nat : k \in S
      BY <2>2, <2>3, AllNaturals DEF S
    <3> QED
      BY <3>1 DEF S
  <2>5. IsFiniteSet(1..n) /\ Cardinality(1..n) = n
    BY FS_Interval
  <2>6. Cardinality(r[n]) <= n /\ Cardinality(r[n]) \in Nat
    <3>1. r[n] \in SUBSET (1..n) /\ IsFiniteSet(r[n])
      BY <2>1
    <3> QED
      BY <2>5, <3>1, FS_Subset, FS_CardinalityType
  <2> QED
    BY <2>4, <2>6
<1>2. PICK m \in 0..n : Neighbours(R, r[m]) = r[m]
  BY <1>1
<1> DEFINE S == {k \in Nat : m + k \in 0..n => r[m + k] = r[m]}
<1>3. 0 \in S
  OBVIOUS
<1>4. ASSUME NEW k \in S PROVE k + 1 \in S
  <2>1. CASE m + (k + 1) \in 0..n
    <3>1. m + k \in 0..n - 1 /\ m + (k + 1) = (m + k) + 1
      BY <2>1
    <3>2. r[m + k] = r[m]
      BY <3>1
    <3>3. r[(m + k) + 1] = Neighbours(R, r[m + k])
      BY <3>1 DEF Reach
    <3> QED
      BY <1>2, <3>1, <3>2, <3>3
  <2> QED
    BY <2>1
<1>5. r[n] = r[m]
  <2> HIDE DEF S
  <2>1. \A k \in Nat : k \in S
    BY <1>3, <1>4, AllNaturals DEF S
  <2>2. n - m \in Nat /\ m + (n - m) = n /\ n \in 0..n
    OBVIOUS
  <2>3. n - m \in S
    BY <2>1, <2>2
  <2> QED
    BY <2>2, <2>3 DEF S
<1> QED
  BY <1>2, <1>5

\* What is connected with i is the least set that contains i and that R does
\* not lead out of.
LEMMA ConnectedIsLeast ==
  ASSUME NEW n \in Nat, NEW R \in SUBSET ((1..n) \X (1..n)), NEW i \in 1..n
  PROVE  /\ Connected(n, R, i) \in SUBSET (1..n) /\ i \in Connected(n, R, i)
         /\ Closed(R, Connected(n, R, i))
         /\ \A C \in SUBSET (1..n) : i \in C /\ Closed(R, C) => Connected(n, R, i) \subseteq C
<1>1. PICK r : Reach(n, R, i, r) /\ Connected(n, R, i) = r[n]
  BY ConnectedIsReach
<1>2. r \in [0..n -> SUBSET (1..n)] /\ r[0] = {i} /\ n \in 0..n /\ 0 \in 0..n
  BY <1>1 DEF Reach
<1>3. Neighbours(R, r[n]) = r[n]
  BY <1>1, ReachCloses
<1>4. Closed(R, r[n])
  BY <1>3 DEF Closed, Neighbours
<1>5. ASSUME NEW C \in SUBSET (1..n), i \in C, Closed(R, C) PROVE r[n] \subseteq C
  <2> DEFINE S == {k \in Nat : k \in 0..n => r[k] \subseteq C}
  <2>1. 0 \in S
    BY <1>2, <1>5
  <2>2. ASSUME NEW k \in S PROVE k + 1 \in S
    <3>1. CASE k + 1 \in 0..n
      <4>1. k \in 0..n - 1 /\ r[k] \subseteq C
        BY <3>1
      <4>2. r[k + 1] = Neighbours(R, r[k])
        BY <1>1, <4>1 DEF Reach
      <4>3. r[k + 1] \subseteq C
        BY <1>5, <4>1, <4>2 DEF Closed, Neighbours
      <4> QED
        BY <4>3
    <3> QED
      BY <3>1
  <2> HIDE DEF S
  <2>3. \A k \in Nat : k \in S
    BY <2>1, <2>2, AllNaturals DEF S
  <2> QED
    BY <1>2, <2>3 DEF S
<1>6. i \in r[n]
  <2> DEFINE S == {k \in Nat : k \in 0..n => i \in r[k]}
  <2>1. 0 \in S
    BY <1>2
  <2>2. ASSUME NEW k \in S PROVE k + 1 \in S
    <3>1. CASE k + 1 \in 0..n
      <4>1. k \in 0..n - 1 /\ i \in r[k]
        BY <3>1
      <4>2. r[k + 1] = Neighbours(R, r[k])
        BY <1>1, <4>1 DEF Reach
      <4>3. i \in r[k + 1]
        BY <4>1, <4>2 DEF Neighbours
      <4> QED
        BY <4>3
    <3> QED
      BY <3>1
  <2> HIDE DEF S
  <2>3. \A k \in Nat : k \in S
    BY <2>1, <2>2, AllNaturals DEF S
  <2> QED
    BY <1>2, <2>3 DEF S
<1> QED
  BY <1>1, <1>2, <1>4, <1>5, <1>6

---------------------------------------------------------------------------
(* A union and the link it was made for                                     *)

\* GroupsSoFar, of any pointers and links.
Sound(n, p, R) ==
  \A i, j \in 1..n : Root(p, i) = Root(p, j) <=> j \in Connected(n, R, i)

\* No link made: everything is alone.
LEMMA SoundAtStart ==
  ASSUME NEW n \in Nat
  PROVE  /\ Forest(n, [i \in 1..n |-> i], [i \in 1..n |-> 0])
         /\ Sound(n, [i \in 1..n |-> i], {})
<1> DEFINE p == [i \in 1..n |-> i]
           rk == [i \in 1..n |-> 0]
<1>1. Forest(n, p, rk)
  BY DEF Forest, Pointers
<1>2. ASSUME NEW i \in 1..n PROVE Root(p, i) = i
  <2>1. p[i] = i
    OBVIOUS
  <2> HIDE DEF p, rk
  <2> QED
    BY <1>1, <2>1, RootFacts
<1>3. ASSUME NEW i \in 1..n PROVE Connected(n, {}, i) = {i}
  <2>1. /\ i \in Connected(n, {}, i)
        /\ \A C \in SUBSET (1..n) : i \in C /\ Closed({}, C) => Connected(n, {}, i) \subseteq C
    BY ConnectedIsLeast
  <2>2. {i} \in SUBSET (1..n) /\ Closed({}, {i})
    BY DEF Closed
  <2> QED
    BY <2>1, <2>2
<1> HIDE DEF p, rk
<1>4. Sound(n, p, {})
  BY <1>2, <1>3 DEF Sound
<1> QED
  BY <1>1, <1>4 DEF p, rk

\* One more union, one more link: the groups are still what the links connect.
LEMMA SoundUnion ==
  ASSUME NEW n \in Nat, Forest(n, parent, rank), NEW R \in SUBSET ((1..n) \X (1..n)),
         Sound(n, parent, R), NEW x \in 1..n, NEW y \in 1..n, Union(x, y)
  PROVE  Sound(n, parent', R \cup {<<x, y>>})
<1> DEFINE Q == R \cup {<<x, y>>}
           C(i) == Connected(n, R, i)
           D(i) == Connected(n, Q, i)
           root(i) == Root(parent, i)
           new(i) == Root(parent', i)
<1>1. \A i, j \in 1..n :
        new(i) = new(j) <=> root(i) = root(j) \/ {root(i), root(j)} \subseteq {root(x), root(y)}
  BY UnionMerges
<1>2. \A i \in 1..n : /\ C(i) \in SUBSET (1..n) /\ i \in C(i) /\ Closed(R, C(i))
                      /\ \A S \in SUBSET (1..n) : i \in S /\ Closed(R, S) => C(i) \subseteq S
  BY ConnectedIsLeast
<1>3. \A i \in 1..n : /\ D(i) \in SUBSET (1..n) /\ i \in D(i) /\ Closed(Q, D(i))
                      /\ \A S \in SUBSET (1..n) : i \in S /\ Closed(Q, S) => D(i) \subseteq S
  <2>1. Q \in SUBSET ((1..n) \X (1..n))
    OBVIOUS
  <2> HIDE DEF Q
  <2> QED
    BY <2>1, ConnectedIsLeast
<1>4. \A i, j \in 1..n : root(i) = root(j) <=> j \in C(i)
  BY DEF Sound
<1> HIDE DEF C, D, root, new
<1>5. ASSUME NEW i \in 1..n, NEW j \in D(i) PROVE new(i) = new(j)
  <2> DEFINE S == {k \in 1..n : new(i) = new(k)}
  <2>1. ASSUME NEW l \in Q PROVE l[1] \in S <=> l[2] \in S
    <3>1. l[1] \in 1..n /\ l[2] \in 1..n
      OBVIOUS
    <3>2. CASE l \in R
      <4>1. l[2] \in C(l[1])
        BY <1>2, <3>1, <3>2 DEF Closed
      <4> QED
        BY <1>1, <1>4, <3>1, <4>1
    <3>3. CASE l = <<x, y>>
      <4>1. new(x) = new(y)
        BY <1>1
      <4> QED
        BY <3>3, <4>1
    <3> QED
      BY <3>2, <3>3
  <2>2. Closed(Q, S) /\ i \in S /\ S \in SUBSET (1..n)
    <3> HIDE DEF Q
    <3> QED
      BY <2>1 DEF Closed
  <2>3. j \in S
    <3> HIDE DEF Q, S
    <3> QED
      BY <1>3, <2>2
  <2> QED
    BY <2>3
<1>6. \A i, j \in 1..n : j \in D(i) => C(j) \subseteq D(i)
  <2>1. \A i \in 1..n : Closed(R, D(i))
    BY <1>3 DEF Closed
  <2> QED
    BY <1>2, <1>3, <2>1
<1>7. ASSUME NEW i \in 1..n PROVE x \in D(i) <=> y \in D(i)
  <2>1. Closed(Q, D(i)) /\ <<x, y>> \in Q
    BY <1>3
  <2>2. <<x, y>>[1] \in D(i) <=> <<x, y>>[2] \in D(i)
    <3> HIDE DEF Q
    <3> QED
      BY <2>1 DEF Closed
  <2> QED
    BY <2>2
<1>8. ASSUME NEW i \in 1..n, NEW j \in 1..n, new(i) = new(j) PROVE j \in D(i)
  <2>1. CASE root(i) = root(j)
    BY <1>3, <1>4, <1>6, <2>1
  <2>2. CASE root(i) = root(x) /\ root(j) = root(y)
    <3>1. x \in D(i)
      BY <1>3, <1>4, <1>6, <2>2
    <3>2. y \in D(i) /\ j \in C(y)
      BY <1>4, <1>7, <2>2, <3>1
    <3> QED
      BY <1>6, <3>2
  <2>3. CASE root(i) = root(y) /\ root(j) = root(x)
    <3>1. y \in D(i)
      BY <1>3, <1>4, <1>6, <2>3
    <3>2. x \in D(i) /\ j \in C(x)
      BY <1>4, <1>7, <2>3, <3>1
    <3> QED
      BY <1>6, <3>2
  <2> QED
    BY <1>1, <1>8, <2>1, <2>2, <2>3
<1>9. \A i, j \in 1..n : new(i) = new(j) <=> j \in D(i)
  BY <1>5, <1>8
<1> QED
  BY <1>9 DEF Sound, new, D

---------------------------------------------------------------------------
(* Least and greatest numbers, and sorting                                  *)

LEMMA LeastExists ==
  ASSUME NEW S \in SUBSET Nat, S # {}
  PROVE  Min(S) \in S /\ \A k \in S : Min(S) <= k
<1>1. PICK m \in S : \A k \in S : ~ (<<k, m>> \in OpToRel(<, Nat))
  <2> DEFINE R == OpToRel(<, Nat)
  <2>1. IsWellFoundedOn(R, Nat)
    BY NatLessThanWellFounded
  <2> HIDE DEF R
  <2>2. \E m \in S : \A k \in S : ~ (<<k, m>> \in R)
    BY <2>1, WFMin
  <2> QED
    BY <2>2 DEF R
<1>2. ASSUME NEW k \in S PROVE m <= k
  <2>1. k \in Nat /\ m \in Nat
    OBVIOUS
  <2>2. CASE k < m
    <3>1. <<k, m>> \in Nat \X Nat /\ <<k, m>>[1] < <<k, m>>[2]
      BY <2>1, <2>2
    <3>2. <<k, m>> \in OpToRel(<, Nat)
      BY <3>1 DEF OpToRel
    <3> QED
      BY <1>1, <3>2
  <2> QED
    BY <2>1, <2>2
<1> QED
  BY <1>2 DEF Min

\* B gives every element of S those before it, in some order of S.
Orders(S, B) ==
  /\ B \in [S -> SUBSET S]
  /\ \A x \in S : x \notin B[x] /\ \A y \in B[x] : B[y] \subseteq B[x]
  /\ \A x, y \in S : x = y \/ x \in B[y] \/ y \in B[x]

\* The elements of a finite set have as many before them as there are places
\* before theirs.
LEMMA PlacesFilled ==
  ASSUME NEW S, IsFiniteSet(S), NEW B, Orders(S, B)
  PROVE  /\ Cardinality(S) \in Nat
         /\ \A x \in S : Cardinality(B[x]) + 1 \in 1..Cardinality(S)
         /\ \A k \in 1..Cardinality(S) : \E x \in S : Cardinality(B[x]) = k - 1
         /\ \A x, y \in S : Cardinality(B[x]) = Cardinality(B[y]) => x = y
<1> DEFINE n == Cardinality(S)
           place == [x \in S |-> Cardinality(B[x]) + 1]
<1>1. n \in Nat /\ IsFiniteSet(1..n) /\ Cardinality(1..n) = n
  BY FS_CardinalityType, FS_Interval
<1> HIDE DEF n
<1>2. ASSUME NEW x \in S
      PROVE  IsFiniteSet(B[x]) /\ Cardinality(B[x]) \in 0..n - 1
  <2>1. B[x] \subseteq S /\ B[x] # S
    BY DEF Orders
  <2>2. /\ IsFiniteSet(B[x]) /\ Cardinality(B[x]) <= n
        /\ Cardinality(B[x]) # n
    BY <2>1, FS_Subset DEF n
  <2> QED
    BY <1>1, <2>2, FS_CardinalityType
<1>3. ASSUME NEW x \in S, NEW y \in S, x \in B[y]
      PROVE  Cardinality(B[x]) < Cardinality(B[y])
  <2>1. B[x] \subseteq B[y] /\ B[x] # B[y]
    BY <1>3 DEF Orders
  <2>2. /\ Cardinality(B[x]) <= Cardinality(B[y])
        /\ Cardinality(B[x]) # Cardinality(B[y])
    BY <1>2, <2>1, FS_Subset
  <2> QED
    BY <1>2, <2>2
<1>4. /\ place \in [S -> 1..n]
      /\ \A x \in S : place[x] = Cardinality(B[x]) + 1
  <2>1. \A x \in S : Cardinality(B[x]) + 1 \in 1..n
    BY <1>1, <1>2
  <2> QED
    BY <2>1
<1> HIDE DEF place
<1>5. ASSUME NEW x \in S, NEW y \in S, place[x] = place[y] PROVE x = y
  <2>1. Cardinality(B[x]) = Cardinality(B[y]) /\ Cardinality(B[x]) \in Nat
    BY <1>1, <1>2, <1>4, <1>5
  <2>2. ~ (x \in B[y]) /\ ~ (y \in B[x])
    BY <1>3, <2>1
  <2> QED
    BY <2>2 DEF Orders
<1>6. place \in Injection(S, 1..n)
  BY <1>4, <1>5 DEF Injection, IsInjective
<1>7. place \in Surjection(S, 1..n)
  BY <1>1, <1>6, FS_Injection DEF n
<1>8. ASSUME NEW k \in 1..n PROVE \E x \in S : Cardinality(B[x]) = k - 1
  <2>1. PICK x \in S : place[x] = k
    BY <1>7 DEF Surjection
  <2>2. Cardinality(B[x]) \in Nat /\ k = Cardinality(B[x]) + 1
    BY <1>1, <1>2, <1>4, <2>1
  <2> QED
    BY <2>2
<1>9. \A x, y \in S : Cardinality(B[x]) = Cardinality(B[y]) => x = y
  BY <1>4, <1>5
<1> QED
  BY <1>1, <1>4, <1>8, <1>9 DEF n

\* Keys of one length, and the order of them, which is strict and total.
Keys(m) == [1..m -> Int]

LEMMA GreaterOrders ==
  ASSUME NEW m \in Nat, NEW s \in Keys(m), NEW t \in Keys(m), NEW u \in Keys(m)
  PROVE  /\ ~Greater(s, s)
         /\ Greater(s, t) /\ Greater(t, u) => Greater(s, u)
         /\ s = t \/ Greater(s, t) \/ Greater(t, s)
<1> USE DEF Keys
<1>1. ~Greater(s, s)
  BY DEF Greater
<1>2. ASSUME Greater(s, t), Greater(t, u) PROVE Greater(s, u)
  <2>1. PICK k \in 1..m : s[k] > t[k] /\ \A j \in 1..(k - 1) : s[j] = t[j]
    BY <1>2 DEF Greater
  <2>2. PICK l \in 1..m : t[l] > u[l] /\ \A j \in 1..(l - 1) : t[j] = u[j]
    BY <1>2 DEF Greater
  <2>3. CASE k <= l
    <3>1. s[k] > u[k]
      BY <2>1, <2>2, <2>3
    <3>2. \A j \in 1..(k - 1) : s[j] = u[j]
      BY <2>1, <2>2, <2>3
    <3> QED
      BY <3>1, <3>2 DEF Greater
  <2>4. CASE l < k
    <3>1. s[l] > u[l]
      BY <2>1, <2>2, <2>4
    <3>2. \A j \in 1..(l - 1) : s[j] = u[j]
      BY <2>1, <2>2, <2>4
    <3> QED
      BY <3>1, <3>2 DEF Greater
  <2> QED
    BY <2>3, <2>4
<1>3. ASSUME s # t PROVE Greater(s, t) \/ Greater(t, s)
  <2> DEFINE D == {k \in 1..m : s[k] # t[k]}
  <2>1. D \in SUBSET Nat /\ D # {}
    BY <1>3
  <2>2. Min(D) \in D /\ \A k \in D : Min(D) <= k
    <3> HIDE DEF D
    <3> QED
      BY <2>1, LeastExists
  <2>3. PICK k \in 1..m : s[k] # t[k] /\ \A j \in 1..(k - 1) : s[j] = t[j]
    <3> DEFINE l == Min(D)
    <3>1. l \in 1..m /\ s[l] # t[l]
      BY <2>2
    <3>2. \A j \in 1..m : j < l => j \notin D
      <4> HIDE DEF D
      <4>1. \A j \in D : l <= j
        BY <2>2
      <4> HIDE DEF l
      <4> QED
        BY <3>1, <4>1
    <3> HIDE DEF l
    <3>3. \A j \in 1..(l - 1) : j \in 1..m /\ j < l
      BY <3>1
    <3>4. \A j \in 1..(l - 1) : s[j] = t[j]
      BY <3>2, <3>3
    <3> QED
      BY <3>1, <3>4
  <2>4. s[k] > t[k] \/ t[k] > s[k]
    BY <2>3
  <2>5. DOMAIN s = 1..m /\ DOMAIN t = 1..m
    OBVIOUS
  <2> QED
    BY <2>3, <2>4, <2>5 DEF Greater
<1> QED
  BY <1>1, <1>2, <1>3

\* A sequence of the elements of S, each once.
Arranges(order, S) ==
  /\ Cardinality(S) \in Nat /\ order \in [1..Cardinality(S) -> S]
  /\ \A x \in S : \E k \in 1..Cardinality(S) : order[k] = x
  /\ \A k, l \in 1..Cardinality(S) : order[k] = order[l] => k = l

\* The elements of S are known by how many are above them.
Placed(order, S, key) ==
  /\ \A k \in 1..Cardinality(S) : Cardinality(Above(S, key, order[k])) = k - 1
  /\ \A x, y \in S : Cardinality(Above(S, key, x)) = Cardinality(Above(S, key, y)) => x = y

\* What has different keys is sorted.
LEMMA SortedByKey ==
  ASSUME NEW S, IsFiniteSet(S), NEW m \in Nat, NEW key \in [S -> Keys(m)],
         \A x, y \in S : key[x] = key[y] => x = y
  PROVE  Arranges(InOrder(S, key), S) /\ Placed(InOrder(S, key), S, key)
<1> DEFINE B == [x \in S |-> Above(S, key, x)]
           n == Cardinality(S)
           order == InOrder(S, key)
<1>1. \A x, y \in S : y \in B[x] <=> Greater(key[y], key[x])
  BY DEF Above
<1>2. B \in [S -> SUBSET S]
  BY DEF Above
<1>3. Orders(S, B)
  <2> HIDE DEF B
  <2>1. \A x \in S : x \notin B[x]
    BY <1>1, GreaterOrders
  <2>2. ASSUME NEW x \in S, NEW y \in B[x], NEW z \in B[y] PROVE z \in B[x]
    <3>1. y \in S /\ z \in S
      BY <1>2, <2>2
    <3>2. Greater(key[y], key[x]) /\ Greater(key[z], key[y])
      BY <1>1, <2>2, <3>1
    <3>3. key[x] \in Keys(m) /\ key[y] \in Keys(m) /\ key[z] \in Keys(m)
      BY <3>1
    <3>4. Greater(key[z], key[x])
      BY <3>2, <3>3, GreaterOrders
    <3> QED
      BY <1>1, <3>1, <3>4
  <2>3. ASSUME NEW x \in S, NEW y \in S PROVE x = y \/ x \in B[y] \/ y \in B[x]
    <3>1. key[x] \in Keys(m) /\ key[y] \in Keys(m)
      OBVIOUS
    <3>2. key[x] = key[y] \/ Greater(key[x], key[y]) \/ Greater(key[y], key[x])
      BY <3>1, GreaterOrders
    <3> QED
      BY <1>1, <3>2
  <2> QED
    BY <1>2, <2>1, <2>2, <2>3 DEF Orders
<1>4. /\ n \in Nat
      /\ \A x \in S : Cardinality(B[x]) + 1 \in 1..n
      /\ \A k \in 1..n : \E x \in S : Cardinality(B[x]) = k - 1
      /\ \A x, y \in S : Cardinality(B[x]) = Cardinality(B[y]) => x = y
  <2> HIDE DEF B
  <2> QED
    BY <1>3, PlacesFilled
<1>5. \A k \in 1..n : \E x \in S : Cardinality(Above(S, key, x)) = k - 1
  BY <1>4
<1>6. order = [k \in 1..n |-> CHOOSE x \in S : Cardinality(Above(S, key, x)) = k - 1]
  BY DEF InOrder
<1> HIDE DEF order, n
<1>7. \A k \in 1..n : order[k] \in S /\ Cardinality(Above(S, key, order[k])) = k - 1
  BY <1>5, <1>6
<1>8. order \in [1..n -> S]
  BY <1>6, <1>7
<1>9. \A x, y \in S : Cardinality(Above(S, key, x)) = Cardinality(Above(S, key, y)) => x = y
  BY <1>4
<1>10. ASSUME NEW x \in S PROVE \E k \in 1..n : order[k] = x
  <2> DEFINE c == Cardinality(Above(S, key, x))
  <2>1. c + 1 \in 1..n
    BY <1>4
  <2> HIDE DEF c
  <2>2. c \in Int /\ (c + 1) - 1 = c
    <3>1. IsFiniteSet(Above(S, key, x))
      BY FS_Subset DEF Above
    <3> QED
      BY <3>1, FS_CardinalityType DEF c
  <2>3. order[c + 1] = x
    BY <1>7, <1>9, <2>1, <2>2 DEF c
  <2> QED
    BY <2>1, <2>3
<1>11. \A k, l \in 1..n : order[k] = order[l] => k = l
  <2> SUFFICES ASSUME NEW k \in 1..n, NEW l \in 1..n, order[k] = order[l] PROVE k = l
    OBVIOUS
  <2>1. k - 1 = l - 1
    BY <1>7
  <2> QED
    BY <1>4, <2>1
<1> QED
  BY <1>4, <1>7, <1>8, <1>9, <1>10, <1>11 DEF n, order, Arranges, Placed

\* Numbers in their order are the numbers, each once.
LEMMA NumbersSorted ==
  ASSUME NEW S \in SUBSET Nat, IsFiniteSet(S)
  PROVE  Arranges(Ascending(S), S)
<1> DEFINE key == [i \in S |-> <<-i>>]
<1>1. key \in [S -> Keys(1)]
  BY DEF Keys
<1>2. \A x, y \in S : key[x] = key[y] => x = y
  <2> SUFFICES ASSUME NEW x \in S, NEW y \in S, key[x] = key[y] PROVE x = y
    OBVIOUS
  <2>1. <<-x>>[1] = <<-y>>[1]
    OBVIOUS
  <2> QED
    BY <2>1
<1>3. Ascending(S) = InOrder(S, key)
  BY DEF Ascending
<1>4. 1 \in Nat
  OBVIOUS
<1> HIDE DEF key
<1> QED
  BY <1>1, <1>2, <1>3, <1>4, SortedByKey

---------------------------------------------------------------------------
(* What is normalized and merged                                            *)

Findings == StoredFindings \cup {NormalizeOne(o) : o \in Observations}

\* A severity and a status as the enumerations have them.
Typed(f) == f.severity \in 0..4 /\ f.status \in Statuses

\* What PassIsInfo says of one finding.
Quiet(f) == f.status \in Passing => f.severity = INFO

LEMMA NormalizedIsTyped ==
  ASSUME NEW o \in Observations
  PROVE  Typed(NormalizeOne(o)) /\ Quiet(NormalizeOne(o))
<1>1. MEDIUM \in 0..4 /\ INFO \in 0..4 /\ "ERROR" \in Statuses \ Passing
  BY DEF MEDIUM, INFO, Statuses, Passing
<1>2. \A key \in DOMAIN DefaultSeverity : DefaultSeverity[key] \in 0..4
  BY DEF DefaultSeverity
<1>3. \A key : Listed(o, key) \in 0..4
  <2> SUFFICES ASSUME NEW key PROVE Listed(o, key) \in 0..4
    OBVIOUS
  <2>1. CASE key \in DOMAIN AdapterSeverity[o.tool]
    BY <2>1, ConsolidationAssumption DEF ConsolidationAssumption, Listed
  <2>2. CASE key \notin DOMAIN AdapterSeverity[o.tool] /\ key \in DOMAIN DefaultSeverity
    <3> HIDE DEF DefaultSeverity
    <3> QED
      BY <1>2, <2>2 DEF Listed
  <2>3. CASE key \notin DOMAIN AdapterSeverity[o.tool] /\ key \notin DOMAIN DefaultSeverity
    <3> HIDE DEF DefaultSeverity
    <3> QED
      BY <1>1, <2>3 DEF Listed
  <2> QED
    BY <2>1, <2>2, <2>3
<1>4. ResolveSeverity(o) \in 0..4
  BY <1>1, <1>3 DEF ResolveSeverity
<1>5. ResolveStatus(o) \in Statuses
  BY <1>1 DEF ResolveStatus
<1>6. ResolveStatus(o) \in Passing => ResolveSeverity(o) = INFO
  BY <1>1 DEF ResolveStatus, ResolveSeverity
<1> QED
  BY <1>4, <1>5, <1>6 DEF NormalizeOne, Typed, Quiet

LEMMA FindingsAreTyped == \A f \in Findings : Typed(f)
BY NormalizedIsTyped, ConsolidationAssumption DEF Findings, Typed, ConsolidationAssumption

\* Grouping by tool keeps the number of observations.
LEMMA NormalizedType ==
  ASSUME NEW O, NEW obs \in Seq(O)
  PROVE  Normalized(obs) \in Seq({NormalizeOne(o) : o \in O})
<1> DEFINE n == Len(obs)
           D == DOMAIN obs
           First(i) == Min({j \in D : obs[j].tool = obs[i].tool})
           key == [i \in D |-> <<-First(i), -i>>]
           order == InOrder(D, key)
<1>1. n \in Nat /\ D = 1..n /\ obs \in [1..n -> O]
  BY LenProperties
<1>2. ASSUME NEW i \in D PROVE First(i) \in Nat
  <2> DEFINE S == {j \in D : obs[j].tool = obs[i].tool}
  <2>1. S \in SUBSET Nat /\ i \in S
    BY <1>1
  <2>2. Min(S) \in Nat
    <3> HIDE DEF S
    <3> QED
      BY <2>1, LeastExists
  <2> QED
    BY <2>2
<1> HIDE DEF First
<1>3. key \in [D -> Keys(2)]
  BY <1>1, <1>2 DEF Keys
<1>4. ASSUME NEW i \in D, NEW j \in D, key[i] = key[j] PROVE i = j
  <2>1. <<-First(i), -i>>[2] = <<-First(j), -j>>[2]
    BY <1>4
  <2> QED
    BY <1>1, <2>1
<1>5. Cardinality(D) = n /\ IsFiniteSet(D)
  BY <1>1, FS_Interval
<1>6. order \in [1..n -> D]
  <2> HIDE DEF D, key
  <2> QED
    BY <1>3, <1>4, <1>5, SortedByKey DEF Arranges
<1>7. Normalized(obs) = [k \in D |-> NormalizeOne(obs[order[k]])]
  BY DEF Normalized, First
<1> HIDE DEF order
<1>8. \A k \in 1..n : NormalizeOne(obs[order[k]]) \in {NormalizeOne(o) : o \in O}
  BY <1>1, <1>6
<1> QED
  BY <1>1, <1>7, <1>8

\* The greatest of a few severities.
LEMMA MaxSeverity ==
  ASSUME NEW S \in SUBSET (0..4), S # {}
  PROVE  Max(S) \in S /\ \A s \in S : s <= Max(S)
<1>1. \E s \in S : \A t \in S : s >= t
  <2>1. CASE 4 \in S
    BY <2>1
  <2>2. CASE 4 \notin S /\ 3 \in S
    BY <2>2
  <2>3. CASE 4 \notin S /\ 3 \notin S /\ 2 \in S
    BY <2>3
  <2>4. CASE 4 \notin S /\ 3 \notin S /\ 2 \notin S /\ 1 \in S
    BY <2>4
  <2>5. CASE 4 \notin S /\ 3 \notin S /\ 2 \notin S /\ 1 \notin S
    <3>1. 0..4 = {0, 1, 2, 3, 4}
      OBVIOUS
    <3>2. S = {0}
      BY <2>5, <3>1
    <3> QED
      BY <3>2
  <2> QED
    BY <2>1, <2>2, <2>3, <2>4, <2>5
<1> QED
  BY <1>1 DEF Max

\* A merged finding has a severity and a status of its group's, and passes
\* only if the whole group does.
LEMMA MergedIsTyped ==
  ASSUME NEW g, g # <<>>, NEW T, g \in Seq(T), \A f \in T : Typed(f)
  PROVE  /\ Typed(MergeGroup(g))
         /\ (\A i \in DOMAIN g : Quiet(g[i])) => Quiet(MergeGroup(g))
<1> DEFINE D == DOMAIN g
           S == {g[i].severity : i \in D}
           K == {k \in DOMAIN StatusPriority : \E i \in D : g[i].status = StatusPriority[k]}
<1>1. 1 \in D /\ \A i \in D : Typed(g[i])
  BY EmptySeq, LenProperties
<1>2. /\ MergeGroup(g).severity = Max(S)
      /\ MergeGroup(g).status = StatusPriority[Min(K)]
  BY DEF MergeGroup, ReconcileSeverity, ReconcileStatus
<1>3. S \in SUBSET (0..4) /\ S # {}
  BY <1>1 DEF Typed
<1>4. Max(S) \in S
  <2> HIDE DEF S
  <2> QED
    BY <1>3, MaxSeverity
<1>5. /\ DOMAIN StatusPriority = 1..6
      /\ \A k \in 1..6 : /\ StatusPriority[k] \in Statuses
                         /\ StatusPriority[k] \in Passing <=> k >= 5
      /\ \A st \in Statuses : \E k \in 1..6 : st = StatusPriority[k]
  BY DEF StatusPriority, Statuses, Passing
<1>6. K \in SUBSET Nat /\ K # {} /\ K \subseteq 1..6
  <2> HIDE DEF StatusPriority
  <2> QED
    BY <1>1, <1>5 DEF Typed
<1>7. Min(K) \in K /\ \A k \in K : Min(K) <= k
  <2> HIDE DEF K
  <2> QED
    BY <1>6, LeastExists
<1>8. Typed(MergeGroup(g))
  BY <1>2, <1>3, <1>4, <1>5, <1>6, <1>7 DEF Typed
<1>9. ASSUME \A i \in D : Quiet(g[i]), MergeGroup(g).status \in Passing
      PROVE  MergeGroup(g).severity = INFO
  <2>1. Min(K) >= 5 /\ Min(K) \in 1..6
    BY <1>2, <1>5, <1>6, <1>7, <1>9
  <2>2. ASSUME NEW i \in D PROVE g[i].status \in Passing
    <3>1. PICK k \in 1..6 : g[i].status = StatusPriority[k]
      BY <1>1, <1>5 DEF Typed
    <3>2. k \in K
      BY <1>5, <3>1
    <3>3. k >= 5
      <4> HIDE DEF K
      <4>1. Min(K) <= k
        BY <1>7, <3>2
      <4> QED
        BY <2>1, <4>1
    <3> QED
      BY <1>5, <3>1, <3>3
  <2>3. \A i \in D : g[i].severity = INFO
    BY <1>9, <2>2 DEF Quiet
  <2> QED
    BY <1>2, <1>4, <2>3
<1> QED
  BY <1>8, <1>9 DEF Quiet

LEMMA FilledSeq ==
  ASSUME NEW c \in Nat, NEW T, NEW f \in [1..c -> T]
  PROVE  f \in Seq(T) /\ Len(f) = c /\ (c # 0 => f # <<>>)
<1>1. f \in Seq(T)
  BY SeqDef
<1>2. Len(f) = c
  OBVIOUS
<1> QED
  BY <1>1, <1>2, EmptySeq

\* What is kept of a sequence of distinct elements: those at the places, each
\* once.
LEMMA KeptFacts ==
  ASSUME NEW T, NEW s \in Seq(T), NEW P \in SUBSET DOMAIN s
  PROVE  /\ Kept(s, P) \in Seq(T) /\ ToSet(Kept(s, P)) = {s[i] : i \in P}
         /\ P # {} => Kept(s, P) # <<>>
         /\ (\A i, j \in DOMAIN s : s[i] = s[j] => i = j)
              => \A i, j \in DOMAIN Kept(s, P) : Kept(s, P)[i] = Kept(s, P)[j] => i = j
<1> DEFINE c == Cardinality(P)
           order == Ascending(P)
<1>1. Len(s) \in Nat /\ DOMAIN s = 1..Len(s) /\ \A i \in DOMAIN s : s[i] \in T
  BY LenProperties
<1>2. IsFiniteSet(P) /\ P \in SUBSET Nat
  <2>1. IsFiniteSet(DOMAIN s) /\ DOMAIN s \subseteq Nat
    BY <1>1, FS_Interval
  <2> QED
    BY <2>1, FS_Subset
<1>3. /\ c \in Nat /\ order \in [1..c -> P]
      /\ \A i \in P : \E k \in 1..c : order[k] = i
      /\ \A k, l \in 1..c : order[k] = order[l] => k = l
  BY <1>2, NumbersSorted DEF Arranges
<1>4. P # {} => c # 0
  BY <1>2, FS_EmptySet
<1>5. Kept(s, P) = [k \in 1..c |-> s[order[k]]]
  BY <1>3 DEF Kept
<1> HIDE DEF c, order
<1>6. Kept(s, P) \in [1..c -> T] /\ DOMAIN Kept(s, P) = 1..c
  BY <1>1, <1>3, <1>5
<1>7. ToSet(Kept(s, P)) = {s[i] : i \in P}
  <2>1. \A k \in 1..c : order[k] \in P /\ Kept(s, P)[k] = s[order[k]]
    BY <1>3, <1>5
  <2>2. ToSet(Kept(s, P)) = {Kept(s, P)[k] : k \in 1..c}
    BY <1>6 DEF ToSet
  <2>3. \A i \in P : \E k \in 1..c : Kept(s, P)[k] = s[i]
    BY <1>3, <2>1
  <2> QED
    BY <2>1, <2>2, <2>3
<1>8. ASSUME \A i, j \in DOMAIN s : s[i] = s[j] => i = j
      PROVE  \A i, j \in 1..c : Kept(s, P)[i] = Kept(s, P)[j] => i = j
  BY <1>3, <1>5, <1>8
<1>9. Kept(s, P) \in Seq(T) /\ (P # {} => Kept(s, P) # <<>>)
  BY <1>3, <1>4, <1>6, FilledSeq
<1> QED
  BY <1>6, <1>7, <1>8, <1>9

\* Each group by one of its places, the first: every finding is in a group, and
\* two groups have different roots.
GroupsAt(n, c, first) ==
  /\ DOMAIN Groups = 1..c
  /\ \A k \in 1..c : first[k] \in 1..n /\ Groups[k] = Kept(findings, Group(first[k]))
  /\ \A i \in 1..n : \E k \in 1..c : Root(parent, i) = Root(parent, first[k])
  /\ \A k, l \in 1..c : Root(parent, first[k]) = Root(parent, first[l]) => k = l

LEMMA GroupPlaces ==
  ASSUME NEW n \in Nat, Forest(n, parent, rank), NEW T, findings \in [1..n -> T]
  PROVE  \E c \in Nat : \E first : GroupsAt(n, c, first)
<1> DEFINE S == {Min(Group(i)) : i \in 1..n}
           c == Cardinality(S)
           firsts == Ascending(S)
<1>1. DOMAIN parent = 1..n /\ IsFiniteSet(1..n) /\ DOMAIN findings = 1..n
  BY FS_Interval DEF Forest, Pointers
<1>2. \A i, j \in 1..n : j \in Group(i) <=> Root(parent, j) = Root(parent, i)
  BY <1>1 DEF Group
<1>3. ASSUME NEW i \in 1..n PROVE Group(i) \in SUBSET (1..n) /\ Min(Group(i)) \in Group(i)
  <2>1. Group(i) \in SUBSET (1..n) /\ Group(i) \in SUBSET Nat /\ i \in Group(i)
    BY <1>1 DEF Group
  <2> QED
    BY <2>1, LeastExists
<1>4. S \in SUBSET (1..n)
  BY <1>3
<1>5. Arranges(firsts, S)
  <2> HIDE DEF S
  <2>1. S \in SUBSET Nat
    BY <1>4
  <2>2. IsFiniteSet(S)
    BY <1>1, <1>4, FS_Subset
  <2> QED
    BY <2>1, <2>2, NumbersSorted
<1>6. /\ c \in Nat /\ firsts \in [1..c -> S]
      /\ \A x \in S : \E k \in 1..c : firsts[k] = x
      /\ \A k, l \in 1..c : firsts[k] = firsts[l] => k = l
  <2> HIDE DEF S, firsts
  <2> QED
    BY <1>5 DEF Arranges
<1>7. Groups = [k \in DOMAIN firsts |-> Kept(findings, Group(firsts[k]))]
  BY <1>1 DEF Groups
<1>8. \A i \in 1..n : Min(Group(i)) \in S
  OBVIOUS
<1>9. \A x \in S : \E i \in 1..n : x = Min(Group(i))
  OBVIOUS
<1> HIDE DEF S, c, firsts
<1>10. ASSUME NEW i \in 1..n PROVE \E k \in 1..c : Root(parent, i) = Root(parent, firsts[k])
  <2>1. PICK k \in 1..c : firsts[k] = Min(Group(i))
    BY <1>6, <1>8
  <2>2. firsts[k] \in 1..n /\ firsts[k] \in Group(i)
    BY <1>3, <2>1
  <2> QED
    BY <1>2, <2>2
<1>11. ASSUME NEW x \in S, NEW y \in S, Root(parent, x) = Root(parent, y) PROVE x = y
  <2>1. ASSUME NEW z \in S PROVE z \in 1..n /\ z = Min(Group(z))
    <3>1. PICK i \in 1..n : z = Min(Group(i))
      BY <1>9
    <3>2. z \in 1..n /\ z \in Group(i)
      BY <1>3, <3>1
    <3>3. Root(parent, z) = Root(parent, i)
      BY <1>2, <3>2
    <3>4. Group(z) = Group(i)
      BY <3>3 DEF Group
    <3> QED
      BY <3>1, <3>2, <3>4
  <2>2. Group(x) = Group(y)
    BY <1>11 DEF Group
  <2> QED
    BY <2>1, <2>2
<1>12. firsts \in [1..c -> 1..n] /\ DOMAIN Groups = 1..c
  BY <1>4, <1>6, <1>7
<1>13. \A k \in 1..c : Groups[k] = Kept(findings, Group(firsts[k]))
  BY <1>6, <1>7
<1>14. \A k, l \in 1..c : Root(parent, firsts[k]) = Root(parent, firsts[l]) => k = l
  BY <1>6, <1>11
<1>15. GroupsAt(n, c, firsts)
  <2>1. \A k \in 1..c : firsts[k] \in 1..n
    BY <1>12
  <2> QED
    BY <1>10, <1>12, <1>13, <1>14, <2>1, Zenon DEF GroupsAt
<1> QED
  BY <1>6, <1>15

\* The groups that are merged are not empty, and made of findings.
LEMMA GroupsType ==
  ASSUME NEW n \in Nat, Forest(n, parent, rank), NEW T, findings \in [1..n -> T]
  PROVE  \A k \in DOMAIN Groups : Groups[k] \in Seq(T) /\ Groups[k] # <<>>
<1>1. PICK c \in Nat : \E first : GroupsAt(n, c, first)
  BY GroupPlaces
<1>2. findings \in Seq(T)
  BY FilledSeq
<1>3. ASSUME NEW i \in 1..n
      PROVE  Kept(findings, Group(i)) \in Seq(T) /\ Kept(findings, Group(i)) # <<>>
  <2>1. Group(i) \in SUBSET DOMAIN findings /\ i \in Group(i)
    BY DEF Group, Forest, Pointers
  <2> QED
    BY <1>2, <2>1, KeptFacts
<1>4. PICK first : GroupsAt(n, c, first)
  BY <1>1
<1>5. \A k \in DOMAIN Groups : first[k] \in 1..n /\ Groups[k] = Kept(findings, Group(first[k]))
  BY <1>4, Zenon DEF GroupsAt
<1> QED
  BY <1>3, <1>5, Zenon

---------------------------------------------------------------------------
(* The invariant                                                            *)

Typing ==
  /\ observations \in Seq(Observations) /\ findings \in Seq(Findings)
  /\ at \in {"normalize", "consolidate", "group", "done", "failed"}

\* Once grouping began: the pointers are trees, the ranks grow, the groups are
\* what the links made so far connect.
Grouped ==
  LET n == Len(findings)
  IN  /\ at \notin {"group", "done"} => parent = <<>>
      /\ at \in {"group", "done"} =>
           /\ Forest(n, parent, rank)
           /\ pending \subseteq Links(findings)
           /\ Sound(n, parent, Links(findings) \ pending)

ResultsTyped == \A f \in Results : Typed(f)

IInv == Typing /\ Grouped /\ ResultsTyped

\* Every link is one of two findings.
LEMMA LinksType ==
  ASSUME NEW T, NEW fs \in Seq(T)
  PROVE  Links(fs) \in SUBSET ((1..Len(fs)) \X (1..Len(fs)))
<1>1. DOMAIN fs = 1..Len(fs) /\ Len(fs) \in Nat
  BY LenProperties
<1>2. ASSUME NEW I \in Indices(fs) PROVE I \in SUBSET (1..Len(fs)) /\ Min(I) \in I
  <2>1. I \in SUBSET (1..Len(fs)) /\ I # {}
    BY <1>1 DEF Indices
  <2> QED
    BY <2>1, LeastExists
<1> QED
  BY <1>2 DEF Links

LEMMA InitInv == Init => IInv
<1> SUFFICES ASSUME Init PROVE IInv
  OBVIOUS
<1>1. \A S : \A m \in Nat : BoundedSeq(S, m) \subseteq Seq(S)
  BY SeqDef DEF BoundedSeq, SeqOf
<1>2. observations \in Seq(Observations) /\ findings \in Seq(Findings)
  <2>1. CASE /\ observations \in BoundedSeq(Observations, MaxObservations)
             /\ findings = <<>>
    BY <1>1, <2>1, EmptySeq, ConsolidationAssumption DEF ConsolidationAssumption
  <2>2. CASE observations = <<>> /\ findings \in BoundedSeq(StoredFindings, MaxStored)
    <3>1. findings \in Seq(StoredFindings)
      BY <1>1, <2>2, ConsolidationAssumption DEF ConsolidationAssumption
    <3>2. findings \in Seq(Findings)
      BY <3>1, SeqMonotonic DEF Findings
    <3> QED
      BY <2>2, <3>2, EmptySeq
  <2> QED
    BY <2>1, <2>2 DEF Init
<1>3. Typing /\ Grouped
  BY <1>2 DEF Init, Typing, Grouped
<1>4. ResultsTyped
  BY DEF Init, ResultsTyped, Results
<1> QED
  BY <1>3, <1>4 DEF IInv

LEMMA NormalizeInv == IInv /\ Normalize => IInv'
<1> SUFFICES ASSUME IInv, Normalize PROVE IInv'
  OBVIOUS
<1>1. Normalized(observations) \in Seq(Findings)
  <2>1. Normalized(observations) \in Seq({NormalizeOne(o) : o \in Observations})
    BY NormalizedType DEF IInv, Typing
  <2> QED
    BY <2>1, SeqMonotonic DEF Findings
<1>2. Typing'
  BY <1>1 DEF IInv, Typing, Normalize
<1>3. Grouped'
  BY DEF IInv, Grouped, Normalize
<1>4. ResultsTyped'
  BY DEF IInv, ResultsTyped, Results, Normalize
<1> QED
  BY <1>2, <1>3, <1>4 DEF IInv

LEMMA BeginInv == IInv /\ BeginGroup => IInv'
<1> SUFFICES ASSUME IInv, BeginGroup PROVE IInv'
  OBVIOUS
<1> DEFINE n == Len(findings)
<1>1. n \in Nat /\ DOMAIN findings = 1..n
  BY LenProperties DEF IInv, Typing
<1>2. Typing' /\ ResultsTyped'
  BY DEF IInv, Typing, ResultsTyped, Results, BeginGroup, StartGrouping
<1>3. /\ findings' = findings /\ pending' = Links(findings) /\ at' = "group"
      /\ parent' = [i \in 1..n |-> i] /\ rank' = [i \in 1..n |-> 0]
  BY <1>1 DEF BeginGroup, StartGrouping
<1>4. Links(findings') \ pending' = {} /\ Len(findings') = n
  BY <1>3
<1> HIDE DEF n
<1>5. Forest(n, parent', rank') /\ Sound(n, parent', {})
  BY <1>1, <1>3, SoundAtStart
<1>6. Grouped'
  BY <1>3, <1>4, <1>5 DEF Grouped
<1> QED
  BY <1>2, <1>6 DEF IInv

LEMMA GroupingInv == IInv /\ Grouping => IInv'
<1> SUFFICES ASSUME IInv, Grouping PROVE IInv'
  OBVIOUS
<1> DEFINE n == Len(findings)
           links == Links(findings)
<1>1. n \in Nat /\ DOMAIN findings = 1..n
  BY LenProperties DEF IInv, Typing
<1>2. links \in SUBSET ((1..n) \X (1..n))
  BY LinksType DEF IInv, Typing
<1>3. at = "group" /\ at' = at /\ findings' = findings
      /\ observations' = observations /\ consolidated' = consolidated
  BY DEF Grouping, MakeUnion, ReadGroup
<1>4. Typing' /\ ResultsTyped'
  BY <1>3 DEF IInv, Typing, ResultsTyped, Results
<1>5. Forest(n, parent, rank) /\ pending \subseteq links /\ Sound(n, parent, links \ pending)
  BY <1>3 DEF IInv, Grouped
<1>6. Len(findings') = n /\ Links(findings') = links
  BY <1>3
<1> HIDE DEF n, links
<1>7. /\ Forest(n, parent', rank') /\ pending' \subseteq links
      /\ Sound(n, parent', links \ pending')
  <2>1. ASSUME NEW link \in pending, MakeUnion(link)
        PROVE  /\ Forest(n, parent', rank') /\ pending' \subseteq links
               /\ Sound(n, parent', links \ pending')
    <3>1. link \in (1..n) \X (1..n) /\ link[1] \in 1..n /\ link[2] \in 1..n
          /\ link = <<link[1], link[2]>>
      BY <1>2, <1>5
    <3>2. Union(link[1], link[2]) /\ pending' = pending \ {link}
      BY <2>1 DEF MakeUnion
    <3>3. Forest(n, parent', rank')
      BY <1>1, <1>5, <3>1, <3>2, UnionMerges
    <3> DEFINE R == links \ pending
    <3>4. R \in SUBSET ((1..n) \X (1..n))
      BY <1>2
    <3>5. links \ pending' = R \cup {<<link[1], link[2]>>}
      BY <1>5, <3>1, <3>2
    <3>6. Sound(n, parent', R \cup {<<link[1], link[2]>>})
      <4> HIDE DEF R
      <4>1. Sound(n, parent, R)
        BY <1>5 DEF R
      <4> QED
        BY <1>1, <1>5, <3>1, <3>2, <3>4, <4>1, SoundUnion
    <3> QED
      BY <1>5, <3>2, <3>3, <3>5, <3>6
  <2>2. ASSUME NEW i \in 1..n, ReadGroup(i)
        PROVE  /\ Forest(n, parent', rank') /\ pending' \subseteq links
               /\ Sound(n, parent', links \ pending')
    <3>1. parent' = Compressed(parent, i) /\ rank' = rank /\ pending' = pending
      BY <2>2 DEF ReadGroup
    <3>2. /\ Forest(n, Compressed(parent, i), rank)
          /\ \A j \in 1..n : Root(Compressed(parent, i), j) = Root(parent, j)
      BY <1>1, <1>5, CompressedForest
    <3>3. Sound(n, Compressed(parent, i), links \ pending)
      BY <1>5, <3>2 DEF Sound
    <3> QED
      BY <1>5, <3>1, <3>2, <3>3
  <2> QED
    BY <1>1, <2>1, <2>2 DEF Grouping
<1>8. Grouped'
  BY <1>3, <1>6, <1>7 DEF Grouped
<1> QED
  BY <1>4, <1>8 DEF IInv

LEMMA MergeInv == IInv /\ MergeGroups => IInv'
<1> SUFFICES ASSUME IInv, MergeGroups PROVE IInv'
  OBVIOUS
<1>1. Typing'
  BY DEF IInv, Typing, MergeGroups, dedupVars
<1>2. Grouped'
  BY DEF IInv, Grouped, MergeGroups, dedupVars
<1>3. ResultsTyped'
  <2> DEFINE n == Len(findings)
             groups == Groups
  <2>1. n \in Nat /\ findings \in [1..n -> Findings]
    BY LenProperties DEF IInv, Typing
  <2>2. Forest(n, parent, rank)
    BY DEF IInv, Grouped, MergeGroups
  <2>3. \A k \in DOMAIN groups : groups[k] \in Seq(Findings) /\ groups[k] # <<>>
    <3> HIDE DEF n
    <3> QED
      BY <2>1, <2>2, GroupsType
  <2>4. consolidated' = [k \in DOMAIN groups |-> MergeGroup(groups[k])]
    BY DEF MergeGroups
  <2> HIDE DEF groups
  <2>5. ASSUME NEW k \in DOMAIN groups PROVE Typed(MergeGroup(groups[k]))
    BY <2>3, MergedIsTyped, FindingsAreTyped
  <2> QED
    BY <2>4, <2>5 DEF ResultsTyped, Results
<1> QED
  BY <1>1, <1>2, <1>3 DEF IInv

LEMMA StepInv == IInv /\ [Next]_vars => IInv'
<1>1. IInv /\ UNCHANGED vars => IInv'
  BY DEF vars, dedupVars, IInv, Typing, Grouped, ResultsTyped, Results
<1> QED
  BY <1>1, NormalizeInv, BeginInv, GroupingInv, MergeInv DEF Next

LEMMA Invariance == Spec => []IInv
BY InitInv, StepInv, PTL DEF Spec

\* For lists of any length and unions in any order: find terminates, since
\* ranks grow along the pointers.
THEOREM RanksAlwaysGrow == Spec => []RanksGrow
<1>1. IInv => RanksGrow
  BY DEF IInv, Grouped, Typing, Forest, Pointers, RanksGrow
<1> QED
  BY <1>1, Invariance, PTL

\* For lists of any length and unions in any order: the groups are at any
\* moment the findings that chains of shared keys connect, as far as they were
\* followed.
THEOREM GroupsAreChains == Spec => []GroupsSoFar
<1>1. IInv => GroupsSoFar
  <2> SUFFICES ASSUME IInv, NEW i \in DOMAIN parent
               PROVE  Group(i) = Connected(Len(findings), Links(findings) \ pending, i)
    BY DEF GroupsSoFar
  <2> DEFINE n == Len(findings)
             made == Links(findings) \ pending
  <2>1. at \in {"group", "done"}
    BY DEF IInv, Grouped, Typing
  <2>2. Forest(n, parent, rank) /\ Sound(n, parent, made) /\ n \in Nat
    BY <2>1, LenProperties DEF IInv, Grouped, Typing
  <2>3. made \in SUBSET ((1..n) \X (1..n))
    BY LinksType DEF IInv, Typing
  <2> HIDE DEF n, made
  <2>4. DOMAIN parent = 1..n
    BY <2>2 DEF Forest, Pointers
  <2>5. Connected(n, made, i) \in SUBSET (1..n)
    BY <2>2, <2>3, <2>4, ConnectedIsLeast
  <2>6. \A j \in 1..n : Root(parent, j) = Root(parent, i) <=> j \in Connected(n, made, i)
    BY <2>2, <2>4 DEF Sound
  <2>7. Group(i) = Connected(n, made, i)
    BY <2>4, <2>5, <2>6 DEF Group
  <2> QED
    BY <2>7 DEF n, made
<1> QED
  BY <1>1, Invariance, PTL

\* For all findings that may be merged and all rule sets: the two halves of the
\* severity policy never contradict each other.
THEOREM AdviceNeverContradicts == Spec => []AdviceAgrees
<1>1. ASSUME NEW a \in Int, NEW b \in Int
      PROVE  /\ Max({a, b}) = IF a >= b THEN a ELSE b
             /\ Min({a, b}) = IF a <= b THEN a ELSE b
  BY DEF Max, Min
<1>2. ASSUME NEW s \in 0..4
      PROVE  Upgrade(s) >= s /\ Upgrade(s) \in Int /\ Downgrade(s) <= s /\ Downgrade(s) \in Int
  <2>1. s \in Int /\ s + 1 \in Int /\ s - 1 \in Int /\ s <= 4 /\ s >= 0
    OBVIOUS
  <2>2. Min({s + 1, 4}) = (IF s + 1 <= 4 THEN s + 1 ELSE 4)
    BY <1>1, <2>1
  <2>3. Max({s - 1, 0}) = (IF s - 1 >= 0 THEN s - 1 ELSE 0)
    BY <1>1, <2>1
  <2> QED
    BY <2>1, <2>2, <2>3 DEF Upgrade, Downgrade
<1>3. IInv => AdviceAgrees
  <2> SUFFICES ASSUME IInv, NEW f \in Results, NEW r \in SeverityRules
               PROVE  CheckEscalation(f, r) <=> \E s \in Adjustments(f, r) : s < f.severity
    BY DEF AdviceAgrees
  <2>1. f.severity \in 0..4
    BY DEF IInv, ResultsTyped, Typed
  <2>2. CASE f.status \in Passing
    BY <2>2 DEF CheckEscalation, Adjustments
  <2>3. CASE f.status \notin Passing /\ f.overall < EffectiveThreshold(f, r)
    BY <1>2, <2>1, <2>3 DEF CheckEscalation, Adjustments
  <2>4. CASE f.status \notin Passing /\ ~ (f.overall < EffectiveThreshold(f, r))
    BY <1>2, <2>1, <2>4 DEF CheckEscalation, Adjustments
  <2> QED
    BY <2>2, <2>3, <2>4
<1> QED
  BY <1>3, Invariance, PTL

\* The stored findings were normalized by the shipped policy, or by one that
\* also calls INFO what passed.
StoredByPolicy == \A f \in StoredFindings : Quiet(f)

ResultsQuiet == \A f \in Results : Quiet(f)

\* Whatever its tools called a result: a merged finding that passed or does not
\* apply is INFO, for any lists of observations and any stored findings that
\* a policy like the shipped one made.
THEOREM PassedIsInfo ==
  ASSUME StoredByPolicy
  PROVE  Spec => []PassIsInfo
<1>1. \A f \in Findings : Quiet(f)
  BY NormalizedIsTyped DEF StoredByPolicy, Findings
<1>2. Init => ResultsQuiet
  BY DEF Init, ResultsQuiet, Results
<1>3. IInv /\ ResultsQuiet /\ [Next]_vars => ResultsQuiet'
  <2> SUFFICES ASSUME IInv, ResultsQuiet, [Next]_vars PROVE ResultsQuiet'
    OBVIOUS
  <2>1. CASE consolidated' = consolidated
    BY <2>1 DEF ResultsQuiet, Results
  <2>2. CASE MergeGroups
    <3> DEFINE n == Len(findings)
               groups == Groups
    <3>1. n \in Nat /\ findings \in [1..n -> Findings]
      BY LenProperties DEF IInv, Typing
    <3>2. Forest(n, parent, rank)
      BY <2>2 DEF IInv, Grouped, MergeGroups
    <3>3. \A k \in DOMAIN groups : groups[k] \in Seq(Findings) /\ groups[k] # <<>>
      <4> HIDE DEF n
      <4> QED
        BY <3>1, <3>2, GroupsType
    <3>4. consolidated' = [k \in DOMAIN groups |-> MergeGroup(groups[k])]
      BY <2>2 DEF MergeGroups
    <3> HIDE DEF groups
    <3>5. ASSUME NEW k \in DOMAIN groups PROVE Quiet(MergeGroup(groups[k]))
      <4>1. groups[k] \in Seq(Findings) /\ groups[k] # <<>>
        BY <3>3
      <4>2. \A i \in DOMAIN groups[k] : Quiet(groups[k][i])
        BY <1>1, <4>1, LenProperties
      <4> QED
        BY <4>1, <4>2, MergedIsTyped, FindingsAreTyped
    <3> QED
      BY <3>4, <3>5 DEF ResultsQuiet, Results
  <2> QED
    BY <2>1, <2>2 DEF Next, vars, Normalize, BeginGroup, Grouping
<1>4. ResultsQuiet => PassIsInfo
  BY DEF ResultsQuiet, Quiet, PassIsInfo
<1> QED
  BY <1>2, <1>3, <1>4, Invariance, PTL DEF Spec

---------------------------------------------------------------------------
(* What does not depend on the order of a list                              *)

LEMMA ListFacts ==
  ASSUME NEW T, NEW s \in Seq(T)
  PROVE  /\ Len(s) \in Nat /\ DOMAIN s = 1..Len(s) /\ \A i \in DOMAIN s : s[i] \in T
         /\ IsFiniteSet(DOMAIN s) /\ Cardinality(DOMAIN s) = Len(s)
<1> DEFINE n == Len(s)
<1>1. n \in Nat /\ DOMAIN s = 1..n /\ \A i \in DOMAIN s : s[i] \in T
  BY LenProperties
<1> HIDE DEF n
<1>2. IsFiniteSet(1..n) /\ Cardinality(1..n) = n
  BY <1>1, FS_Interval
<1> QED
  BY <1>1, <1>2 DEF n

\* How many of a list are in S.
Count(s, S) == Cardinality({i \in DOMAIN s : s[i] \in S})

\* Two lists of the same elements, each as often in one as in the other.
SameCounts(s, t) == \A S : Count(s, S) = Count(t, S)

LEMMA SameElements ==
  ASSUME NEW T, NEW s \in Seq(T), NEW t \in Seq(T), SameCounts(s, t)
  PROVE  ToSet(s) = ToSet(t) /\ Len(s) = Len(t) /\ DOMAIN s = DOMAIN t
<1>1. /\ Len(s) \in Nat /\ DOMAIN s = 1..Len(s) /\ \A i \in DOMAIN s : s[i] \in T
      /\ Len(t) \in Nat /\ DOMAIN t = 1..Len(t) /\ \A i \in DOMAIN t : t[i] \in T
      /\ IsFiniteSet(DOMAIN s) /\ Cardinality(DOMAIN s) = Len(s)
      /\ IsFiniteSet(DOMAIN t) /\ Cardinality(DOMAIN t) = Len(t)
  BY ListFacts
<1>3. Len(s) = Len(t)
  <2>1. /\ {i \in DOMAIN s : s[i] \in T} = DOMAIN s
        /\ {i \in DOMAIN t : t[i] \in T} = DOMAIN t
    BY <1>1
  <2>2. Count(s, T) = Count(t, T)
    BY DEF SameCounts
  <2> QED
    BY <1>1, <2>1, <2>2 DEF Count
<1>4. \A x : x \in ToSet(s) <=> x \in ToSet(t)
  <2> SUFFICES ASSUME NEW x PROVE x \in ToSet(s) <=> x \in ToSet(t)
    OBVIOUS
  <2> DEFINE A == {i \in DOMAIN s : s[i] \in {x}}
             B == {i \in DOMAIN t : t[i] \in {x}}
  <2>1. Cardinality(A) = Cardinality(B)
    <3>1. Count(s, {x}) = Count(t, {x})
      BY DEF SameCounts
    <3> QED
      BY <3>1 DEF Count
  <2>2. IsFiniteSet(A) /\ IsFiniteSet(B)
    BY <1>1, FS_Subset
  <2>3. A = {} <=> B = {}
    <3> HIDE DEF A, B
    <3> QED
      BY <2>1, <2>2, FS_EmptySet
  <2> QED
    BY <2>3 DEF ToSet
<1> QED
  BY <1>1, <1>3, <1>4

LEMMA ReverseCounts ==
  ASSUME NEW T, NEW s \in Seq(T)
  PROVE  Reverse(s) \in Seq(T) /\ SameCounts(s, Reverse(s))
<1> DEFINE n == Len(s)
<1>1. n \in Nat /\ DOMAIN s = 1..n /\ s \in [1..n -> T]
  BY LenProperties
<1>2. Reverse(s) = [i \in 1..n |-> s[n - i + 1]]
  BY DEF Reverse
<1> HIDE DEF n
<1>3. \A i \in 1..n : n - i + 1 \in 1..n /\ n - (n - i + 1) + 1 = i
  BY <1>1
<1>4. Reverse(s) \in [1..n -> T] /\ DOMAIN Reverse(s) = 1..n
  BY <1>1, <1>2, <1>3
<1>5. Reverse(s) \in Seq(T)
  BY <1>1, <1>4, FilledSeq
<1>6. ASSUME NEW S PROVE Count(s, S) = Count(Reverse(s), S)
  <2> DEFINE A == {i \in 1..n : s[i] \in S}
             B == {i \in 1..n : Reverse(s)[i] \in S}
             f == [i \in A |-> n - i + 1]
  <2>1. IsFiniteSet(A)
    <3>1. IsFiniteSet(1..n)
      BY <1>1, FS_Interval
    <3> QED
      BY <3>1, FS_Subset
  <2>2. \A i \in A : f[i] \in B /\ f[i] = n - i + 1
    BY <1>2, <1>3
  <2>3. \A i \in B : n - i + 1 \in A /\ f[n - i + 1] = i
    BY <1>2, <1>3
  <2>4. f \in [A -> B]
    BY <2>2
  <2>5. \A i, j \in A : f[i] = f[j] => i = j
    BY <1>1, <2>2
  <2>6. ExistsBijection(A, B)
    <3> HIDE DEF A, B, f
    <3>1. f \in Injection(A, B)
      BY <2>4, <2>5 DEF Injection, IsInjective
    <3>2. f \in Surjection(A, B)
      BY <2>3, <2>4 DEF Surjection
    <3> QED
      BY <3>1, <3>2 DEF ExistsBijection, Bijection
  <2>7. Cardinality(A) = Cardinality(B)
    <3> HIDE DEF A, B
    <3> QED
      BY <2>1, <2>6, FS_Bijection
  <2> QED
    BY <1>1, <1>4, <2>7 DEF Count
<1> QED
  BY <1>5, <1>6 DEF SameCounts

\* The elements of a list that are in Q.
Those(s, Q) == Kept(s, {i \in DOMAIN s : s[i] \in Q})

LEMMA CountOfThose ==
  ASSUME NEW T, NEW s \in Seq(T), NEW Q, NEW S
  PROVE  Count(Those(s, Q), S) = Count(s, S \cap Q)
<1> DEFINE P == {i \in DOMAIN s : s[i] \in Q}
           c == Cardinality(P)
           order == Ascending(P)
           kept == Kept(s, P)
           A == {k \in 1..c : kept[k] \in S}
           B == {i \in DOMAIN s : s[i] \in S \cap Q}
           f == [k \in A |-> order[k]]
<1>1. Len(s) \in Nat /\ DOMAIN s = 1..Len(s)
  BY LenProperties
<1>2. IsFiniteSet(P) /\ P \in SUBSET Nat
  <2>1. IsFiniteSet(DOMAIN s) /\ DOMAIN s \subseteq Nat
    BY <1>1, FS_Interval
  <2> QED
    BY <2>1, FS_Subset
<1>3. Arranges(order, P)
  <2> HIDE DEF P
  <2> QED
    BY <1>2, NumbersSorted
<1>4. /\ c \in Nat /\ order \in [1..c -> P]
      /\ \A i \in P : \E k \in 1..c : order[k] = i
      /\ \A k, l \in 1..c : order[k] = order[l] => k = l
  <2> HIDE DEF P, order
  <2> QED
    BY <1>3 DEF Arranges
<1>5. kept = [k \in 1..c |-> s[order[k]]]
  <2> HIDE DEF P
  <2> QED
    BY <1>4 DEF Kept
<1> HIDE DEF c, order, kept
<1>6. f \in [A -> B]
  BY <1>4, <1>5
<1>7. \A i \in B : \E k \in A : f[k] = i
  <2> SUFFICES ASSUME NEW i \in B PROVE \E k \in A : f[k] = i
    OBVIOUS
  <2>1. i \in P /\ s[i] \in S
    OBVIOUS
  <2>2. PICK k \in 1..c : order[k] = i
    BY <1>4, <2>1
  <2>3. kept[k] \in S
    BY <1>5, <2>1, <2>2
  <2> QED
    BY <2>2, <2>3
<1>8. \A k, l \in A : f[k] = f[l] => k = l
  BY <1>4
<1>9. ExistsBijection(A, B)
  <2> HIDE DEF A, B, f
  <2>1. f \in Injection(A, B)
    BY <1>6, <1>8 DEF Injection, IsInjective
  <2>2. f \in Surjection(A, B)
    BY <1>6, <1>7 DEF Surjection
  <2> QED
    BY <2>1, <2>2 DEF ExistsBijection, Bijection
<1>10. IsFiniteSet(A)
  <2>1. IsFiniteSet(1..c)
    BY <1>4, FS_Interval
  <2> QED
    BY <2>1, FS_Subset
<1>11. Cardinality(A) = Cardinality(B)
  <2> HIDE DEF A, B
  <2> QED
    BY <1>9, <1>10, FS_Bijection
<1>12. DOMAIN kept = 1..c
  BY <1>5
<1> QED
  BY <1>11, <1>12 DEF kept, Those, Count

LEMMA ThoseCounts ==
  ASSUME NEW T, NEW s \in Seq(T), NEW t \in Seq(T), SameCounts(s, t), NEW Q
  PROVE  SameCounts(Those(s, Q), Those(t, Q))
<1> SUFFICES ASSUME NEW S PROVE Count(Those(s, Q), S) = Count(Those(t, Q), S)
  BY DEF SameCounts
<1>1. /\ Count(Those(s, Q), S) = Count(s, S \cap Q)
      /\ Count(Those(t, Q), S) = Count(t, S \cap Q)
  BY CountOfThose
<1>2. Count(s, S \cap Q) = Count(t, S \cap Q)
  BY DEF SameCounts
<1> QED
  BY <1>1, <1>2

LEMMA AppendGreater ==
  ASSUME NEW m \in Nat, NEW a \in Keys(m), NEW b \in Keys(m), NEW u \in Int, NEW v \in Int
  PROVE  /\ Append(a, u) \in Keys(m + 1) /\ Append(a, u)[m + 1] = u
         /\ Greater(a, b) => Greater(Append(a, u), Append(b, v))
<1>1. ASSUME NEW c \in Keys(m), NEW w \in Int
      PROVE  Append(c, w) = [i \in 1..m + 1 |-> IF i = m + 1 THEN w ELSE c[i]]
  <2>1. c \in Seq(Int) /\ Len(c) = m
    BY FilledSeq DEF Keys
  <2>2. /\ Append(c, w) \in Seq(Int) /\ Len(Append(c, w)) = m + 1
        /\ \A i \in 1..m : Append(c, w)[i] = c[i]
        /\ Append(c, w)[m + 1] = w
    BY <2>1, AppendProperties
  <2>3. Append(c, w) \in [1..m + 1 -> Int]
    <3> DEFINE s == Append(c, w)
    <3> HIDE DEF s
    <3>1. s \in Seq(Int) => s \in [1..Len(s) -> Int]
      BY LenProperties
    <3> QED
      BY <2>2, <3>1 DEF s
  <2>4. \A i \in 1..m + 1 : i = m + 1 \/ i \in 1..m
    OBVIOUS
  <2>5. \A i \in 1..m + 1 : Append(c, w)[i] = IF i = m + 1 THEN w ELSE c[i]
    BY <2>2, <2>4
  <2>6. Append(c, w) = [i \in 1..m + 1 |-> Append(c, w)[i]]
    BY <2>3
  <2> QED
    BY <2>5, <2>6
<1>2. /\ Append(a, u) = [i \in 1..m + 1 |-> IF i = m + 1 THEN u ELSE a[i]]
      /\ Append(b, v) = [i \in 1..m + 1 |-> IF i = m + 1 THEN v ELSE b[i]]
  BY <1>1
<1>3. Append(a, u) \in Keys(m + 1) /\ Append(a, u)[m + 1] = u
  BY <1>2 DEF Keys
<1>4. ASSUME Greater(a, b) PROVE Greater(Append(a, u), Append(b, v))
  <2>1. PICK k \in 1..m : a[k] > b[k] /\ \A j \in 1..(k - 1) : a[j] = b[j]
    BY <1>4 DEF Greater, Keys
  <2>2. /\ k \in DOMAIN Append(a, u)
        /\ Append(a, u)[k] > Append(b, v)[k]
    BY <1>2, <2>1
  <2>3. \A j \in 1..(k - 1) : Append(a, u)[j] = Append(b, v)[j]
    BY <1>2, <2>1
  <2> QED
    BY <2>2, <2>3 DEF Greater
<1> QED
  BY <1>3, <1>4

\* The elements of S above x, and those not below x.
Over(S, key, x) == {y \in S : Greater(key[y], key[x])}
NotUnder(S, key, x) == {y \in S : ~Greater(key[x], key[y])}

\* The k-th of a sorted list: at most k - 1 are above it, and at least k not
\* below.
AtPlace(s, key, k, x) ==
  /\ x \in ToSet(s)
  /\ Count(s, Over(ToSet(s), key, x)) <= k - 1
  /\ k <= Count(s, NotUnder(ToSet(s), key, x))

LEMMA DescendingPlace ==
  ASSUME NEW T, NEW s \in Seq(T), NEW m \in Nat, NEW key \in [ToSet(s) -> Keys(m)]
  PROVE  /\ DOMAIN Descending(s, key) = DOMAIN s
         /\ \A k \in DOMAIN s : AtPlace(s, key, k, Descending(s, key)[k])
<1> DEFINE D == DOMAIN s
           ikey == [i \in D |-> Append(key[s[i]], -i)]
           order == InOrder(D, ikey)
<1>1. /\ Len(s) \in Nat /\ D = 1..Len(s)
      /\ \A i \in D : s[i] \in ToSet(s) /\ i \in Int /\ -i \in Int
  BY ListFacts DEF ToSet
<1>2. IsFiniteSet(D) /\ Cardinality(D) = Len(s)
  BY ListFacts
<1> HIDE DEF D
<1>3. \A i \in D : key[s[i]] \in Keys(m)
  BY <1>1
<1>4. ikey \in [D -> Keys(m + 1)] /\ \A i \in D : ikey[i][m + 1] = -i
  BY <1>1, <1>3, AppendGreater
<1>5. \A i, j \in D : Greater(key[s[i]], key[s[j]]) => Greater(ikey[i], ikey[j])
  BY <1>1, <1>3, AppendGreater
<1> HIDE DEF ikey
<1>6. \A i, j \in D : ikey[i] = ikey[j] => i = j
  <2> SUFFICES ASSUME NEW i \in D, NEW j \in D, ikey[i] = ikey[j] PROVE i = j
    OBVIOUS
  <2>1. -i = -j
    BY <1>4
  <2> QED
    BY <1>1, <2>1
<1>7. Arranges(order, D) /\ Placed(order, D, ikey)
  BY <1>2, <1>4, <1>6, SortedByKey
<1>8. \A k \in D : order[k] \in D /\ Cardinality(Above(D, ikey, order[k])) = k - 1
  <2> HIDE DEF order
  <2> QED
    BY <1>1, <1>2, <1>7 DEF Arranges, Placed
<1>9. Descending(s, key) = [k \in D |-> s[order[k]]]
  BY DEF Descending, D, ikey
<1> HIDE DEF order
<1>10. ASSUME NEW k \in D PROVE AtPlace(s, key, k, Descending(s, key)[k])
  <2> DEFINE i == order[k]
             x == s[i]
             over == Above(D, ikey, i)
             A == {j \in D : s[j] \in Over(ToSet(s), key, x)}
             B == {j \in D : s[j] \in NotUnder(ToSet(s), key, x)}
  <2>1. i \in D /\ Cardinality(over) = k - 1 /\ Descending(s, key)[k] = x /\ x \in ToSet(s)
    BY <1>1, <1>8, <1>9
  <2> HIDE DEF i
  <2>2. A \subseteq over
    BY <1>5, <2>1 DEF Above, Over
  <2>3. ASSUME NEW j \in D, j = i \/ j \in over PROVE j \in B
    <3>1. ikey[i] \in Keys(m + 1) /\ ikey[j] \in Keys(m + 1) /\ m + 1 \in Nat
      BY <1>4, <2>1
    <3>2. ~Greater(ikey[i], ikey[j])
      <4>1. CASE j = i
        BY <3>1, <4>1, GreaterOrders
      <4>2. CASE j \in over
        <5>1. Greater(ikey[j], ikey[i])
          BY <4>2 DEF Above
        <5> QED
          BY <3>1, <5>1, GreaterOrders
      <4> QED
        BY <2>3, <4>1, <4>2
    <3>3. ~Greater(key[x], key[s[j]])
      BY <1>5, <2>1, <3>2
    <3> QED
      BY <1>1, <3>3 DEF NotUnder
  <2>4. over \subseteq D /\ IsFiniteSet(over) /\ i \notin over
    <3>1. over \subseteq D
      BY DEF Above
    <3>2. i \notin over
      <4>1. ikey[i] \in Keys(m + 1) /\ m + 1 \in Nat
        BY <1>4, <2>1
      <4> QED
        BY <4>1, GreaterOrders DEF Above
    <3> HIDE DEF over
    <3> QED
      BY <1>2, <3>1, <3>2, FS_Subset
  <2>5. IsFiniteSet(B) /\ over \cup {i} \subseteq B
    <3>1. IsFiniteSet(B)
      BY <1>2, FS_Subset
    <3>2. over \cup {i} \subseteq D
      BY <2>1, <2>4
    <3> HIDE DEF B, over
    <3> QED
      BY <2>3, <3>1, <3>2
  <2> HIDE DEF A, B, over, x
  <2>6. Cardinality(A) <= k - 1
    BY <2>1, <2>2, <2>4, FS_Subset
  <2>7. Cardinality(over \cup {i}) = (k - 1) + 1
    BY <2>1, <2>4, FS_AddElement
  <2>8. Cardinality(over \cup {i}) <= Cardinality(B)
    BY <2>5, FS_Subset
  <2>9. k <= Cardinality(B)
    <3>1. k \in Nat
      BY <1>1
    <3> QED
      BY <2>7, <2>8, <3>1
  <2> QED
    BY <2>1, <2>6, <2>9 DEF A, B, x, D, Count, AtPlace
<1> QED
  BY <1>9, <1>10 DEF D

\* What has different keys is sorted one way, in whatever order it comes.
LEMMA DescendingSame ==
  ASSUME NEW T, NEW s \in Seq(T), NEW t \in Seq(T), SameCounts(s, t), NEW m \in Nat,
         NEW key \in [ToSet(s) -> Keys(m)], \A x, y \in ToSet(s) : key[x] = key[y] => x = y
  PROVE  Descending(s, key) = Descending(t, key)
<1> DEFINE S == ToSet(s)
           d == Descending(s, key)
           e == Descending(t, key)
<1>1. ToSet(t) = S /\ DOMAIN t = DOMAIN s
  BY SameElements
<1>2. /\ DOMAIN d = DOMAIN s
      /\ \A k \in DOMAIN s : AtPlace(s, key, k, d[k])
  BY DescendingPlace
<1>3. /\ DOMAIN e = DOMAIN s
      /\ \A k \in DOMAIN s : AtPlace(t, key, k, e[k])
  BY <1>1, DescendingPlace
<1> HIDE DEF d, e
<1>4. \A Q : Count(s, Q) = Count(t, Q)
  BY DEF SameCounts
<1>5. ASSUME NEW k \in DOMAIN s PROVE d[k] = e[k]
  <2>1. AtPlace(s, key, k, d[k]) /\ AtPlace(t, key, k, e[k])
    BY <1>2, <1>3
  <2>2. AtPlace(s, key, k, e[k])
    BY <1>1, <1>4, <2>1 DEF AtPlace
  <2>3. \A x, y \in S : AtPlace(s, key, k, x) /\ AtPlace(s, key, k, y) => ~Greater(key[x], key[y])
    <3> SUFFICES ASSUME NEW x \in S, NEW y \in S, AtPlace(s, key, k, x), AtPlace(s, key, k, y),
                        Greater(key[x], key[y])
                 PROVE  FALSE
      OBVIOUS
    <3> DEFINE A == {j \in DOMAIN s : s[j] \in NotUnder(S, key, x)}
               B == {j \in DOMAIN s : s[j] \in Over(S, key, y)}
    <3>1. NotUnder(S, key, x) \subseteq Over(S, key, y)
      <4> SUFFICES ASSUME NEW z \in S, ~Greater(key[x], key[z]) PROVE Greater(key[z], key[y])
        BY DEF NotUnder, Over
      <4>1. key[x] \in Keys(m) /\ key[y] \in Keys(m) /\ key[z] \in Keys(m)
        OBVIOUS
      <4>2. key[x] = key[z] \/ Greater(key[z], key[x])
        BY <4>1, GreaterOrders
      <4> QED
        BY <4>1, <4>2, GreaterOrders
    <3>2. IsFiniteSet(A) /\ IsFiniteSet(B) /\ A \subseteq B
      <4>1. IsFiniteSet(DOMAIN s)
        BY ListFacts
      <4>2. IsFiniteSet(A) /\ IsFiniteSet(B)
        BY <4>1, FS_Subset
      <4> QED
        BY <3>1, <4>2
    <3>3. k <= Cardinality(A) /\ Cardinality(B) <= k - 1
      BY DEF AtPlace, Count
    <3> HIDE DEF A, B
    <3>4. Cardinality(A) <= Cardinality(B) /\ Cardinality(A) \in Nat /\ Cardinality(B) \in Nat
      BY <3>2, FS_Subset, FS_CardinalityType
    <3>5. k \in Nat
      BY ListFacts
    <3> QED
      BY <3>3, <3>4, <3>5
  <2>4. d[k] \in S /\ e[k] \in S
    BY <2>1, <2>2 DEF AtPlace
  <2>5. key[d[k]] \in Keys(m) /\ key[e[k]] \in Keys(m)
    BY <2>4
  <2>6. key[d[k]] = key[e[k]]
    BY <2>1, <2>2, <2>3, <2>4, <2>5, GreaterOrders
  <2> QED
    BY <2>4, <2>6
<1>6. d = [k \in DOMAIN s |-> d[k]] /\ e = [k \in DOMAIN s |-> e[k]]
  <2>1. \A q : Descending(q, key) = [k \in DOMAIN q |-> Descending(q, key)[k]]
    BY DEF Descending
  <2> QED
    BY <1>1, <2>1 DEF d, e
<1>7. d = e
  BY <1>5, <1>6
<1> QED
  BY <1>7 DEF d, e

LEMMA FirstMaxIs ==
  ASSUME NEW T, NEW s \in Seq(T), s # <<>>, NEW m \in Nat, NEW key \in [ToSet(s) -> Keys(m)]
  PROVE  /\ FirstMax(s, key) \in ToSet(s)
         /\ \A y \in ToSet(s) : ~Greater(key[y], key[FirstMax(s, key)])
<1> DEFINE S == ToSet(s)
           tops == {i \in DOMAIN s : \A j \in DOMAIN s : ~Greater(key[s[j]], key[s[i]])}
<1>1. /\ Len(s) \in Nat /\ DOMAIN s = 1..Len(s) /\ IsFiniteSet(DOMAIN s) /\ 1 \in DOMAIN s
      /\ \A i \in DOMAIN s : s[i] \in S
  BY ListFacts, EmptySeq DEF ToSet
<1>2. PICK x \in S : \A y \in S : ~Greater(key[y], key[x])
  <2> DEFINE x == Descending(s, key)[1]
             A == {j \in DOMAIN s : s[j] \in Over(S, key, x)}
  <2>1. AtPlace(s, key, 1, x)
    BY <1>1, DescendingPlace
  <2> HIDE DEF x
  <2>2. x \in S /\ Cardinality(A) <= 1 - 1
    BY <2>1 DEF AtPlace, Count
  <2>3. IsFiniteSet(A)
    BY <1>1, FS_Subset
  <2>4. A = {}
    <3> HIDE DEF A
    <3>1. Cardinality(A) \in Nat
      BY <2>3, FS_CardinalityType
    <3> QED
      BY <2>2, <2>3, <3>1, FS_EmptySet
  <2>5. \A y \in S : ~Greater(key[y], key[x])
    BY <2>4 DEF Over, ToSet
  <2> QED
    BY <2>2, <2>5
<1>3. PICK i \in DOMAIN s : s[i] = x
  BY DEF ToSet
<1>4. tops \in SUBSET Nat /\ tops # {}
  BY <1>1, <1>2, <1>3
<1>5. Min(tops) \in tops
  <2> HIDE DEF tops
  <2> QED
    BY <1>4, LeastExists
<1>6. FirstMax(s, key) = s[Min(tops)]
  BY DEF FirstMax
<1>7. \A y \in S : \E j \in DOMAIN s : y = s[j]
  BY DEF ToSet
<1> QED
  BY <1>1, <1>5, <1>6, <1>7

\* The greatest of the same elements have one key.
LEMMA FirstMaxSame ==
  ASSUME NEW T, NEW s \in Seq(T), s # <<>>, NEW t \in Seq(T), t # <<>>, ToSet(s) = ToSet(t),
         NEW m \in Nat, NEW key \in [ToSet(s) -> Keys(m)]
  PROVE  /\ FirstMax(s, key) \in ToSet(s) /\ FirstMax(t, key) \in ToSet(s)
         /\ key[FirstMax(s, key)] = key[FirstMax(t, key)]
<1> DEFINE x == FirstMax(s, key)
           y == FirstMax(t, key)
<1>1. x \in ToSet(s) /\ \A z \in ToSet(s) : ~Greater(key[z], key[x])
  BY FirstMaxIs
<1>2. y \in ToSet(s) /\ \A z \in ToSet(s) : ~Greater(key[z], key[y])
  BY FirstMaxIs
<1> HIDE DEF x, y
<1>3. key[x] \in Keys(m) /\ key[y] \in Keys(m)
  BY <1>1, <1>2
<1>4. key[x] = key[y]
  BY <1>1, <1>2, <1>3, GreaterOrders
<1> QED
  BY <1>1, <1>2, <1>4 DEF x, y

---------------------------------------------------------------------------
(* What a merged finding says                                               *)

\* All that is compared has a rank.
Ranked(f) ==
  /\ f.severity \in 0..4 /\ f.category \in DOMAIN CategoryWeight
  /\ f.finding_key \in DOMAIN TextRank /\ f.category \in DOMAIN TextRank
  /\ f.tool \in DOMAIN TextRank /\ f.native_check_id \in DOMAIN TextRank

LEMMA RanksDiffer ==
  \A s, t \in DOMAIN TextRank : TextRank[s] \in Int /\ (TextRank[s] = TextRank[t] => s = t)
BY PoliciesAssumption DEF PoliciesAssumption

LEMMA FallbackCategory == "COMPLIANCE" \in DOMAIN CategoryWeight
BY DEF CategoryWeight

LEMMA DefaultCategories ==
  \A name \in DOMAIN DefaultCategory : DefaultCategory[name] \in DOMAIN CategoryWeight
BY DEF DefaultCategory, CategoryWeight

LEMMA CategoryResolved ==
  ASSUME NEW o
  PROVE  ResolveCategory(o) \in DOMAIN CategoryWeight
<1> DEFINE names == <<Prefix[o.native_check_id], o.native_check_id, o.native_category>>
           Hits(last, map) == {k \in 1..last : names[k] # "" /\ names[k] \in DOMAIN map}
           own == AdapterCategory[o.tool]
           owned == Hits(3, own)
           default == Hits(2, DefaultCategory)
<1>1. ResolveCategory(o) = CASE owned # {} -> CategoryNamed(own[names[Min(owned)]])
                             [] owned = {} /\ default # {} -> DefaultCategory[names[Min(default)]]
                             [] OTHER -> "COMPLIANCE"
  BY DEF ResolveCategory
<1>2. \A key : CategoryNamed(key) \in DOMAIN CategoryWeight
  BY FallbackCategory DEF CategoryNamed
<1>3. default # {} => names[Min(default)] \in DOMAIN DefaultCategory
  <2> SUFFICES ASSUME default # {} PROVE Min(default) \in default
    OBVIOUS
  <2>1. default \in SUBSET Nat
    <3>1. default \subseteq 1..2
      BY Zenon
    <3> HIDE DEF default
    <3> QED
      BY <3>1
  <2> HIDE DEF default
  <2> QED
    BY <2>1, LeastExists
<1> HIDE DEF names, own, owned, default
<1>4. CASE owned # {}
  BY <1>1, <1>2, <1>4
<1>5. CASE owned = {} /\ default # {}
  BY <1>1, <1>3, <1>5, DefaultCategories
<1>6. CASE owned = {} /\ default = {}
  BY <1>1, <1>6, FallbackCategory
<1> QED
  BY <1>4, <1>5, <1>6

LEMMA FindingsAreRanked == \A f \in Findings : Ranked(f)
<1>1. \A c \in DOMAIN CategoryWeight : c \in DOMAIN TextRank
  BY PoliciesAssumption DEF PoliciesAssumption
<1>2. ASSUME NEW f \in StoredFindings PROVE Ranked(f)
  <2>1. /\ f.severity \in 0..4 /\ f.category \in DOMAIN CategoryWeight
        /\ {f.finding_key, f.tool, f.native_check_id} \subseteq DOMAIN TextRank
    BY ConsolidationAssumption DEF ConsolidationAssumption
  <2> QED
    BY <1>1, <2>1 DEF Ranked
<1>3. ASSUME NEW o \in Observations PROVE Ranked(NormalizeOne(o))
  <2> DEFINE f == NormalizeOne(o)
  <2>1. f.severity \in 0..4
    BY NormalizedIsTyped DEF Typed
  <2>2. f.category = ResolveCategory(o)
    BY DEF NormalizeOne
  <2>3. f.finding_key = ResolveKey(o) /\ f.tool = o.tool /\ f.native_check_id = o.native_check_id
    BY DEF NormalizeOne
  <2>4. {ResolveKey(o), o.tool, o.native_check_id} \subseteq DOMAIN TextRank
    BY ConsolidationAssumption DEF ConsolidationAssumption
  <2> HIDE DEF f
  <2>5. f.category \in DOMAIN CategoryWeight
    BY <2>2, CategoryResolved
  <2> QED
    BY <1>1, <2>1, <2>3, <2>4, <2>5 DEF Ranked, f
<1> QED
  BY <1>2, <1>3 DEF Findings

LEMMA RankedFacts ==
  ASSUME NEW f, Ranked(f)
  PROVE  /\ f.severity \in Int /\ TextRank[f.finding_key] \in Int /\ TextRank[f.category] \in Int
         /\ TextRank[f.tool] \in Int /\ TextRank[f.native_check_id] \in Int
BY RanksDiffer DEF Ranked

LEMMA RankedDiffer ==
  ASSUME NEW f, Ranked(f), NEW g, Ranked(g)
  PROVE  /\ TextRank[f.finding_key] = TextRank[g.finding_key] => f.finding_key = g.finding_key
         /\ TextRank[f.category] = TextRank[g.category] => f.category = g.category
         /\ TextRank[f.tool] = TextRank[g.tool] => f.tool = g.tool
         /\ TextRank[f.native_check_id] = TextRank[g.native_check_id]
              => f.native_check_id = g.native_check_id
BY RanksDiffer DEF Ranked

LEMMA KeyTypes ==
  ASSUME NEW a \in Int, NEW b \in Int, NEW c \in Int
  PROVE  <<a, b>> \in Keys(2) /\ <<a, b, c>> \in Keys(3)
BY DEF Keys

\* Of the same elements the same is made, whichever order they have.
LEMMA EssenceSame ==
  ASSUME NEW T, \A f \in T : Ranked(f), NEW g \in Seq(T), g # <<>>, NEW h \in Seq(T),
  h # <<>>,
         ToSet(g) = ToSet(h)
  PROVE  Essence(MergeGroup(g)) = Essence(MergeGroup(h))
<1> DEFINE S == ToSet(g)
<1>1. \A f \in S : f \in T /\ Ranked(f)
  BY ListFacts DEF ToSet
<1>2. /\ \A i \in DOMAIN g : g[i] \in S
      /\ \A i \in DOMAIN h : h[i] \in S
      /\ \A f \in S : (\E i \in DOMAIN g : g[i] = f) /\ (\E i \in DOMAIN h : h[i] = f)
  BY DEF ToSet
<1> HIDE DEF S
<1>3. ASSUME NEW key, key = [f \in S |-> <<f.severity, TextRank[f.finding_key]>>]
      PROVE  FirstMax(g, key).finding_key = FirstMax(h, key).finding_key
  <2>1. \A f \in S : <<f.severity, TextRank[f.finding_key]>> \in Keys(2)
    <3>1. \A f \in S : f.severity \in Int /\ TextRank[f.finding_key] \in Int
      BY <1>1, RankedFacts
    <3> QED
      BY <3>1, KeyTypes
  <2>2. /\ FirstMax(g, key) \in S /\ FirstMax(h, key) \in S
        /\ key[FirstMax(g, key)] = key[FirstMax(h, key)]
    <3>1. key \in [S -> Keys(2)]
      BY <1>3, <2>1
    <3> QED
      BY <3>1, FirstMaxSame DEF S
  <2>3. ASSUME NEW x \in S, NEW y \in S, key[x] = key[y]
        PROVE  TextRank[x.finding_key] = TextRank[y.finding_key]
    <3>1. <<x.severity, TextRank[x.finding_key]>> = <<y.severity, TextRank[y.finding_key]>>
      BY <1>3, <2>3
    <3> QED
      BY <3>1
  <2> QED
    BY <1>1, <2>2, <2>3, RankedDiffer
<1>4. ASSUME NEW key, key = [f \in S |-> <<f.severity, TextRank[f.category]>>]
      PROVE  FirstMax(g, key).category = FirstMax(h, key).category
  <2>1. \A f \in S : <<f.severity, TextRank[f.category]>> \in Keys(2)
    <3>1. \A f \in S : f.severity \in Int /\ TextRank[f.category] \in Int
      BY <1>1, RankedFacts
    <3> QED
      BY <3>1, KeyTypes
  <2>2. /\ FirstMax(g, key) \in S /\ FirstMax(h, key) \in S
        /\ key[FirstMax(g, key)] = key[FirstMax(h, key)]
    <3>1. key \in [S -> Keys(2)]
      BY <1>4, <2>1
    <3> QED
      BY <3>1, FirstMaxSame DEF S
  <2>3. ASSUME NEW x \in S, NEW y \in S, key[x] = key[y]
        PROVE  TextRank[x.category] = TextRank[y.category]
    <3>1. <<x.severity, TextRank[x.category]>> = <<y.severity, TextRank[y.category]>>
      BY <1>4, <2>3
    <3> QED
      BY <3>1
  <2> QED
    BY <1>1, <2>2, <2>3, RankedDiffer
<1>5. ASSUME NEW key,
             key = [f \in S |-> <<f.severity, TextRank[f.tool], TextRank[f.native_check_id]>>]
      PROVE  /\ FirstMax(g, key).tool = FirstMax(h, key).tool
             /\ FirstMax(g, key).native_check_id = FirstMax(h, key).native_check_id
  <2>1. \A f \in S : <<f.severity, TextRank[f.tool], TextRank[f.native_check_id]>> \in Keys(3)
    <3>1. \A f \in S : /\ f.severity \in Int /\ TextRank[f.tool] \in Int
                       /\ TextRank[f.native_check_id] \in Int
      BY <1>1, RankedFacts
    <3> QED
      BY <3>1, KeyTypes
  <2>2. /\ FirstMax(g, key) \in S /\ FirstMax(h, key) \in S
        /\ key[FirstMax(g, key)] = key[FirstMax(h, key)]
    <3>1. key \in [S -> Keys(3)]
      BY <1>5, <2>1
    <3> QED
      BY <3>1, FirstMaxSame DEF S
  <2>3. ASSUME NEW x \in S, NEW y \in S, key[x] = key[y]
        PROVE  /\ TextRank[x.tool] = TextRank[y.tool]
               /\ TextRank[x.native_check_id] = TextRank[y.native_check_id]
    <3>1. <<x.severity, TextRank[x.tool], TextRank[x.native_check_id]>>
            = <<y.severity, TextRank[y.tool], TextRank[y.native_check_id]>>
      BY <1>5, <2>3
    <3> QED
      BY <3>1
  <2> QED
    BY <1>1, <2>2, <2>3, RankedDiffer
<1>6. CanonicalKey(g) = CanonicalKey(h)
  BY <1>3 DEF CanonicalKey, S
<1>7. ReconcileCategory(g) = ReconcileCategory(h)
  BY <1>4 DEF ReconcileCategory, S
<1>8. ReconcileTitle(g) = ReconcileTitle(h)
  BY <1>5 DEF ReconcileTitle, S
<1>9. ReconcileSeverity(g) = ReconcileSeverity(h)
  <2>1. {g[i].severity : i \in DOMAIN g} = {h[i].severity : i \in DOMAIN h}
    BY <1>2
  <2> QED
    BY <2>1 DEF ReconcileSeverity
<1>10. ReconcileStatus(g) = ReconcileStatus(h)
  <2>1. \A k : /\ (\E i \in DOMAIN g : g[i].status = StatusPriority[k])
                    <=> \E f \in S : f.status = StatusPriority[k]
               /\ (\E i \in DOMAIN h : h[i].status = StatusPriority[k])
                    <=> \E f \in S : f.status = StatusPriority[k]
    BY <1>2
  <2>2. {k \in DOMAIN StatusPriority : \E i \in DOMAIN g : g[i].status = StatusPriority[k]}
        = {k \in DOMAIN StatusPriority : \E i \in DOMAIN h : h[i].status = StatusPriority[k]}
    BY <2>1
  <2> QED
    BY <2>2 DEF ReconcileStatus
<1>11. Confidence(g) = Confidence(h)
  <2>1. Tools(g) = Tools(h)
    BY <1>2 DEF Tools
  <2> QED
    BY <2>1 DEF Confidence
<1> QED
  BY <1>6, <1>7, <1>8, <1>9, <1>10, <1>11 DEF Essence, MergeGroup

---------------------------------------------------------------------------
(* Roadmap and reports                                                      *)

\* What the roadmap and the reports compare is a number or has a rank.
Presentable(f) ==
  /\ f.severity \in 0..4 /\ f.overall \in Int /\ f.corroborating_tools \in Int
  /\ f.category \in DOMAIN CategoryWeight /\ f.finding_key \in DOMAIN TextRank

LEMMA LesserInt ==
  ASSUME NEW a \in Int, NEW b \in Int
  PROVE  Min({a, b}) \in Int /\ Min({a, b}) = IF a <= b THEN a ELSE b
BY DEF Min

LEMMA ConfidenceType ==
  ASSUME NEW T, NEW g \in Seq(T), g # <<>>
  PROVE  Cardinality(Tools(g)) \in Int /\ Confidence(g) \in Int
<1> DEFINE n == Cardinality(Tools(g))
           D == DOMAIN g
           f == [i \in D |-> g[i].tool]
<1>1. IsFiniteSet(D) /\ 1 \in D
  BY ListFacts, EmptySeq
<1>2. Tools(g) = {f[i] : i \in D} /\ DOMAIN f = D
  BY DEF Tools
<1>3. f \in Surjection(D, Tools(g))
  <2> HIDE DEF f, D
  <2>1. f \in [D -> Tools(g)]
    <3>1. f = [i \in D |-> f[i]]
      BY DEF f
    <3> QED
      BY <1>2, <3>1
  <2> QED
    BY <1>2, <2>1 DEF Surjection
<1>4. IsFiniteSet(Tools(g)) /\ Tools(g) # {}
  <2> HIDE DEF f, D
  <2> QED
    BY <1>1, <1>2, <1>3, FS_Surjection
<1>5. n \in Nat /\ n >= 1
  <2>1. n \in Nat /\ n # 0
    BY <1>4, FS_CardinalityType, FS_EmptySet
  <2> QED
    BY <2>1
<1> HIDE DEF n
<1>6. Corroboration(n) \in Int
  <2>1. Min({n, 4}) \in 1..4
    BY <1>5, LesserInt
  <2> HIDE DEF n
  <2> QED
    BY <2>1 DEF Corroboration
<1>7. Min({10000, 6000 + 1000 * n}) \in Int
  BY <1>5, LesserInt
<1>8. \A e, c \in Int : (e * 30 + c * 35 + 10000 * 20 + 7000 * 15) \div 100 \in Int
  OBVIOUS
<1>9. Confidence(g) = (Min({10000, 6000 + 1000 * n}) * 30 + Corroboration(n) * 35
                       + 10000 * 20 + 7000 * 15) \div 100
  BY DEF Confidence, n
<1> QED
  BY <1>5, <1>6, <1>7, <1>8, <1>9 DEF n

LEMMA CanonicalKeyIs ==
  ASSUME NEW T, \A f \in T : Ranked(f), NEW g \in Seq(T), g # <<>>
  PROVE  \E f \in ToSet(g) : CanonicalKey(g) = f.finding_key
<1> DEFINE S == ToSet(g)
           key == [f \in S |-> <<f.severity, TextRank[f.finding_key]>>]
<1>1. \A f \in S : Ranked(f)
  BY ListFacts DEF ToSet
<1>2. \A f \in S : <<f.severity, TextRank[f.finding_key]>> \in Keys(2)
  <2> HIDE DEF S
  <2> QED
    BY <1>1, RankedFacts, KeyTypes
<1>3. key \in [S -> Keys(2)]
  BY <1>2
<1> HIDE DEF key
<1>4. FirstMax(g, key) \in S
  BY <1>3, FirstMaxIs
<1>5. CanonicalKey(g) = FirstMax(g, key).finding_key
  BY DEF CanonicalKey, key
<1> QED
  BY <1>4, <1>5

LEMMA MergedIsPresentable ==
  ASSUME NEW T, \A f \in T : Ranked(f) /\ Typed(f), NEW g \in Seq(T), g # <<>>
  PROVE  Presentable(MergeGroup(g))
<1> DEFINE S == ToSet(g)
<1>1. \A f \in S : Ranked(f)
  BY ListFacts DEF ToSet
<1> HIDE DEF S
<1>2. \A f \in S : <<f.severity, TextRank[f.category]>> \in Keys(2)
  BY <1>1, RankedFacts, KeyTypes
<1>3. CanonicalKey(g) \in DOMAIN TextRank
  BY <1>1, CanonicalKeyIs DEF Ranked, S
<1>4. ReconcileCategory(g) \in DOMAIN CategoryWeight
  <2> DEFINE key == [f \in S |-> <<f.severity, TextRank[f.category]>>]
  <2>1. key \in [S -> Keys(2)]
    BY <1>2
  <2> HIDE DEF key
  <2>2. FirstMax(g, key) \in S
    BY <2>1, FirstMaxIs DEF S
  <2>3. ReconcileCategory(g) = FirstMax(g, key).category
    BY DEF ReconcileCategory, key, S
  <2> QED
    BY <1>1, <2>2, <2>3 DEF Ranked
<1>5. MergeGroup(g).severity \in 0..4
  BY MergedIsTyped DEF Typed
<1>6. Cardinality(Tools(g)) \in Int /\ Confidence(g) \in Int
  BY ConfidenceType
<1>7. /\ MergeGroup(g).finding_key = CanonicalKey(g)
      /\ MergeGroup(g).category = ReconcileCategory(g)
      /\ MergeGroup(g).corroborating_tools = Cardinality(Tools(g))
      /\ MergeGroup(g).overall = Confidence(g)
  BY DEF MergeGroup
<1> QED
  BY <1>3, <1>4, <1>5, <1>6, <1>7 DEF Presentable

LEMMA PriorityType ==
  ASSUME NEW f, Presentable(f)
  PROVE  Priority(f) \in Int
<1>1. <<10, 25, 50, 75, 100>>[f.severity + 1] \in Int
  BY DEF Presentable
<1>2. \A c \in DOMAIN CategoryWeight : CategoryWeight[c] \in Int
  BY DEF CategoryWeight
<1>3. Min({100, 25 * f.corroborating_tools}) \in Int
  BY LesserInt DEF Presentable
<1>4. ASSUME NEW a \in Int, NEW b \in Int, NEW c \in Int, NEW d \in Int
      PROVE  4000 * a + 25 * b + 10000 * c + 1500 * d \in Int
  OBVIOUS
<1>5. CategoryWeight[f.category] \in Int /\ f.overall \in Int
  BY <1>2 DEF Presentable
<1> HIDE DEF CategoryWeight
<1> QED
  BY <1>1, <1>3, <1>4, <1>5 DEF Priority

\* Where a finding key names one finding, roadmap and reports do not depend on
\* the order they are made from.
LEMMA PresentedSame ==
  ASSUME NEW T, \A f \in T : Presentable(f),
         \A f, g \in T : f.finding_key = g.finding_key => f = g,
         NEW s \in Seq(T), NEW t \in Seq(T), SameCounts(s, t)
  PROVE  /\ AssignPhases(s) = AssignPhases(t)
         /\ \A a : FilterForAudience(ApplySuppression(s), a)
                     = FilterForAudience(ApplySuppression(t), a)
<1>1. \A f, g \in T : TextRank[f.finding_key] = TextRank[g.finding_key] => f = g
  BY RanksDiffer DEF Presentable
<1>2. \A f \in T : /\ Priority(f) \in Int /\ f.severity \in Int /\ f.overall \in Int
                   /\ TextRank[f.finding_key] \in Int /\ -TextRank[f.finding_key] \in Int
  <2> SUFFICES ASSUME NEW f \in T
               PROVE  /\ Priority(f) \in Int /\ f.severity \in Int /\ f.overall \in Int
                      /\ TextRank[f.finding_key] \in Int /\ -TextRank[f.finding_key] \in Int
    OBVIOUS
  <2>1. Priority(f) \in Int
    BY PriorityType
  <2>2. f.severity \in Int /\ f.overall \in Int /\ TextRank[f.finding_key] \in Int
    BY RanksDiffer DEF Presentable
  <2> QED
    BY <2>1, <2>2
<1>3. \A q \in Seq(T) : \A f \in ToSet(q) : f \in T
  BY ListFacts DEF ToSet
<1>4. ToSet(s) = ToSet(t)
  BY SameElements
<1>5. AssignPhases(s) = AssignPhases(t)
  <2> DEFINE key == [f \in ToSet(s) |-> <<Priority(f), -TextRank[f.finding_key]>>]
  <2>1. \A f \in ToSet(s) : <<Priority(f), -TextRank[f.finding_key]>> \in Keys(2)
    BY <1>2, <1>3, KeyTypes
  <2>2. key \in [ToSet(s) -> Keys(2)]
    BY <2>1
  <2>3. ASSUME NEW f \in ToSet(s), NEW g \in ToSet(s), key[f] = key[g] PROVE f = g
    <3>1. <<Priority(f), -TextRank[f.finding_key]>> = <<Priority(g), -TextRank[g.finding_key]>>
      BY <2>3
    <3>2. -TextRank[f.finding_key] = -TextRank[g.finding_key]
      BY <3>1
    <3>3. TextRank[f.finding_key] = TextRank[g.finding_key]
      BY <1>2, <1>3, <3>2
    <3> QED
      BY <1>1, <1>3, <3>3
  <2> HIDE DEF key
  <2>4. Descending(s, key) = Descending(t, key)
    BY <2>2, <2>3, DescendingSame
  <2> QED
    BY <1>4, <2>4 DEF AssignPhases, key
<1>6. ASSUME NEW p \in Seq(T), NEW q \in Seq(T), SameCounts(p, q), NEW a
      PROVE  FilterForAudience(p, a) = FilterForAudience(q, a)
  <2> DEFINE Q == {f \in T : /\ f.severity >= a.minimum_severity
                             /\ f.overall >= a.minimum_confidence}
             v == Those(p, Q)
             w == Those(q, Q)
             key == [f \in ToSet(v) |-> <<f.severity, f.overall, TextRank[f.finding_key]>>]
  <2>1. ASSUME NEW fs \in Seq(T)
        PROVE  Kept(fs, {i \in DOMAIN fs : /\ fs[i].severity >= a.minimum_severity
                                           /\ fs[i].overall >= a.minimum_confidence})
                 = Those(fs, Q)
    <3>1. {i \in DOMAIN fs : /\ fs[i].severity >= a.minimum_severity
                             /\ fs[i].overall >= a.minimum_confidence}
          = {i \in DOMAIN fs : fs[i] \in Q}
      BY ListFacts
    <3> QED
      BY <3>1 DEF Those
  <2>2. FilterForAudience(p, a) =
          LET order == Descending(v, key) IN SubSeq(order, 1, Min({Len(order), a.max_findings}))
    BY <2>1 DEF FilterForAudience
  <2>3. FilterForAudience(q, a) =
          LET order == Descending(w, [f \in ToSet(w) |->
                                        <<f.severity, f.overall, TextRank[f.finding_key]>>])
          IN  SubSeq(order, 1, Min({Len(order), a.max_findings}))
    BY <2>1 DEF FilterForAudience
  <2> HIDE DEF Q
  <2>4. SameCounts(v, w)
    BY <1>6, ThoseCounts
  <2>5. v \in Seq(T) /\ w \in Seq(T)
    BY KeptFacts DEF Those
  <2> HIDE DEF v, w
  <2>6. ToSet(v) = ToSet(w)
    BY <2>4, <2>5, SameElements
  <2>7. \A f \in ToSet(v) : /\ f \in T
                            /\ key[f] = <<f.severity, f.overall, TextRank[f.finding_key]>>
    BY <1>3, <2>5
  <2>8. \A f \in ToSet(v) : <<f.severity, f.overall, TextRank[f.finding_key]>> \in Keys(3)
    BY <1>2, <2>7, KeyTypes
  <2>9. key \in [ToSet(v) -> Keys(3)]
    BY <2>8
  <2>10. FilterForAudience(q, a) =
           LET order == Descending(w, key) IN SubSeq(order, 1, Min({Len(order), a.max_findings}))
    BY <2>3, <2>6
  <2> HIDE DEF key
  <2>11. ASSUME NEW f \in ToSet(v), NEW g \in ToSet(v), key[f] = key[g] PROVE f = g
    <3>1. <<f.severity, f.overall, TextRank[f.finding_key]>>
            = <<g.severity, g.overall, TextRank[g.finding_key]>>
      BY <2>7, <2>11
    <3>2. TextRank[f.finding_key] = TextRank[g.finding_key]
      BY <3>1
    <3> QED
      BY <1>1, <2>7, <3>2
  <2>12. Descending(v, key) = Descending(w, key)
    BY <2>4, <2>5, <2>9, <2>11, DescendingSame
  <2> QED
    BY <2>2, <2>10, <2>12
<1>7. ASSUME NEW a
      PROVE  FilterForAudience(ApplySuppression(s), a) = FilterForAudience(ApplySuppression(t), a)
  <2> DEFINE Q == {f \in T : f.status \notin Passing}
  <2>1. ASSUME NEW fs \in Seq(T)
        PROVE  ApplySuppression(fs) = Those(fs, Q) /\ ApplySuppression(fs) \in Seq(T)
    <3>1. {i \in DOMAIN fs : fs[i].status \notin Passing} = {i \in DOMAIN fs : fs[i] \in Q}
      BY ListFacts
    <3>2. ApplySuppression(fs) \in Seq(T)
      BY KeptFacts DEF ApplySuppression
    <3> QED
      BY <3>1, <3>2 DEF Those, ApplySuppression
  <2> HIDE DEF Q
  <2>2. SameCounts(Those(s, Q), Those(t, Q))
    BY ThoseCounts
  <2>3. SameCounts(ApplySuppression(s), ApplySuppression(t))
    BY <2>1, <2>2
  <2> QED
    BY <1>6, <2>1, <2>3
<1> QED
  BY <1>5, <1>7

---------------------------------------------------------------------------
(* What the results stand for                                               *)

LEMMA LinkOfKey ==
  ASSUME NEW fs, NEW I \in Indices(fs), NEW x \in I
  PROVE  x = Min(I) \/ <<Min(I), x>> \in Links(fs)
<1> DEFINE m == Min(I)
<1>1. ASSUME x # m PROVE <<m, x>> \in {<<m, i>> : i \in I \ {m}}
  BY <1>1
<1>2. {<<m, i>> : i \in I \ {m}} \in {{<<Min(J), i>> : i \in J \ {Min(J)}} : J \in Indices(fs)}
  OBVIOUS
<1> QED
  BY <1>1, <1>2 DEF Links

\* A usable key that two findings share puts them in one tree.
LEMMA SharedKeyOneRoot ==
  ASSUME NEW T, findings \in Seq(T), NEW n, n = Len(findings), Sound(n, parent,
  Links(findings)),
         NEW i \in 1..n, NEW j \in 1..n, ValidKeys(findings[i]) \cap ValidKeys(findings[j]) # {}
  PROVE  Root(parent, i) = Root(parent, j)
<1> DEFINE R == Links(findings)
<1>1. n \in Nat /\ DOMAIN findings = 1..n
  BY ListFacts
<1>2. R \in SUBSET ((1..n) \X (1..n))
  BY LinksType
<1>3. PICK key : key \in ValidKeys(findings[i]) /\ key \in ValidKeys(findings[j])
  OBVIOUS
<1> DEFINE I == {x \in DOMAIN findings : key \in ValidKeys(findings[x])}
           first == Min(I)
<1>4. I \in Indices(findings) /\ i \in I /\ j \in I
  BY <1>1, <1>3 DEF Indices
<1>5. I \in SUBSET (1..n) /\ first \in I
  <2>1. I \in SUBSET (1..n) /\ I \in SUBSET Nat
    BY <1>1
  <2> HIDE DEF I
  <2> QED
    BY <1>4, <2>1, LeastExists
<1>6. ASSUME NEW x \in I PROVE x = first \/ <<first, x>> \in R
  BY <1>4, LinkOfKey
<1> HIDE DEF I, first, R
<1>7. ASSUME NEW x \in I PROVE Root(parent, first) = Root(parent, x)
  <2>1. CASE x = first
    BY <2>1
  <2>2. CASE <<first, x>> \in R
    <3>1. first \in 1..n /\ x \in 1..n
      BY <1>5
    <3>2. first \in Connected(n, R, first) /\ Closed(R, Connected(n, R, first))
      BY <1>1, <1>2, <3>1, ConnectedIsLeast
    <3>3. x \in Connected(n, R, first)
      BY <2>2, <3>2 DEF Closed
    <3> QED
      BY <3>1, <3>3 DEF Sound, R
  <2> QED
    BY <1>6, <2>1, <2>2
<1> QED
  BY <1>4, <1>7

\* A finding without a usable key is a group of its own.
LEMMA BlankIsAlone ==
  ASSUME NEW T, findings \in Seq(T), NEW n, n = Len(findings), Forest(n, parent, rank),
         Sound(n, parent, Links(findings)), NEW i \in 1..n, ValidKeys(findings[i]) = {}
  PROVE  Group(i) = {i}
<1> DEFINE R == Links(findings)
<1>1. n \in Nat /\ DOMAIN findings = 1..n
  BY ListFacts
<1>2. R \in SUBSET ((1..n) \X (1..n))
  BY LinksType
<1>3. \A I \in Indices(findings) : i \notin I /\ I \in SUBSET Nat /\ I # {}
  BY <1>1 DEF Indices
<1>4. ASSUME NEW I \in Indices(findings), NEW x \in I PROVE Min(I) # i /\ x # i
  <2>1. Min(I) \in I
    BY <1>3, LeastExists
  <2> QED
    BY <1>3, <2>1
<1>5. \A link \in R : link[1] # i /\ link[2] # i
  BY <1>4 DEF Links
<1>6. Closed(R, {i})
  BY <1>5 DEF Closed
<1> HIDE DEF R
<1>7. Connected(n, R, i) = {i}
  <2>1. {i} \in SUBSET (1..n)
    OBVIOUS
  <2>2. i \in Connected(n, R, i) /\ Connected(n, R, i) \subseteq {i}
    BY <1>1, <1>2, <1>6, <2>1, ConnectedIsLeast
  <2> QED
    BY <2>2
<1>8. DOMAIN parent = 1..n
  BY DEF Forest, Pointers
<1>9. \A j \in 1..n : Root(parent, i) = Root(parent, j) <=> j = i
  BY <1>7 DEF Sound, R
<1> QED
  BY <1>8, <1>9 DEF Group

\* The invariant: the results are the merged groups.
Merged ==
  at = "done" => pending = {} /\ consolidated = [k \in DOMAIN Groups |-> MergeGroup(Groups[k])]

LEMMA MergedInit == Init => Merged
BY DEF Init, Merged

LEMMA MergedStep == IInv /\ Merged /\ [Next]_vars => Merged'
<1> SUFFICES ASSUME IInv, Merged, [Next]_vars PROVE Merged'
  OBVIOUS
<1>1. CASE UNCHANGED vars
  <2>1. Groups' = Groups
    BY <1>1 DEF vars, dedupVars, Groups, Group
  <2> QED
    BY <1>1, <2>1 DEF vars, dedupVars, Merged
<1>2. CASE Normalize \/ BeginGroup \/ Grouping
  <2>1. at' # "done"
    BY <1>2 DEF Normalize, BeginGroup, Grouping
  <2> QED
    BY <2>1 DEF Merged
<1>3. CASE MergeGroups
  <2>1. Groups' = Groups
    BY <1>3 DEF MergeGroups, dedupVars, Groups, Group
  <2>2. consolidated' = [k \in DOMAIN Groups |-> MergeGroup(Groups[k])] /\ pending' = {}
    BY <1>3 DEF MergeGroups, dedupVars
  <2> QED
    BY <2>1, <2>2 DEF Merged
<1> QED
  BY <1>1, <1>2, <1>3 DEF Next

\* When all is merged: what grouping was for.
LEMMA DoneFacts ==
  ASSUME IInv, Merged, at = "done", NEW n, n = Len(findings)
  PROVE  /\ n \in Nat /\ findings \in Seq(Findings) /\ findings \in [1..n -> Findings]
         /\ Forest(n, parent, rank) /\ Sound(n, parent, Links(findings))
<1>1. pending = {} /\ findings \in Seq(Findings)
  BY DEF IInv, Typing, Merged
<1>2. Links(findings) \ pending = Links(findings)
  BY <1>1
<1>3. Forest(n, parent, rank) /\ Sound(n, parent, Links(findings))
  BY <1>2 DEF IInv, Grouped
<1> QED
  BY <1>1, <1>3, LenProperties

LEMMA KeptOne ==
  ASSUME NEW T, NEW s \in Seq(T), NEW t \in Seq(T), NEW i \in DOMAIN s, NEW j \in DOMAIN t,
         s[i] = t[j]
  PROVE  Kept(s, {i}) = Kept(t, {j})
<1>1. ASSUME NEW q \in Seq(T), NEW x \in DOMAIN q PROVE Kept(q, {x}) = [k \in 1..1 |-> q[x]]
  <2>1. x \in Nat
    <3>1. DOMAIN q = 1..Len(q) /\ Len(q) \in Nat
      BY ListFacts
    <3> QED
      BY <3>1
  <2>2. {x} \in SUBSET Nat /\ IsFiniteSet({x}) /\ Cardinality({x}) = 1
    BY <2>1, FS_Singleton
  <2>3. Arranges(Ascending({x}), {x})
    BY <2>2, NumbersSorted
  <2>4. Ascending({x}) \in [1..1 -> {x}]
    BY <2>2, <2>3 DEF Arranges
  <2> QED
    BY <2>4 DEF Kept
<1>2. /\ Kept(s, {i}) = [k \in 1..1 |-> s[i]]
      /\ Kept(t, {j}) = [k \in 1..1 |-> t[j]]
  BY <1>1
<1> QED
  BY <1>2

\* A finding of the tree with root r.
InTree(f, r) == \E i \in DOMAIN findings : f = findings[i] /\ Root(parent, i) = r

\* When all is merged, a group has the findings of one tree.
LEMMA Members ==
  ASSUME IInv, Merged, at = "done", NEW n, n = Len(findings), NEW c \in Nat, NEW first,
         GroupsAt(n, c, first), NEW k \in 1..c
  PROVE  /\ Groups[k] \in Seq(Findings) /\ Groups[k] # <<>>
         /\ \A f : f \in ToSet(Groups[k]) <=> InTree(f, Root(parent, first[k]))
<1>1. /\ n \in Nat /\ findings \in Seq(Findings) /\ findings \in [1..n -> Findings]
      /\ Forest(n, parent, rank) /\ DOMAIN findings = 1..n
  BY DoneFacts, ListFacts
<1>2. k \in DOMAIN Groups /\ first[k] \in 1..n /\ Groups[k] = Kept(findings, Group(first[k]))
  BY Zenon DEF GroupsAt
<1>3. Groups[k] \in Seq(Findings) /\ Groups[k] # <<>>
  BY <1>1, <1>2, GroupsType
<1>4. DOMAIN parent = 1..n
  BY <1>1 DEF Forest, Pointers
<1>5. /\ Group(first[k]) \in SUBSET DOMAIN findings
      /\ \A i \in 1..n : i \in Group(first[k]) <=> Root(parent, i) = Root(parent, first[k])
  BY <1>1, <1>2, <1>4 DEF Group
<1>6. ToSet(Groups[k]) = {findings[i] : i \in Group(first[k])}
  BY <1>1, <1>2, <1>5, KeptFacts
<1> QED
  BY <1>1, <1>3, <1>5, <1>6 DEF InTree

\* Where findings of one key share a usable one, so that they are in one group,
\* or are the same: a key names one result.
LEMMA KeyNamesResult ==
  ASSUME IInv, Merged, KeysShared, at = "done"
  PROVE  \A k, l \in DOMAIN Groups :
           CanonicalKey(Groups[k]) = CanonicalKey(Groups[l])
             => MergeGroup(Groups[k]) = MergeGroup(Groups[l])
<1> DEFINE n == Len(findings)
<1>0. n = Len(findings)
  OBVIOUS
<1> HIDE DEF n
<1>1. /\ n \in Nat /\ findings \in Seq(Findings) /\ findings \in [1..n -> Findings]
      /\ Forest(n, parent, rank) /\ Sound(n, parent, Links(findings)) /\ DOMAIN findings = 1..n
  BY <1>0, DoneFacts, ListFacts
<1>2. PICK c \in Nat : \E first : GroupsAt(n, c, first)
  BY <1>1, GroupPlaces
<1>3. PICK first : GroupsAt(n, c, first)
  BY <1>2
<1>4. /\ DOMAIN Groups = 1..c
      /\ \A k \in 1..c : first[k] \in 1..n /\ Groups[k] = Kept(findings, Group(first[k]))
      /\ \A k, l \in 1..c : Root(parent, first[k]) = Root(parent, first[l]) => k = l
  BY <1>3, Zenon DEF GroupsAt
<1> SUFFICES ASSUME NEW k \in 1..c, NEW l \in 1..c,
                    CanonicalKey(Groups[k]) = CanonicalKey(Groups[l])
             PROVE  MergeGroup(Groups[k]) = MergeGroup(Groups[l])
  BY <1>4
<1>5. ASSUME NEW x \in 1..c
      PROVE  \E i \in 1..n : /\ CanonicalKey(Groups[x]) = findings[i].finding_key
                             /\ Root(parent, i) = Root(parent, first[x])
  <2>1. /\ Groups[x] \in Seq(Findings) /\ Groups[x] # <<>>
        /\ \A f : f \in ToSet(Groups[x]) <=> InTree(f, Root(parent, first[x]))
    BY <1>0, <1>3, Members
  <2>2. PICK f \in ToSet(Groups[x]) : CanonicalKey(Groups[x]) = f.finding_key
    BY <2>1, CanonicalKeyIs, FindingsAreRanked
  <2> QED
    BY <1>1, <2>1, <2>2 DEF InTree
<1>6. PICK i \in 1..n : /\ CanonicalKey(Groups[k]) = findings[i].finding_key
                        /\ Root(parent, i) = Root(parent, first[k])
  BY <1>5
<1>7. PICK j \in 1..n : /\ CanonicalKey(Groups[l]) = findings[j].finding_key
                        /\ Root(parent, j) = Root(parent, first[l])
  BY <1>5
<1>8. SharesKeys(findings[i], findings[j])
  BY <1>1 DEF KeysShared
<1>9. CASE ValidKeys(findings[i]) \cap ValidKeys(findings[j]) # {}
  <2>1. Root(parent, i) = Root(parent, j)
    BY <1>0, <1>1, <1>9, SharedKeyOneRoot
  <2>2. k = l
    BY <1>4, <1>6, <1>7, <2>1
  <2> QED
    BY <2>2
<1>10. CASE findings[i] = findings[j] /\ ValidKeys(findings[i]) = {}
  <2>1. Group(i) = {i} /\ Group(j) = {j}
    BY <1>0, <1>1, <1>10, BlankIsAlone
  <2>2. Group(first[k]) = {i} /\ Group(first[l]) = {j}
    <3>1. Group(first[k]) = Group(i) /\ Group(first[l]) = Group(j)
      BY <1>6, <1>7 DEF Group
    <3> QED
      BY <2>1, <3>1
  <2>3. Groups[k] = Kept(findings, {i}) /\ Groups[l] = Kept(findings, {j})
    BY <1>4, <2>2
  <2>4. Kept(findings, {i}) = Kept(findings, {j})
    BY <1>1, <1>10, KeptOne
  <2> QED
    BY <2>3, <2>4
<1>11. \/ ValidKeys(findings[i]) \cap ValidKeys(findings[j]) # {}
       \/ findings[i] = findings[j] /\ ValidKeys(findings[i]) = {}
  BY <1>6, <1>7, <1>8 DEF SharesKeys
<1> QED
  BY <1>9, <1>10, <1>11

\* What is normalized is listed by its finding key.
LEMMA KeysSharedInit == StoredKeysShared /\ IInv /\ Init => KeysShared
<1> SUFFICES ASSUME StoredKeysShared, IInv, Init PROVE KeysShared
  OBVIOUS
<1>1. CASE findings = <<>>
  BY <1>1 DEF KeysShared
<1>2. CASE findings \in BoundedSeq(StoredFindings, MaxStored)
  <2>1. findings \in Seq(StoredFindings)
    BY <1>2, SeqDef, ConsolidationAssumption DEF BoundedSeq, SeqOf, ConsolidationAssumption
  <2> QED
    BY <2>1, ListFacts DEF KeysShared, StoredKeysShared
<1> QED
  BY <1>1, <1>2 DEF Init

LEMMA KeysSharedStep == IInv /\ KeysShared /\ [Next]_vars => KeysShared'
<1> SUFFICES ASSUME IInv, KeysShared, [Next]_vars PROVE KeysShared'
  OBVIOUS
<1>1. CASE findings' = findings
  BY <1>1 DEF KeysShared
<1>2. CASE Normalizable(observations) /\ findings' = Normalized(observations)
  <2> DEFINE obs == {o \in Observations : ResolveKey(o) # Blank}
             made == {NormalizeOne(o) : o \in obs}
  <2>1. observations \in Seq(obs)
    <3>1. /\ Len(observations) \in Nat /\ DOMAIN observations = 1..Len(observations)
          /\ observations \in [1..Len(observations) -> Observations]
      BY LenProperties DEF IInv, Typing
    <3>2. \A i \in 1..Len(observations) : observations[i] \in obs
      BY <1>2, <3>1 DEF Normalizable
    <3>3. observations \in [1..Len(observations) -> obs]
      BY <3>1, <3>2
    <3> QED
      BY <3>1, <3>3, SeqDef
  <2>2. findings' \in Seq(made)
    BY <1>2, <2>1, NormalizedType
  <2>3. \A f \in made : f.dedup_keys = {f.finding_key} /\ f.finding_key # Blank
    BY DEF NormalizeOne
  <2>4. \A f, g \in made : SharesKeys(f, g)
    BY <2>3 DEF SharesKeys, ValidKeys
  <2> HIDE DEF made
  <2> QED
    BY <2>2, <2>4, ListFacts DEF KeysShared
<1> QED
  BY <1>1, <1>2 DEF Next, vars, dedupVars, Normalize, BeginGroup, StartGrouping, Grouping,
     MakeUnion, ReadGroup, MergeGroups

LEMMA OrderIsFree ==
  ASSUME IInv, Merged, KeysShared
  PROVE  OrderFree
<1> SUFFICES ASSUME at = "done" PROVE OrderFree
  BY DEF OrderFree
<1> DEFINE n == Len(findings)
           T == ToSet(consolidated)
<1>1. /\ n \in Nat /\ findings \in [1..n -> Findings] /\ Forest(n, parent, rank)
      /\ consolidated = [k \in DOMAIN Groups |-> MergeGroup(Groups[k])]
  BY DoneFacts DEF Merged
<1>2. ASSUME NEW k \in DOMAIN Groups PROVE Groups[k] \in Seq(Findings) /\ Groups[k] # <<>>
  <2> HIDE DEF n
  <2> QED
    BY <1>1, <1>2, GroupsType
<1>3. ASSUME NEW k \in DOMAIN Groups
      PROVE  Essence(MergeGroup(Reverse(Groups[k]))) = Essence(consolidated[k])
  <2> DEFINE g == Groups[k]
             h == Reverse(g)
  <2>1. g \in Seq(Findings) /\ g # <<>>
    BY <1>2
  <2> HIDE DEF g
  <2>2. h \in Seq(Findings) /\ SameCounts(g, h)
    BY <2>1, ReverseCounts
  <2> HIDE DEF h
  <2>3. ToSet(g) = ToSet(h) /\ Len(g) = Len(h)
    BY <2>1, <2>2, SameElements
  <2>4. h # <<>>
    BY <2>1, <2>2, <2>3, EmptySeq
  <2>5. Essence(MergeGroup(h)) = Essence(MergeGroup(g))
    BY <2>1, <2>2, <2>3, <2>4, EssenceSame, FindingsAreRanked
  <2> QED
    BY <1>1, <2>5 DEF g, h
<1>4. consolidated \in Seq(T)
  <2>1. PICK c \in Nat : \E first : GroupsAt(n, c, first)
    <3> HIDE DEF n
    <3> QED
      BY <1>1, GroupPlaces
  <2>2. DOMAIN consolidated = 1..c
    BY <1>1, <2>1, Zenon DEF GroupsAt
  <2>3. consolidated \in [1..c -> T]
    BY <1>1, <2>2 DEF ToSet
  <2> QED
    BY <2>3, FilledSeq
<1>5. \A f \in T : \E k \in DOMAIN Groups : f = MergeGroup(Groups[k])
  BY <1>1 DEF ToSet
<1>6. \A f \in T : Presentable(f)
  <2>1. \A k \in DOMAIN Groups : Presentable(MergeGroup(Groups[k]))
    BY <1>2, MergedIsPresentable, FindingsAreRanked, FindingsAreTyped
  <2> QED
    BY <1>5, <2>1
<1>7. \A f, g \in T : f.finding_key = g.finding_key => f = g
  <2>1. \A k \in DOMAIN Groups : MergeGroup(Groups[k]).finding_key = CanonicalKey(Groups[k])
    BY DEF MergeGroup
  <2> QED
    BY <1>5, <2>1, KeyNamesResult
<1>8. Reverse(consolidated) \in Seq(T) /\ SameCounts(consolidated, Reverse(consolidated))
  BY <1>4, ReverseCounts
<1>9. /\ AssignPhases(consolidated) = AssignPhases(Reverse(consolidated))
      /\ \A a : FilterForAudience(ApplySuppression(consolidated), a)
                  = FilterForAudience(ApplySuppression(Reverse(consolidated)), a)
  <2> HIDE DEF T
  <2> QED
    BY <1>4, <1>6, <1>7, <1>8, PresentedSame
<1> QED
  BY <1>3, <1>9 DEF OrderFree

\* For lists of any length, unions in any order and all stored findings whose
\* keys the deduplication knows: which adapter reports first decides nothing
\* but the order of the sources.
THEOREM OrderDecidesNothing ==
  ASSUME StoredKeysShared
  PROVE  Spec => []OrderFree
<1>1. Init => Merged /\ KeysShared
  BY InitInv, MergedInit, KeysSharedInit
<1>2. IInv /\ (Merged /\ KeysShared) /\ [Next]_vars => (Merged /\ KeysShared)'
  BY MergedStep, KeysSharedStep
<1>3. IInv /\ (Merged /\ KeysShared) => OrderFree
  BY OrderIsFree
<1> QED
  BY <1>1, <1>2, <1>3, Invariance, PTL DEF Spec

\* The two ends of a link share a usable key.
LEMMA LinksShareKeys ==
  ASSUME NEW T, NEW fs \in Seq(T), NEW l \in Links(fs)
  PROVE  ValidKeys(fs[l[1]]) \cap ValidKeys(fs[l[2]]) # {}
<1>1. DOMAIN fs = 1..Len(fs) /\ Len(fs) \in Nat
  BY LenProperties
<1>2. PICK I \in Indices(fs) : l \in {<<Min(I), i>> : i \in I \ {Min(I)}}
  BY DEF Links
<1>3. PICK key \in UNION {ValidKeys(fs[i]) : i \in DOMAIN fs} :
        I = {i \in DOMAIN fs : key \in ValidKeys(fs[i])}
  BY DEF Indices
<1>4. I \in SUBSET (1..Len(fs)) /\ I # {}
  BY <1>1, <1>3
<1>5. Min(I) \in I
  BY <1>1, <1>4, LeastExists
<1>6. l[1] \in I /\ l[2] \in I
  BY <1>2, <1>5
<1> QED
  BY <1>3, <1>6

\* The findings that a chain of shared keys connects with f: what Findings takes
\* for the result of grouping (Findings!Closed, Findings!Cluster).
KeysClosed(S, fs) == \A f \in S, g \in fs : ValidKeys(f) \cap ValidKeys(g) # {} => g \in S
Cluster(f, fs) == {g \in fs : \A S \in SUBSET fs : f \in S /\ KeysClosed(S, fs) => g \in S}

\* What consolidation promises, of the groups it merges: nothing is left out,
\* nothing comes in from outside, two groups share no usable key, and a group
\* is no larger than the chains of shared keys make it.
Partitioned ==
  at = "done" =>
    /\ consolidated = [k \in DOMAIN Groups |-> MergeGroup(Groups[k])]
    /\ UNION {ToSet(Groups[k]) : k \in DOMAIN Groups} = ToSet(findings)
    /\ \A k, l \in DOMAIN Groups : \A f \in ToSet(Groups[k]), g \in ToSet(Groups[l]) :
         ValidKeys(f) \cap ValidKeys(g) # {} => k = l
    /\ \A k \in DOMAIN Groups : \A f \in ToSet(Groups[k]) :
         ToSet(Groups[k]) = Cluster(f, ToSet(findings))

\* For lists of any length, unions in any order and whatever is stored: the
\* results are the merged groups, every finding goes into one of them, and a
\* group is all that chains of usable keys connect with any of its findings
\* (UnionFindDedup.group, DefaultConsolidationRule.consolidate).
THEOREM ResultsPartition == Spec => []Partitioned
<1>1. IInv /\ Merged => Partitioned
  <2> SUFFICES ASSUME IInv, Merged, at = "done" PROVE Partitioned
    BY DEF Partitioned
  <2> DEFINE n == Len(findings)
  <2>0. n = Len(findings)
    OBVIOUS
  <2> HIDE DEF n
  <2>1. /\ n \in Nat /\ findings \in Seq(Findings) /\ findings \in [1..n -> Findings]
        /\ Forest(n, parent, rank) /\ Sound(n, parent, Links(findings))
        /\ DOMAIN findings = 1..n
    BY <2>0, DoneFacts, ListFacts
  <2>2. PICK c \in Nat : \E first : GroupsAt(n, c, first)
    BY <2>1, GroupPlaces
  <2>3. PICK first : GroupsAt(n, c, first)
    BY <2>2
  <2>4. /\ DOMAIN Groups = 1..c
        /\ \A i \in 1..n : \E k \in 1..c : Root(parent, i) = Root(parent, first[k])
        /\ \A k, l \in 1..c : Root(parent, first[k]) = Root(parent, first[l]) => k = l
    BY <2>3, Zenon DEF GroupsAt
  <2>5. ASSUME NEW k \in 1..c
        PROVE  \A f : f \in ToSet(Groups[k]) <=> InTree(f, Root(parent, first[k]))
    BY <2>0, <2>3, Members
  <2>6. \A f : f \in ToSet(findings) <=> \E i \in DOMAIN findings : f = findings[i]
    BY DEF ToSet
  <2>7. \A f : f \in ToSet(findings) <=> \E k \in 1..c : InTree(f, Root(parent, first[k]))
    BY <2>1, <2>4, <2>6 DEF InTree
  <2>8. ASSUME NEW k \in DOMAIN Groups, NEW l \in DOMAIN Groups, NEW f \in ToSet(Groups[k]),
               NEW g \in ToSet(Groups[l]), ValidKeys(f) \cap ValidKeys(g) # {}
        PROVE  k = l
    <3>1. PICK i \in 1..n : f = findings[i] /\ Root(parent, i) = Root(parent, first[k])
      BY <2>1, <2>4, <2>5 DEF InTree
    <3>2. PICK j \in 1..n : g = findings[j] /\ Root(parent, j) = Root(parent, first[l])
      BY <2>1, <2>4, <2>5 DEF InTree
    <3>3. Root(parent, i) = Root(parent, j)
      BY <2>0, <2>1, <2>8, <3>1, <3>2, SharedKeyOneRoot
    <3> QED
      BY <2>4, <3>1, <3>2, <3>3
  <2>9. UNION {ToSet(Groups[k]) : k \in DOMAIN Groups} = ToSet(findings)
    BY <2>4, <2>5, <2>7
  <2>10. consolidated = [k \in DOMAIN Groups |-> MergeGroup(Groups[k])]
    BY DEF Merged
  <2>11. ASSUME NEW k \in DOMAIN Groups, NEW f \in ToSet(Groups[k])
         PROVE  Cluster(f, ToSet(findings)) \subseteq ToSet(Groups[k])
    <3> DEFINE S == ToSet(Groups[k])
    <3>1. S \in SUBSET ToSet(findings) /\ f \in S
      BY <2>9
    <3>2. ASSUME NEW g \in S, NEW h \in ToSet(findings), ValidKeys(g) \cap ValidKeys(h) # {}
          PROVE  h \in S
      <4>1. PICK l \in DOMAIN Groups : h \in ToSet(Groups[l])
        BY <2>9
      <4> QED
        BY <2>8, <3>2, <4>1
    <3>3. KeysClosed(S, ToSet(findings))
      BY <3>2 DEF KeysClosed
    <3> QED
      BY <3>1, <3>3 DEF Cluster
  <2>12. ASSUME NEW k \in DOMAIN Groups, NEW f \in ToSet(Groups[k]), NEW g \in ToSet(Groups[k]),
                NEW S \in SUBSET ToSet(findings), f \in S, KeysClosed(S, ToSet(findings))
         PROVE  g \in S
    <3>1. PICK i \in 1..n : f = findings[i] /\ Root(parent, i) = Root(parent, first[k])
      BY <2>1, <2>4, <2>5 DEF InTree
    <3>2. PICK j \in 1..n : g = findings[j] /\ Root(parent, j) = Root(parent, first[k])
      BY <2>1, <2>4, <2>5 DEF InTree
    <3> DEFINE R == Links(findings)
               P == {x \in 1..n : findings[x] \in S}
    <3>3. R \in SUBSET ((1..n) \X (1..n))
      BY <2>0, <2>1, LinksType
    <3>4. ASSUME NEW l \in R PROVE l[1] \in P <=> l[2] \in P
      <4>1. l[1] \in 1..n /\ l[2] \in 1..n
        BY <3>3
      <4>2. findings[l[1]] \in ToSet(findings) /\ findings[l[2]] \in ToSet(findings)
        BY <2>1, <2>6, <4>1
      <4>3. /\ ValidKeys(findings[l[1]]) \cap ValidKeys(findings[l[2]]) # {}
            /\ ValidKeys(findings[l[2]]) \cap ValidKeys(findings[l[1]]) # {}
        BY <2>1, LinksShareKeys
      <4> QED
        BY <2>12, <4>1, <4>2, <4>3 DEF KeysClosed
    <3>5. Closed(R, P)
      BY <3>4 DEF Closed
    <3>6. j \in Connected(n, R, i)
      BY <2>1, <3>1, <3>2 DEF Sound
    <3>7. i \in P /\ P \in SUBSET (1..n)
      BY <2>12, <3>1
    <3>8. Connected(n, R, i) \subseteq P
      <4> HIDE DEF P, R
      <4> QED
        BY <2>1, <3>3, <3>5, <3>7, ConnectedIsLeast
    <3> QED
      BY <3>2, <3>6, <3>8
  <2>13. ASSUME NEW k \in DOMAIN Groups, NEW f \in ToSet(Groups[k])
         PROVE  ToSet(Groups[k]) = Cluster(f, ToSet(findings))
    <3>1. ToSet(Groups[k]) \subseteq ToSet(findings)
      BY <2>9
    <3> QED
      BY <2>11, <2>12, <3>1 DEF Cluster
  <2> QED
    BY <2>8, <2>9, <2>10, <2>13 DEF Partitioned
<1> QED
  BY <1>1, MergedInit, MergedStep, Invariance, PTL DEF Spec
=============================================================================
