---------------------------- MODULE BWalks_proofs ----------------------------
(***************************************************************************)
(* What a walk from the root of the B+ tree finds, for trees of any        *)
(* height: the walks are recursive functions, from level to level, and the *)
(* labels of the inductive invariant say what they come to.                *)
(***************************************************************************)
EXTENDS BPlusTree_proofs, TreeChecks

-----------------------------------------------------------------------------
(* What holds of the first level and goes on from level to level holds of  *)
(* all: the first level it did not hold of would have one before it.       *)
LEMMA FromLevelToLevel ==
  ASSUME NEW n \in Nat, NEW S, 0 \in S, \A d \in 0 .. n - 1 : d \in S => d + 1 \in S
  PROVE  \A d \in 0 .. n : d \in S
<1> DEFINE T == {d \in 0 .. n : d \notin S}
<1>1. SUFFICES ASSUME T # {} PROVE FALSE
  OBVIOUS
<1>2. T \in SUBSET Nat
  OBVIOUS
<1>3. PICK m \in T : \A t \in T : m <= t
  <2> HIDE DEF T
  <2> QED
    BY <1>1, <1>2, LeastNumber
<1>4. m \in 0 .. n /\ m \notin S /\ m # 0
  BY <1>3
<1>5. m - 1 \in 0 .. n - 1 /\ ~(m <= m - 1) /\ (m - 1) + 1 = m /\ m - 1 \in 0 .. n
  BY <1>4
<1>6. m - 1 \notin T
  BY <1>3, <1>5
<1>7. m - 1 \in S
  BY <1>5, <1>6
<1> QED
  BY <1>4, <1>5, <1>7

(* A function that is defined from level to level exists. *)
Steps(f, g, a, n) == f = [d \in 0 .. n |-> IF d = 0 THEN a ELSE g[f[d - 1]]]
LEMMA StepsExist ==
  ASSUME NEW X, NEW g \in [X -> X], NEW a \in X, NEW n \in Nat
  PROVE  \E f \in [0 .. n -> X] : Steps(f, g, a, n)
<1> DEFINE S == {m \in Nat : \E f \in [0 .. m -> X] : Steps(f, g, a, m)}
<1>1. 0 \in S
  <2> DEFINE f == [d \in 0 .. 0 |-> a]
  <2>1. f \in [0 .. 0 -> X] /\ Steps(f, g, a, 0)
    BY DEF Steps
  <2> QED
    BY <2>1
<1>2. ASSUME NEW m \in 0 .. n - 1, m \in S PROVE m + 1 \in S
  <2>1. m \in Nat /\ m + 1 \in Nat
    OBVIOUS
  <2>2. PICK f \in [0 .. m -> X] : Steps(f, g, a, m)
    BY <1>2
  <2> DEFINE e == [d \in 0 .. m + 1 |-> IF d = m + 1 THEN g[f[m]] ELSE f[d]]
  <2>3. \A d \in 0 .. m : f[d] = IF d = 0 THEN a ELSE g[f[d - 1]]
    BY <2>2 DEF Steps
  <2>4. e \in [0 .. m + 1 -> X]
    <3>1. m \in 0 .. m
      BY <2>1
    <3>2. g[f[m]] \in X
      BY <3>1
    <3>3. \A d \in 0 .. m + 1 : d # m + 1 => d \in 0 .. m
      BY <2>1
    <3> QED
      BY <3>2, <3>3
  <2>5. ASSUME NEW d \in 0 .. m + 1 PROVE e[d] = IF d = 0 THEN a ELSE g[e[d - 1]]
    <3>1. CASE d = m + 1
      <4>1. d - 1 = m /\ m \in 0 .. m + 1 /\ m # m + 1 /\ d # 0
        BY <2>1, <3>1
      <4>2. e[m] = f[m] /\ e[d] = g[f[m]]
        BY <3>1, <4>1
      <4> HIDE DEF e
      <4> QED
        BY <4>1, <4>2
    <3>2. CASE d # m + 1
      <4>1. d \in 0 .. m
        BY <2>1, <3>2
      <4>2. e[d] = f[d]
        BY <3>2
      <4>3. d # 0 => d - 1 \in 0 .. m + 1 /\ d - 1 # m + 1
        BY <2>1, <4>1
      <4>4. d # 0 => e[d - 1] = f[d - 1]
        BY <4>3
      <4> HIDE DEF e
      <4> QED
        BY <2>3, <4>1, <4>2, <4>4
    <3> QED
      BY <3>1, <3>2
  <2>6. Steps(e, g, a, m + 1)
    <3>1. e = [d \in 0 .. m + 1 |-> e[d]]
      BY <2>4
    <3> HIDE DEF e
    <3> QED
      BY <2>5, <3>1 DEF Steps
  <2> QED
    BY <2>1, <2>4, <2>6
<1> HIDE DEF S
<1>3. \A d \in 0 .. n : d \in S
  BY <1>1, <1>2, FromLevelToLevel
<1> QED
  BY <1>3 DEF S

-----------------------------------------------------------------------------
(* The pages of one height cover all keys: there is no room for a page     *)
(* that is not reached.                                                    *)

(* On its level the root is alone. *)
LEMMA RootIsAlone ==
  ASSUME NEW pg, NEW root, NEW lo, NEW hi, NEW h, NEW odd, NEW k, Tree(pg, root, lo, hi, h, odd, k),
         NEW x \in DOMAIN pg, h[x] = h[root]
  PROVE  x = root
<1>1. Skeleton(pg, lo, hi, h) /\ root \in DOMAIN pg /\ lo[root] = -1 /\ hi[root] = Top
  BY TreeFacts
<1>2. /\ lo[x] \in Int /\ hi[x] \in Int /\ -1 <= lo[x] /\ lo[x] < hi[x] /\ hi[x] <= Top
      /\ lo[root] \in Int /\ hi[root] \in Int /\ h[x] \in Nat /\ h[root] \in Nat
  BY <1>1, TreeFacts
<1>3. x # root => Apart(lo, hi, x, root) \/ Below_(lo, hi, h, x, root)
  BY <1>1, <1>2 DEF Skeleton, Laminar
<1> QED
  BY <1>1, <1>2, <1>3 DEF Apart, Below_

(* The page one level below x that has the key q in its span. *)
LEMMA ChildFor ==
  ASSUME NEW pg, NEW root, NEW lo, NEW hi, NEW h, NEW odd, NEW k, Tree(pg, root, lo, hi, h, odd, k),
         NEW x \in DOMAIN pg, pg[x].inner, NEW q \in Int, lo[x] < q, q <= hi[x]
  PROVE  LET c == NextPage(pg[x], q) IN
         /\ c \in DOMAIN pg /\ h[x] = h[c] + 1 /\ lo[c] < q /\ q <= hi[c]
         /\ \E i \in 1 .. Len(pg[x].keys) + 1 : ChildAt(pg, x, i) = c
<1>1. Skeleton(pg, lo, hi, h)
  BY TreeFacts
<1> QED
  BY <1>1, Routing

(* Every level of the tree has a page for every key. *)
LEMMA LevelCovers ==
  ASSUME NEW pg, NEW root, NEW lo, NEW hi, NEW h, NEW odd, NEW k, Tree(pg, root, lo, hi, h, odd, k),
         NEW t \in 0 .. h[root], NEW q \in Int, -1 < q, q <= Top
  PROVE  \E x \in DOMAIN pg : h[x] = t /\ lo[x] < q /\ q <= hi[x]
<1>0. /\ Skeleton(pg, lo, hi, h) /\ Leaves(pg, lo, hi, h, odd, k)
      /\ root \in DOMAIN pg /\ lo[root] = -1 /\ hi[root] = Top /\ h[root] \in Nat
  BY TreeFacts
<1> DEFINE n == h[root]
           S == {d \in Nat : \E x \in DOMAIN pg : h[x] + d = n /\ lo[x] < q /\ q <= hi[x]}
<1>1. 0 \in S
  <2>1. h[root] + 0 = n
    BY <1>0
  <2> QED
    BY <1>0, <2>1
<1>2. ASSUME NEW d \in 0 .. n - 1, d \in S PROVE d + 1 \in S
  <2>1. PICK x \in DOMAIN pg : h[x] + d = n /\ lo[x] < q /\ q <= hi[x]
    BY <1>2
  <2>2. h[x] \in Nat /\ pg[x].inner
    <3>1. h[x] \in Nat /\ (pg[x].inner <=> h[x] # 0)
      BY <1>0, LeavesAreLowest
    <3> QED
      BY <1>0, <1>2, <2>1, <3>1
  <2>3. PICK c \in DOMAIN pg : h[x] = h[c] + 1 /\ lo[c] < q /\ q <= hi[c]
    BY <2>1, <2>2, ChildFor
  <2>4. h[c] \in Nat
    BY TreeFacts
  <2>5. h[c] + (d + 1) = n
    BY <1>0, <2>1, <2>2, <2>3, <2>4
  <2> QED
    BY <1>0, <2>3, <2>5
<1> HIDE DEF S
<1>3. n - t \in 0 .. n /\ n - t \in S
  BY <1>0, <1>1, <1>2, FromLevelToLevel
<1>4. PICK x \in DOMAIN pg : h[x] + (n - t) = n /\ lo[x] < q /\ q <= hi[x]
  BY <1>3 DEF S
<1>5. h[x] \in Nat
  BY TreeFacts
<1> QED
  BY <1>0, <1>4, <1>5

(* Every page but the root is the child of a page one level up. *)
LEMMA HasParent ==
  ASSUME NEW pg, NEW root, NEW lo, NEW hi, NEW h, NEW odd, NEW k, Tree(pg, root, lo, hi, h, odd, k),
         NEW y \in DOMAIN pg, y # root
  PROVE  \E x \in DOMAIN pg : /\ pg[x].inner /\ h[x] = h[y] + 1
                              /\ \E i \in 1 .. Len(pg[x].keys) + 1 : ChildAt(pg, x, i) = y
<1>1. /\ Skeleton(pg, lo, hi, h) /\ Leaves(pg, lo, hi, h, odd, k)
      /\ h[root] \in Nat /\ h[y] \in Nat /\ h[y] <= h[root]
      /\ lo[y] \in Int /\ hi[y] \in Int /\ -1 <= lo[y] /\ lo[y] < hi[y] /\ hi[y] <= Top
      /\ DOMAIN pg \subseteq PageIds
  BY TreeFacts
<1>2. h[y] # h[root]
  BY RootIsAlone
<1>3. h[y] + 1 \in 0 .. h[root] /\ -1 < hi[y]
  BY <1>1, <1>2
<1>4. PICK x \in DOMAIN pg : h[x] = h[y] + 1 /\ lo[x] < hi[y] /\ hi[y] <= hi[x]
  BY <1>1, <1>3, LevelCovers
<1>5. pg[x].inner
  <2>1. h[x] # 0
    BY <1>1, <1>4
  <2> QED
    BY <1>1, <2>1, LeavesAreLowest
<1>6. PICK c \in DOMAIN pg : /\ h[x] = h[c] + 1 /\ lo[c] < hi[y] /\ hi[y] <= hi[c]
                             /\ \E i \in 1 .. Len(pg[x].keys) + 1 : ChildAt(pg, x, i) = c
  BY <1>1, <1>4, <1>5, ChildFor
<1>7. c = y
  <2>1. h[c] \in Nat
    BY TreeFacts
  <2>2. h[c] = h[y]
    BY <1>1, <1>4, <1>6, <2>1
  <2>3. Labels(lo, hi, h) /\ Laminar(DOMAIN pg, lo, hi, h)
    BY <1>1 DEF Skeleton
  <2> DEFINE v == hi[y]
  <2>4. v \in Int /\ lo[c] < v /\ v <= hi[c] /\ lo[y] < v /\ v <= hi[y]
    BY <1>1, <1>6
  <2> HIDE DEF v
  <2> QED
    BY <1>1, <2>2, <2>3, <2>4, OneHolder
<1> QED
  BY <1>4, <1>5, <1>6, <1>7

(* There are more pages than levels below the root. *)
LEMMA MorePagesThanLevels ==
  ASSUME NEW pg, NEW root, NEW lo, NEW hi, NEW h, NEW odd, NEW k, Tree(pg, root, lo, hi, h, odd, k)
  PROVE  /\ IsFiniteSet(DOMAIN pg) /\ Cardinality(DOMAIN pg) \in Nat
         /\ h[root] < Cardinality(DOMAIN pg)
<1> DEFINE D == DOMAIN pg
           f == [x \in D |-> h[x]]
           T == {h[x] : x \in D}
           n == h[root]
<1>1. D \subseteq PageIds /\ h[root] \in Nat /\ \A x \in D : h[x] \in Nat
  BY TreeFacts
<1>2. IsFiniteSet(D) /\ Cardinality(D) \in Nat
  <2>1. IsFiniteSet(PageIds)
    BY MaxPagesAssumption, FS_Interval DEF PageIds
  <2> QED
    BY <1>1, <2>1, FS_Subset, FS_CardinalityType
<1>3. 0 .. n \subseteq T
  <2>1. ASSUME NEW t \in 0 .. n PROVE t \in T
    <3>1. Top \in Int /\ -1 < Top /\ Top <= Top
      BY TopIsAbove
    <3>2. \E x \in D : h[x] = t
      BY <3>1, LevelCovers
    <3> QED
      BY <3>2
  <2> QED
    BY <2>1
<1>4. f \in Surjection(D, T)
  BY DEF Surjection
<1> HIDE DEF f, T, D
<1>5. IsFiniteSet(T) /\ Cardinality(T) <= Cardinality(D)
  BY <1>2, <1>4, FS_Surjection
<1>6. Cardinality(0 .. n) <= Cardinality(T)
  BY <1>3, <1>5, FS_Subset
<1>7. Cardinality(0 .. n) = n + 1
  <2>1. 0 \in Int /\ n \in Int /\ ~(0 > n) /\ n - 0 + 1 = n + 1
    BY <1>1
  <2> HIDE DEF n
  <2> QED
    BY <2>1, FS_Interval
<1>8. Cardinality(T) \in Nat
  BY <1>5, FS_CardinalityType
<1>9. n < Cardinality(D)
  <2>1. n \in Nat
    BY <1>1
  <2> HIDE DEF n
  <2> QED
    BY <1>2, <1>5, <1>6, <1>7, <1>8, <2>1
<1> QED
  BY <1>2, <1>9 DEF D
-----------------------------------------------------------------------------
(* The levels. *)
IsLevels(f) ==
  f = [d \in 0 .. Depth |->
         IF d = 0 THEN {root_id}
         ELSE UNION {Range(pages[id].child_ids) : id \in {i \in f[d - 1] : pages[i].inner}}]

(* The children of an inner node, as a set. *)
LEMMA ChildrenAre ==
  ASSUME NEW pg, NEW root, NEW lo, NEW hi, NEW h, NEW odd, NEW k, Tree(pg, root, lo, hi, h, odd, k),
         NEW x \in DOMAIN pg, pg[x].inner
  PROVE  /\ Len(pg[x].keys) \in Nat /\ DOMAIN pg[x].child_ids = 1 .. Len(pg[x].keys) + 1
         /\ Range(pg[x].child_ids) \subseteq DOMAIN pg
         /\ \A c : c \in Range(pg[x].child_ids) <=>
                     \E i \in 1 .. Len(pg[x].keys) + 1 : ChildAt(pg, x, i) = c
<1>1. Skeleton(pg, lo, hi, h) /\ ShapeOK(pg[x])
  BY TreeFacts
<1>2. Len(pg[x].keys) \in Nat /\ DOMAIN pg[x].child_ids = 1 .. Len(pg[x].keys) + 1
  BY <1>1 DEF ShapeOK, IsInner
<1>3. \A c : c \in Range(pg[x].child_ids) <=>
               \E i \in 1 .. Len(pg[x].keys) + 1 : ChildAt(pg, x, i) = c
  BY <1>2 DEF Range, ChildAt
<1>4. \A i \in 1 .. Len(pg[x].keys) + 1 : ChildAt(pg, x, i) \in DOMAIN pg
  BY <1>1, ChildIsBelow
<1> QED
  BY <1>2, <1>3, <1>4

(* Level is the function it is written as: it exists. *)
LEMMA LevelIs ==
  ASSUME NEW lo, NEW hi, NEW h, NEW odd, NEW k, Labelled(lo, hi, h, odd, k)
  PROVE  IsLevels(Level)
<1> DEFINE X == SUBSET DOMAIN pages
           Next_(A) == UNION {Range(pages[id].child_ids) : id \in {i \in A : pages[i].inner}}
           g == [A \in X |-> Next_(A)]
<1>1. Tree(pages, root_id, lo, hi, h, odd, k) /\ root_id \in DOMAIN pages
  BY Known
<1>2. Depth \in Nat
  BY <1>1, MorePagesThanLevels DEF Depth
<1>3. \A A \in X : Next_(A) \in X
  <2>1. \A id \in DOMAIN pages : pages[id].inner => Range(pages[id].child_ids) \subseteq DOMAIN pages
    BY <1>1, ChildrenAre
  <2> QED
    BY <2>1
<1>4. g \in [X -> X] /\ {root_id} \in X
  BY <1>1, <1>3
<1> HIDE DEF g
<1>5. PICK f \in [0 .. Depth -> X] : Steps(f, g, {root_id}, Depth)
  BY <1>2, <1>4, StepsExist
<1>6. IsLevels(f)
  <2>1. \A d \in 0 .. Depth : d # 0 => f[d - 1] \in X
    BY <1>2
  <2>2. \A d \in 0 .. Depth : d # 0 => g[f[d - 1]] = Next_(f[d - 1])
    BY <2>1 DEF g
  <2> HIDE DEF X
  <2> QED
    BY <1>5, <2>2 DEF Steps, IsLevels
<1> QED
  BY <1>6 DEF IsLevels, Level
(* A level has the pages of one height. *)
LEMMA LevelsAre ==
  ASSUME NEW lo, NEW hi, NEW h, NEW odd, NEW k, Labelled(lo, hi, h, odd, k)
  PROVE  /\ Depth \in Nat /\ h[root_id] \in Nat /\ h[root_id] < Depth
         /\ \A d \in 0 .. Depth : \A x : x \in Level[d] <=> x \in DOMAIN pages /\ h[x] + d = h[root_id]
<1> DEFINE n == h[root_id]
           At(d) == {x \in DOMAIN pages : h[x] + d = n}
           L == Level
           S == {d \in 0 .. Depth : L[d] = At(d)}
<1>1. /\ Tree(pages, root_id, lo, hi, h, odd, k) /\ Skeleton(pages, lo, hi, h)
      /\ root_id \in DOMAIN pages /\ n \in Nat /\ \A x \in DOMAIN pages : h[x] \in Nat /\ h[x] <= n
  BY Known, TreeFacts
<1>2. Depth \in Nat /\ n < Depth
  BY <1>1, MorePagesThanLevels DEF Depth
<1>3. IsLevels(L)
  BY LevelIs
<1> HIDE DEF L
<1>4. /\ L[0] = {root_id}
      /\ \A d \in 0 .. Depth : d # 0 =>
           L[d] = UNION {Range(pages[id].child_ids) : id \in {i \in L[d - 1] : pages[i].inner}}
  <2>1. 0 \in 0 .. Depth
    BY <1>2
  <2> QED
    BY <1>3, <2>1 DEF IsLevels
<1>5. 0 \in S
  <2>1. \A x : x \in At(0) <=> x = root_id
    <3>1. \A x \in DOMAIN pages : h[x] + 0 = n => x = root_id
      BY <1>1, RootIsAlone
    <3>2. h[root_id] + 0 = n
      BY <1>1
    <3> QED
      BY <1>1, <3>1, <3>2
  <2>2. L[0] = At(0)
    BY <1>4, <2>1
  <2> QED
    BY <1>2, <2>2
<1>6. ASSUME NEW d \in 0 .. Depth - 1, d \in S PROVE d + 1 \in S
  <2>0. d \in Nat /\ d + 1 \in 0 .. Depth /\ d + 1 # 0 /\ (d + 1) - 1 = d
    BY <1>2
  <2>1. L[d] = At(d) /\ L[d + 1] = UNION {Range(pages[id].child_ids) : id \in {i \in L[d] : pages[i].inner}}
    BY <1>4, <1>6, <2>0
  <2>2. \A y : y \in L[d + 1] <=> \E x \in DOMAIN pages : /\ h[x] + d = n /\ pages[x].inner
                                                          /\ y \in Range(pages[x].child_ids)
    BY <2>1
  <2>3. ASSUME NEW y \in L[d + 1] PROVE y \in At(d + 1)
    <3>1. PICK x \in DOMAIN pages : h[x] + d = n /\ pages[x].inner /\ y \in Range(pages[x].child_ids)
      BY <2>2, <2>3
    <3>2. PICK i \in 1 .. Len(pages[x].keys) + 1 : ChildAt(pages, x, i) = y
      BY <1>1, <3>1, ChildrenAre
    <3>3. y \in DOMAIN pages /\ h[x] = h[y] + 1
      BY <1>1, <3>1, <3>2, ChildIsBelow
    <3>4. h[y] + (d + 1) = n
      BY <1>1, <2>0, <3>1, <3>3
    <3> QED
      BY <3>3, <3>4
  <2>4. ASSUME NEW y \in At(d + 1) PROVE y \in L[d + 1]
    <3>1. y \in DOMAIN pages /\ h[y] + (d + 1) = n /\ h[y] \in Nat
      BY <1>1, <2>4
    <3>2. y # root_id
      BY <1>1, <2>0, <3>1
    <3>3. PICK x \in DOMAIN pages : /\ pages[x].inner /\ h[x] = h[y] + 1
                                    /\ \E i \in 1 .. Len(pages[x].keys) + 1 : ChildAt(pages, x, i) = y
      BY <1>1, <3>1, <3>2, HasParent
    <3>4. h[x] + d = n
      BY <2>0, <3>1, <3>3
    <3>5. y \in Range(pages[x].child_ids)
      BY <1>1, <3>3, ChildrenAre
    <3> QED
      BY <2>2, <3>3, <3>4, <3>5
  <2>5. L[d + 1] = At(d + 1)
    BY <2>3, <2>4
  <2> QED
    BY <2>0, <2>5
<1> HIDE DEF S
<1>7. \A d \in 0 .. Depth : d \in S
  BY <1>2, <1>5, <1>6, FromLevelToLevel
<1> QED
  BY <1>1, <1>2, <1>7 DEF S, L

(* The pages are one tree: each is on a level and has one parent. *)
LEMMA OnePlace ==
  ASSUME NEW lo, NEW hi, NEW h, NEW odd, NEW k, Labelled(lo, hi, h, odd, k)
  PROVE  /\ DOMAIN pages = UNION {Level[d] : d \in 0 .. Depth}
         /\ \A id \in DOMAIN pages \ {root_id} :
              \E x \in Inner : \E i \in 1 .. Len(pages[x].keys) + 1 :
                /\ pages[x].child_ids[i] = id
                /\ \A y \in Inner : \A j \in DOMAIN pages[y].child_ids :
                     pages[y].child_ids[j] = id => y = x /\ j = i
         /\ \A y \in Inner : \A j \in DOMAIN pages[y].child_ids : pages[y].child_ids[j] # root_id
<1>1. /\ Tree(pages, root_id, lo, hi, h, odd, k) /\ Skeleton(pages, lo, hi, h)
      /\ root_id \in DOMAIN pages /\ \A x \in DOMAIN pages : h[x] \in Nat /\ h[x] <= h[root_id]
  BY Known, TreeFacts
<1>2. DOMAIN pages = UNION {Level[d] : d \in 0 .. Depth}
  <2>1. ASSUME NEW x \in DOMAIN pages PROVE \E d \in 0 .. Depth : x \in Level[d]
    <3>1. /\ h[x] \in Nat /\ h[root_id] \in Nat /\ h[x] <= h[root_id] /\ Depth \in Nat /\ h[root_id] < Depth
          /\ \A d \in 0 .. Depth : \A y : y \in Level[d] <=> y \in DOMAIN pages /\ h[y] + d = h[root_id]
      BY <1>1, LevelsAre
    <3>2. h[root_id] - h[x] \in 0 .. Depth /\ h[x] + (h[root_id] - h[x]) = h[root_id]
      BY <3>1
    <3> QED
      BY <3>1, <3>2
  <2>2. \A d \in 0 .. Depth : \A x \in Level[d] : x \in DOMAIN pages
    BY LevelsAre
  <2> QED
    BY <2>1, <2>2
<1>3. ASSUME NEW y \in Inner, NEW j \in DOMAIN pages[y].child_ids
      PROVE  /\ y \in DOMAIN pages /\ pages[y].inner /\ j \in 1 .. Len(pages[y].keys) + 1
             /\ pages[y].child_ids[j] = ChildAt(pages, y, j)
  BY <1>1, ChildrenAre DEF Inner, ChildAt
<1>4. ASSUME NEW id \in DOMAIN pages \ {root_id}
      PROVE  \E x \in Inner : \E i \in 1 .. Len(pages[x].keys) + 1 :
                /\ pages[x].child_ids[i] = id
                /\ \A y \in Inner : \A j \in DOMAIN pages[y].child_ids :
                     pages[y].child_ids[j] = id => y = x /\ j = i
  <2>1. PICK x \in DOMAIN pages : pages[x].inner /\ \E i \in 1 .. Len(pages[x].keys) + 1 : ChildAt(pages, x, i) = id
    BY <1>1, HasParent
  <2>2. PICK i \in 1 .. Len(pages[x].keys) + 1 : ChildAt(pages, x, i) = id
    BY <2>1
  <2>3. ASSUME NEW y \in Inner, NEW j \in DOMAIN pages[y].child_ids, pages[y].child_ids[j] = id
        PROVE  y = x /\ j = i
    <3>1. y \in DOMAIN pages /\ pages[y].inner /\ j \in 1 .. Len(pages[y].keys) + 1 /\ ChildAt(pages, y, j) = ChildAt(pages, x, i)
      BY <1>3, <2>2, <2>3
    <3> QED
      BY <1>1, <2>1, <3>1, OnlyParent
  <2> QED
    BY <2>1, <2>2, <2>3 DEF Inner, ChildAt
<1>5. ASSUME NEW y \in Inner, NEW j \in DOMAIN pages[y].child_ids PROVE pages[y].child_ids[j] # root_id
  <2>1. h[y] = h[pages[y].child_ids[j]] + 1 /\ h[y] <= h[root_id] /\ h[root_id] \in Nat
    BY <1>1, <1>3, ChildIsBelow
  <2> QED
    BY <2>1
<1> QED
  BY <1>2, <1>4, <1>5

(* The number of links to a page, as PagesFormATree counts them. *)
LinksTo(id) ==
  {link \in Inner \X (1 .. N) :
     LET siblings == pages[link[1]].child_ids IN
     link[2] \in DOMAIN siblings /\ siblings[link[2]] = id}
LEMMA LinksAreCounted ==
  ASSUME IInv, NEW id \in DOMAIN pages
  PROVE  Cardinality(LinksTo(id)) = Bit(id # root_id)
<1>1. PICK lo, hi, h, odd, k : Labelled(lo, hi, h, odd, k)
  BY DEF IInv
<1>2. CASE id = root_id
  <2>0. \A y \in Inner : \A j \in DOMAIN pages[y].child_ids : pages[y].child_ids[j] # root_id
    BY <1>1, OnePlace
  <2>1. LinksTo(id) = {}
    BY <1>2, <2>0 DEF LinksTo
  <2> QED
    BY <1>2, <2>1, FS_EmptySet DEF Bit
<1>3. CASE id # root_id
  <2>0. PICK x \in Inner : \E i \in 1 .. Len(pages[x].keys) + 1 :
          /\ pages[x].child_ids[i] = id
          /\ \A y \in Inner : \A j \in DOMAIN pages[y].child_ids :
               pages[y].child_ids[j] = id => y = x /\ j = i
    BY <1>1, <1>3, OnePlace
  <2>1. PICK i \in 1 .. Len(pages[x].keys) + 1 :
          /\ pages[x].child_ids[i] = id
          /\ \A y \in Inner : \A j \in DOMAIN pages[y].child_ids :
               pages[y].child_ids[j] = id => y = x /\ j = i
    BY <2>0
  <2>2. DOMAIN pages[x].child_ids = 1 .. Len(pages[x].keys) + 1 /\ Len(pages[x].keys) \in Nat
    BY <1>1, Known, ChildrenAre DEF Inner
  <2>3. Len(pages[x].keys) <= N - 1 /\ N \in Nat
    <3>1. Len(pages[x].keys) <= MaxSize(pages[x]) /\ pages[x].inner
      BY DEF IInv, Sized, Inner
    <3> QED
      BY <3>1, NodeSizeAssumption DEF MaxSize
  <2>4. i \in 1 .. N /\ i \in DOMAIN pages[x].child_ids
    BY <2>2, <2>3
  <2>5. LinksTo(id) = {<<x, i>>}
    BY <2>1, <2>4 DEF LinksTo
  <2> QED
    BY <1>3, <2>5, FS_Singleton DEF Bit
<1> QED
  BY <1>2, <1>3

(* The invariant says so of the pages. *)
LEMMA IInvGivesTree == IInv => PagesFormATree
<1> SUFFICES ASSUME IInv PROVE PagesFormATree
  OBVIOUS
<1>1. DOMAIN pages = UNION {Level[d] : d \in 0 .. Depth}
  BY OnePlace DEF IInv
<1> QED
  BY <1>1, LinksAreCounted DEF PagesFormATree, LinksTo

(* Between calls all pages are reached from the root, each from one page:  *)
(* no split, merge or shrinking of the root leaves a page behind.          *)
THEOREM OneTree == Spec => []PagesFormATree
  BY TreeIsKept, IInvGivesTree, PTL

(* A level has one height, and only leaves have height 0. *)
LEMMA IInvGivesEvenHeight == IInv => BalancedAndFilled
<1> SUFFICES ASSUME IInv, Idle PROVE BalancedAndFilled
  BY DEF BalancedAndFilled
<1>1. PICK lo, hi, h, odd, k : Labelled(lo, hi, h, odd, k)
  BY DEF IInv
<1>2. Skeleton(pages, lo, hi, h) /\ Leaves(pages, lo, hi, h, odd, k)
  BY <1>1, Known
<1>3. ASSUME NEW d \in 0 .. Depth PROVE Level[d] \subseteq Outer \/ Level[d] \subseteq Inner
  <2>1. /\ d \in Nat /\ h[root_id] \in Nat
        /\ \A x : x \in Level[d] <=> x \in DOMAIN pages /\ h[x] + d = h[root_id]
    BY <1>1, LevelsAre
  <2>2. \A x \in DOMAIN pages : h[x] \in Nat /\ (pages[x].inner <=> h[x] # 0)
    BY <1>2, LeavesAreLowest
  <2>3. \A x \in Level[d] : x \in DOMAIN pages /\ (pages[x].inner <=> d # h[root_id])
    BY <2>1, <2>2
  <2> QED
    BY <2>3 DEF Outer, Inner
<1>4. \A id \in DOMAIN pages \ {root_id} : ~IsTooEmpty(pages[id])
  BY DEF IInv, Sized
<1>5. root_id \in Inner => pages[root_id].keys # << >>
  BY DEF IInv, RootFilled, Inner, Idle
<1> QED
  BY <1>3, <1>4, <1>5 DEF BalancedAndFilled

(* All leaves are on one level, and every node but the root is filled as   *)
(* the limits ask, whatever order keys come and go in.                     *)
THEOREM EvenHeight == Spec => []BalancedAndFilled
  BY TreeIsKept, IInvGivesEvenHeight, PTL
-----------------------------------------------------------------------------
(* The way down to a key. *)
IsWay(f, key) ==
  f = [d \in 0 .. Depth |->
         IF d = 0 THEN root_id
         ELSE LET id == f[d - 1] IN IF pages[id].inner THEN NextPage(pages[id], key) ELSE id]

(* Whatever key is looked for, a node leads to one of its children.        *)
LEMMA SomeChild ==
  ASSUME NEW pg, NEW root, NEW lo, NEW hi, NEW h, NEW odd, NEW k, Tree(pg, root, lo, hi, h, odd, k),
         NEW x \in DOMAIN pg, pg[x].inner, NEW key \in Int
  PROVE  NextPage(pg[x], key) \in DOMAIN pg
<1>1. Skeleton(pg, lo, hi, h) /\ ShapeOK(pg[x])
  BY TreeFacts
<1>2. pg[x].keys \in Seq(Int) /\ Ascending(pg[x].keys)
  BY <1>1, InnerFacts DEF ShapeOK
<1>3. Position(pg[x], key) \in 1 .. Len(pg[x].keys) + 1
  BY <1>2, PositionSplits
<1> QED
  BY <1>1, <1>3, ChildIsBelow DEF NextPage, ChildAt

(* The function that LeafFor is written with exists. *)
LEMMA LeafForIs ==
  ASSUME NEW lo, NEW hi, NEW h, NEW odd, NEW k, Labelled(lo, hi, h, odd, k), NEW key \in Int
  PROVE  \E f : IsWay(f, key) /\ LeafFor(key) = f[Depth]
<1> DEFINE X == DOMAIN pages
           To(id) == IF pages[id].inner THEN NextPage(pages[id], key) ELSE id
           g == [id \in X |-> To(id)]
           W == CHOOSE f : IsWay(f, key)
<1>1. Tree(pages, root_id, lo, hi, h, odd, k) /\ root_id \in DOMAIN pages
  BY Known
<1>2. Depth \in Nat
  BY <1>1, MorePagesThanLevels DEF Depth
<1>3. g \in [X -> X]
  BY <1>1, SomeChild
<1> HIDE DEF g
<1>4. PICK f \in [0 .. Depth -> X] : Steps(f, g, root_id, Depth)
  BY <1>1, <1>2, <1>3, StepsExist
<1>5. IsWay(f, key)
  <2>1. \A d \in 0 .. Depth : d # 0 => f[d - 1] \in X
    BY <1>2
  <2>2. \A d \in 0 .. Depth : d # 0 => g[f[d - 1]] = To(f[d - 1])
    BY <2>1 DEF g
  <2> HIDE DEF X
  <2> QED
    BY <1>4, <2>2 DEF Steps, IsWay
<1>6. IsWay(W, key)
  BY <1>5
<1>7. LeafFor(key) = W[Depth]
  BY DEF LeafFor, IsWay
<1> QED
  BY <1>6, <1>7

(* The way down leads to the leaf whose span has the key. *)
LEMMA LeafForKey ==
  ASSUME NEW lo, NEW hi, NEW h, NEW odd, NEW k, Labelled(lo, hi, h, odd, k),
         NEW z \in DOMAIN pages, ~pages[z].inner, NEW key \in Int, lo[z] < key, key <= hi[z]
  PROVE  LeafFor(key) = z
<1> DEFINE n == h[root_id]
<1>1. /\ Tree(pages, root_id, lo, hi, h, odd, k) /\ Skeleton(pages, lo, hi, h) /\ Leaves(pages, lo, hi, h, odd, k)
      /\ root_id \in DOMAIN pages /\ n \in Nat /\ lo[root_id] = -1 /\ hi[root_id] = Top
      /\ \A x \in DOMAIN pages : /\ h[x] \in Nat /\ lo[x] \in Int /\ hi[x] \in Int
                                 /\ -1 <= lo[x] /\ hi[x] <= Top
                                 /\ (pages[x].inner <=> h[x] # 0)
  BY Known, TreeFacts, LeavesAreLowest
<1>2. Depth \in Nat /\ n < Depth
  BY LevelsAre
<1>3. -1 < key /\ key <= Top
  <2>1. -1 <= lo[z] /\ hi[z] <= Top /\ lo[z] \in Int /\ hi[z] \in Int /\ Top \in Int
    BY <1>1, TopIsAbove
  <2> QED
    BY <2>1
<1>4. PICK f : IsWay(f, key) /\ LeafFor(key) = f[Depth]
  BY LeafForIs
<1>5. /\ f[0] = root_id
      /\ \A d \in 0 .. Depth : d # 0 =>
           f[d] = IF pages[f[d - 1]].inner THEN NextPage(pages[f[d - 1]], key) ELSE f[d - 1]
  <2>1. 0 \in 0 .. Depth
    BY <1>2
  <2> QED
    BY <1>4, <2>1 DEF IsWay
<1> DEFINE Good(d) == /\ f[d] \in DOMAIN pages /\ lo[f[d]] < key /\ key <= hi[f[d]]
                      /\ h[f[d]] = IF d <= n THEN n - d ELSE 0
           S == {d \in 0 .. Depth : Good(d)}
<1>6. 0 \in S
  <2>1. 0 <= n /\ n - 0 = n
    BY <1>1
  <2>2. Good(0)
    BY <1>1, <1>3, <1>5, <2>1
  <2> QED
    BY <1>2, <2>2
<1>7. ASSUME NEW d \in 0 .. Depth - 1, d \in S PROVE d + 1 \in S
  <2>0. d \in Nat /\ d + 1 \in 0 .. Depth /\ d + 1 # 0 /\ (d + 1) - 1 = d
    BY <1>2
  <2>1. Good(d)
    BY <1>7
  <2>2. f[d + 1] = IF pages[f[d]].inner THEN NextPage(pages[f[d]], key) ELSE f[d]
    BY <1>5, <2>0
  <2> DEFINE x == f[d]
             y == f[d + 1]
  <2>3. x \in DOMAIN pages /\ lo[x] < key /\ key <= hi[x] /\ h[x] = IF d <= n THEN n - d ELSE 0
    BY <2>1
  <2>4. y = IF pages[x].inner THEN NextPage(pages[x], key) ELSE x
    BY <2>2
  <2> HIDE DEF x, y
  <2>5. CASE pages[x].inner
    <3>1. y \in DOMAIN pages /\ h[x] = h[y] + 1 /\ lo[y] < key /\ key <= hi[y]
      <4>1. y = NextPage(pages[x], key)
        BY <2>4, <2>5
      <4>2. x \in DOMAIN pages /\ lo[x] < key /\ key <= hi[x]
        BY <2>3
      <4>3. Tree(pages, root_id, lo, hi, h, odd, k)
        BY <1>1
      <4> QED
        BY <2>5, <4>1, <4>2, <4>3, ChildFor
    <3>2. h[x] # 0 /\ h[y] \in Nat
      BY <1>1, <2>3, <2>5, <3>1
    <3>3. h[y] = IF d + 1 <= n THEN n - (d + 1) ELSE 0
      BY <1>1, <2>0, <2>3, <3>1, <3>2
    <3> QED
      BY <2>0, <3>1, <3>3 DEF y
  <2>6. CASE ~pages[x].inner
    <3>1. y = x /\ h[x] = 0
      BY <1>1, <2>3, <2>4, <2>6
    <3>2. h[y] = IF d + 1 <= n THEN n - (d + 1) ELSE 0
      BY <1>1, <2>0, <2>3, <3>1
    <3> QED
      BY <2>0, <2>3, <3>1, <3>2 DEF y
  <2> QED
    BY <2>5, <2>6
<1> HIDE DEF S
<1>8. Depth \in S
  BY <1>2, <1>6, <1>7, FromLevelToLevel
<1>9. f[Depth] \in DOMAIN pages /\ lo[f[Depth]] < key /\ key <= hi[f[Depth]] /\ h[f[Depth]] = 0
  <2>1. Good(Depth)
    BY <1>8 DEF S
  <2>2. (IF Depth <= n THEN n - Depth ELSE 0) = 0
    BY <1>1, <1>2
  <2> QED
    BY <2>1, <2>2
<1>10. DOMAIN pages \subseteq PageIds /\ Labels(lo, hi, h) /\ Laminar(DOMAIN pages, lo, hi, h) /\ h[z] = 0
  BY <1>1 DEF Skeleton
<1> DEFINE y == f[Depth]
<1> HIDE DEF y
<1>11. y \in DOMAIN pages /\ lo[y] < key /\ key <= hi[y] /\ h[y] = h[z]
  BY <1>9, <1>10 DEF y
<1>12. y = z
  BY <1>10, <1>11, OneHolder
<1> QED
  BY <1>4, <1>12 DEF y

(* Every key is in the span of its leaf, but the key that is being         *)
(* deleted.                                                                *)
LEMMA IInvGivesFound == IInv => StoredKeysAreFound
<1> SUFFICES ASSUME IInv, NEW z \in Outer, NEW q \in Range(pages[z].keys)
             PROVE  LeafFor(q) = z \/ (op.kind = "delete" /\ q = op.key)
  BY DEF StoredKeysAreFound
<1>1. PICK lo, hi, h, odd, k : Labelled(lo, hi, h, odd, k)
  BY DEF IInv
<1>2. Tree(pages, root_id, lo, hi, h, odd, k) /\ Registers(lo, hi, h, odd) /\ (odd # 0 => k = op.key) /\ 0 \notin DOMAIN pages
  BY <1>1, Known
<1>3. z \in DOMAIN pages /\ ~pages[z].inner
  BY DEF Outer, Inner
<1>4. /\ Len(pages[z].keys) \in Nat /\ pages[z].keys \in Seq(Int) /\ Ascending(pages[z].keys)
      /\ \A i \in 1 .. Len(pages[z].keys) :
           /\ pages[z].keys[i] \in Int /\ lo[z] < pages[z].keys[i]
           /\ z # odd => pages[z].keys[i] <= hi[z]
      /\ z = odd => Len(pages[z].keys) > 1 /\ pages[z].keys[Len(pages[z].keys)] = k
                    /\ pages[z].keys[Len(pages[z].keys) - 1] = hi[z]
  BY <1>2, <1>3, LeafKeys
<1>5. PICK i \in 1 .. Len(pages[z].keys) : pages[z].keys[i] = q
  BY <1>4 DEF Range
<1>6. CASE q <= hi[z]
  BY <1>1, <1>3, <1>4, <1>5, <1>6, LeafForKey
<1>7. CASE ~(q <= hi[z])
  <2>1. z = odd
    BY <1>4, <1>5, <1>7
  <2>2. i = Len(pages[z].keys)
    <3>1. CASE i = Len(pages[z].keys) - 1
      BY <1>4, <1>5, <1>7, <2>1, <3>1
    <3>2. CASE i < Len(pages[z].keys) - 1
      <4> DEFINE j == Len(pages[z].keys) - 1
      <4>1. pages[z].keys[j] = hi[z]
        BY <1>4, <2>1
      <4>2. j \in 1 .. Len(pages[z].keys) /\ i < j
        <5> DEFINE n == Len(pages[z].keys)
        <5>1. n \in Nat /\ i \in 1 .. n /\ i < n - 1
          BY <1>4, <3>2
        <5> HIDE DEF n
        <5>2. n - 1 \in 1 .. n /\ i < n - 1
          BY ONLY <5>1, SMT
        <5> QED
          BY <5>2 DEF n, j
      <4> HIDE DEF j
      <4>3. pages[z].keys[i] < pages[z].keys[j] /\ pages[z].keys[i] \in Int /\ pages[z].keys[j] \in Int
        BY <1>4, <4>2 DEF Ascending
      <4> QED
        BY <1>5, <1>7, <4>1, <4>3
    <3> QED
      BY <1>4, <3>1, <3>2
  <2>3. q = op.key
    BY <1>2, <1>3, <1>4, <1>5, <2>1, <2>2
  <2>4. op.kind = "delete"
    <3>1. odd # 0
      BY <1>2, <1>3, <2>1
    <3> QED
      BY <1>2, <3>1 DEF Registers, Resting, Walking, ScanningOn, Inserting, Splitting, Deleting, Finding, Balancing, OpIs
  <2> QED
    BY <2>3, <2>4
<1> QED
  BY <1>6, <1>7

(* get_value, were it asked at any point of any call, would find every     *)
(* stored key in its leaf, except the one key that is being deleted.       *)
THEOREM KeysAreFound == Spec => []StoredKeysAreFound
  BY TreeIsKept, IInvGivesFound, PTL
-----------------------------------------------------------------------------
(* The keys below a page. *)
InSpan(lo, hi, x) == {q \in StoredKeys : lo[x] < q /\ q <= hi[x]}
LeafKeysOf(id) == Range(pages[id].keys)
KeysFrom(v) ==
  [id \in DOMAIN pages |->
     IF ~pages[id].inner THEN LeafKeysOf(id) ELSE UNION {v[c] : c \in Range(pages[id].child_ids)}]
IsBelow(f) ==
  f = [d \in 0 .. Depth |->
         [id \in DOMAIN pages |->
            IF ~pages[id].inner THEN LeafKeysOf(id)
            ELSE IF d = 0 THEN {}
            ELSE UNION {f[d - 1][c] : c \in Range(pages[id].child_ids)}]]

(* The function that Below is written with exists. *)
LEMMA BelowIs ==
  ASSUME NEW lo, NEW hi, NEW h, NEW odd, NEW k, Labelled(lo, hi, h, odd, k)
  PROVE  \E f : IsBelow(f) /\ Below = f[Depth]
<1> DEFINE X == [DOMAIN pages -> SUBSET Keys]
           a == [id \in DOMAIN pages |-> IF ~pages[id].inner THEN LeafKeysOf(id) ELSE {}]
           g == [v \in X |-> KeysFrom(v)]
           W == CHOOSE f : IsBelow(f)
<1>1. Tree(pages, root_id, lo, hi, h, odd, k)
  BY Known
<1>2. Depth \in Nat
  BY <1>1, MorePagesThanLevels DEF Depth
<1>3. \A id \in DOMAIN pages : ~pages[id].inner => LeafKeysOf(id) \subseteq Keys
  <2>1. SUFFICES ASSUME NEW id \in DOMAIN pages, ~pages[id].inner PROVE LeafKeysOf(id) \subseteq Keys
    OBVIOUS
  <2>2. IsOuter(pages[id], Keys, Values, PageIds)
    BY <1>1, <2>1, TreeFacts DEF ShapeOK
  <2>3. pages[id].keys \in Seq(Keys)
    BY <2>2 DEF IsOuter
  <2> QED
    BY <2>3 DEF LeafKeysOf, Range
<1>4. a \in X
  BY <1>3
<1>5. \A v \in X : KeysFrom(v) \in X
  <2>1. ASSUME NEW v \in X, NEW id \in DOMAIN pages, pages[id].inner
        PROVE  UNION {v[c] : c \in Range(pages[id].child_ids)} \subseteq Keys
    <3>1. Range(pages[id].child_ids) \subseteq DOMAIN pages
      BY <1>1, <2>1, ChildrenAre
    <3> QED
      BY <3>1
  <2> QED
    BY <1>3, <2>1 DEF KeysFrom
<1>6. g \in [X -> X]
  BY <1>5
<1> HIDE DEF g, a
<1>7. PICK f \in [0 .. Depth -> X] : Steps(f, g, a, Depth)
  BY <1>2, <1>4, <1>6, StepsExist
<1> DEFINE At(d) == [id \in DOMAIN pages |->
                       IF ~pages[id].inner THEN LeafKeysOf(id)
                       ELSE IF d = 0 THEN {}
                       ELSE UNION {f[d - 1][c] : c \in Range(pages[id].child_ids)}]
<1>8. ASSUME NEW d \in 0 .. Depth PROVE f[d] = At(d)
  <2>1. f[d] = IF d = 0 THEN a ELSE g[f[d - 1]]
    BY <1>7 DEF Steps
  <2>2. CASE d = 0
    BY <2>1, <2>2 DEF a
  <2>3. CASE d # 0
    <3>1. d - 1 \in 0 .. Depth
      BY <1>2, <2>3
    <3>2. f[d - 1] \in X
      BY <3>1
    <3> HIDE DEF X
    <3>3. f[d] = KeysFrom(f[d - 1])
      BY <2>1, <2>3, <3>2 DEF g
    <3> QED
      BY <2>3, <3>3 DEF KeysFrom
  <2> QED
    BY <2>2, <2>3
<1>9. IsBelow(f)
  <2>1. f = [d \in 0 .. Depth |-> f[d]]
    OBVIOUS
  <2> HIDE DEF At, X
  <2>2. f = [d \in 0 .. Depth |-> At(d)]
    BY <1>8, <2>1
  <2> QED
    BY <2>2 DEF At, IsBelow
<1>10. IsBelow(W)
  BY <1>9
<1>11. Below = W[Depth]
  BY DEF Below, IsBelow, LeafKeysOf
<1> QED
  BY <1>10, <1>11

(* Stored keys are numbers. *)
LEMMA StoredAreInts ==
  ASSUME NEW lo, NEW hi, NEW h, NEW odd, NEW k, Labelled(lo, hi, h, odd, k), NEW q \in StoredKeys
  PROVE  q \in Int
<1>1. Tree(pages, root_id, lo, hi, h, odd, k)
  BY Known
<1>2. PICK z \in DOMAIN pages : ~pages[z].inner /\ \E j \in 1 .. Len(pages[z].keys) : pages[z].keys[j] = q
  BY StoredIs
<1> QED
  BY <1>1, <1>2, LeafKeys

(* A leaf has the stored keys of its span. *)
LEMMA LeafSpan ==
  ASSUME NEW lo, NEW hi, NEW h, NEW odd, NEW k, Labelled(lo, hi, h, odd, k), odd = 0,
         NEW x \in DOMAIN pages, ~pages[x].inner
  PROVE  LeafKeysOf(x) = InSpan(lo, hi, x)
<1>1. /\ Tree(pages, root_id, lo, hi, h, odd, k) /\ Skeleton(pages, lo, hi, h)
      /\ DOMAIN pages \subseteq PageIds /\ 0 \notin DOMAIN pages
      /\ Labels(lo, hi, h) /\ Laminar(DOMAIN pages, lo, hi, h)
  BY Known DEF Skeleton
<1>2. ASSUME NEW z \in DOMAIN pages, ~pages[z].inner
      PROVE  /\ Len(pages[z].keys) \in Nat /\ DOMAIN pages[z].keys = 1 .. Len(pages[z].keys)
             /\ \A i \in 1 .. Len(pages[z].keys) :
                  pages[z].keys[i] \in Int /\ lo[z] < pages[z].keys[i] /\ pages[z].keys[i] <= hi[z]
  <2>1. z # odd
    BY <1>1
  <2>2. pages[z].keys \in Seq(Int) /\ Len(pages[z].keys) \in Nat
    BY <1>1, <1>2, LeafKeys
  <2> QED
    BY <1>1, <1>2, <2>1, <2>2, LeafKeys
<1>3. ASSUME NEW q \in LeafKeysOf(x) PROVE q \in InSpan(lo, hi, x)
  <2>1. PICK i \in 1 .. Len(pages[x].keys) : pages[x].keys[i] = q
    BY <1>2, <1>3 DEF LeafKeysOf, Range
  <2>2. q \in StoredKeys
    BY <2>1, StoredIs
  <2> QED
    BY <1>2, <2>1, <2>2 DEF InSpan
<1>4. ASSUME NEW q \in InSpan(lo, hi, x) PROVE q \in LeafKeysOf(x)
  <2>1. q \in StoredKeys /\ lo[x] < q /\ q <= hi[x]
    BY <1>4 DEF InSpan
  <2>2. PICK z \in DOMAIN pages : ~pages[z].inner /\ \E j \in 1 .. Len(pages[z].keys) : pages[z].keys[j] = q
    BY <2>1, StoredIs
  <2>3. q \in Int /\ lo[z] < q /\ q <= hi[z]
    BY <1>2, <2>2
  <2>4. h[x] = h[z]
    <3>1. (pages[x].inner <=> h[x] # 0) /\ (pages[z].inner <=> h[z] # 0)
      BY <1>1, TreeFacts, LeavesAreLowest
    <3> QED
      BY <2>2, <3>1
  <2>5. x = z
    BY <1>1, <2>1, <2>3, <2>4, OneHolder
  <2> QED
    BY <1>2, <2>2, <2>5 DEF LeafKeysOf, Range
<1> QED
  BY <1>3, <1>4

(* Below a page are the stored keys of its span. *)
LEMMA BelowAre ==
  ASSUME NEW lo, NEW hi, NEW h, NEW odd, NEW k, Labelled(lo, hi, h, odd, k), odd = 0,
         NEW y \in DOMAIN pages
  PROVE  Below[y] = InSpan(lo, hi, y)
<1>1. /\ Tree(pages, root_id, lo, hi, h, odd, k) /\ Skeleton(pages, lo, hi, h) /\ Leaves(pages, lo, hi, h, odd, k)
      /\ h[root_id] \in Nat
      /\ \A x \in DOMAIN pages : /\ h[x] \in Nat /\ h[x] <= h[root_id] /\ lo[x] \in Int /\ hi[x] \in Int
                                 /\ (pages[x].inner <=> h[x] # 0)
  BY Known, TreeFacts, LeavesAreLowest
<1>2. Depth \in Nat /\ h[root_id] < Depth
  BY LevelsAre
<1>3. PICK f : IsBelow(f) /\ Below = f[Depth]
  BY BelowIs
<1>4. \A d \in 0 .. Depth : \A x \in DOMAIN pages :
        f[d][x] = IF ~pages[x].inner THEN LeafKeysOf(x)
                  ELSE IF d = 0 THEN {}
                  ELSE UNION {f[d - 1][c] : c \in Range(pages[x].child_ids)}
  <2> DEFINE At(d) == [x \in DOMAIN pages |->
                         IF ~pages[x].inner THEN LeafKeysOf(x)
                         ELSE IF d = 0 THEN {}
                         ELSE UNION {f[d - 1][c] : c \in Range(pages[x].child_ids)}]
  <2>1. f = [d \in 0 .. Depth |-> At(d)]
    BY <1>3 DEF IsBelow
  <2>2. \A d \in 0 .. Depth : f[d] = At(d)
    <3> HIDE DEF At
    <3> QED
      BY <2>1
  <2> QED
    BY <2>2
<1> DEFINE Good(d) == \A x \in DOMAIN pages : h[x] <= d => f[d][x] = InSpan(lo, hi, x)
           S == {d \in 0 .. Depth : Good(d)}
<1>5. 0 \in S
  <2>0. 0 \in 0 .. Depth
    BY <1>2
  <2>1. ASSUME NEW x \in DOMAIN pages, h[x] <= 0 PROVE f[0][x] = InSpan(lo, hi, x)
    <3>1. ~pages[x].inner
      BY <1>1, <2>1
    <3>2. f[0][x] = LeafKeysOf(x)
      BY <1>4, <2>0, <3>1
    <3> QED
      BY <3>1, <3>2, LeafSpan
  <2> QED
    BY <2>0, <2>1
<1>6. ASSUME NEW d \in 0 .. Depth - 1, d \in S PROVE d + 1 \in S
  <2>0. d \in Nat /\ d + 1 \in 0 .. Depth /\ d + 1 # 0 /\ (d + 1) - 1 = d
    BY <1>2
  <2>1. \A x \in DOMAIN pages : h[x] <= d => f[d][x] = InSpan(lo, hi, x)
    BY <1>6
  <2>2. ASSUME NEW x \in DOMAIN pages, h[x] <= d + 1 PROVE f[d + 1][x] = InSpan(lo, hi, x)
    <3>1. CASE ~pages[x].inner
      <4>1. f[d + 1][x] = LeafKeysOf(x)
        BY <1>4, <2>0, <3>1
      <4> QED
        BY <3>1, <4>1, LeafSpan
    <3>2. CASE pages[x].inner
      <4>1. f[d + 1][x] = UNION {f[d][c] : c \in Range(pages[x].child_ids)}
        <5> DEFINE From(e) == UNION {f[e][c] : c \in Range(pages[x].child_ids)}
        <5>1. f[d + 1][x] = From((d + 1) - 1)
          BY <1>4, <2>0, <3>2
        <5> HIDE DEF From
        <5>2. f[d + 1][x] = From(d)
          BY <2>0, <5>1
        <5> QED
          BY <5>2 DEF From
      <4>2. ASSUME NEW c \in Range(pages[x].child_ids)
            PROVE  f[d][c] = InSpan(lo, hi, c) /\ lo[x] <= lo[c] /\ hi[c] <= hi[x] /\ c \in DOMAIN pages
        <5>1. PICK i \in 1 .. Len(pages[x].keys) + 1 : ChildAt(pages, x, i) = c
          BY <1>1, <3>2, ChildrenAre
        <5>2. /\ c \in DOMAIN pages /\ h[x] = h[c] + 1
              /\ lo[c] = Cut(pages[x], lo[x], hi[x], i - 1) /\ hi[c] = Cut(pages[x], lo[x], hi[x], i)
              /\ lo[x] <= Cut(pages[x], lo[x], hi[x], i - 1) /\ Cut(pages[x], lo[x], hi[x], i) <= hi[x]
          BY <1>1, <3>2, <5>1, ChildIsBelow
        <5>3. h[c] <= d
          BY <1>1, <2>0, <2>2, <5>2
        <5> QED
          BY <2>1, <5>2, <5>3
      <4>3. \A q : q \in f[d + 1][x] => q \in InSpan(lo, hi, x)
        <5>1. SUFFICES ASSUME NEW q \in f[d + 1][x] PROVE q \in InSpan(lo, hi, x)
          OBVIOUS
        <5>2. PICK c \in Range(pages[x].child_ids) : q \in f[d][c]
          BY <4>1, <5>1
        <5>3. q \in StoredKeys /\ lo[c] < q /\ q <= hi[c]
          BY <4>2, <5>2 DEF InSpan
        <5>4. q \in Int
          BY <5>3, StoredAreInts
        <5>5. lo[x] < q /\ q <= hi[x]
          BY <1>1, <4>2, <5>3, <5>4
        <5> QED
          BY <5>3, <5>5 DEF InSpan
      <4>4. \A q : q \in InSpan(lo, hi, x) => q \in f[d + 1][x]
        <5>1. SUFFICES ASSUME NEW q \in InSpan(lo, hi, x) PROVE q \in f[d + 1][x]
          OBVIOUS
        <5>2. q \in StoredKeys /\ lo[x] < q /\ q <= hi[x]
          BY <5>1 DEF InSpan
        <5>3. q \in Int
          BY <5>2, StoredAreInts
        <5>4. PICK c \in DOMAIN pages :
                /\ lo[c] < q /\ q <= hi[c]
                /\ \E i \in 1 .. Len(pages[x].keys) + 1 : ChildAt(pages, x, i) = c
          BY <1>1, <3>2, <5>2, <5>3, ChildFor
        <5>5. c \in Range(pages[x].child_ids)
          BY <1>1, <3>2, <5>4, ChildrenAre
        <5>6. q \in f[d][c]
          BY <4>2, <5>2, <5>4, <5>5 DEF InSpan
        <5> QED
          BY <4>1, <5>5, <5>6
      <4> QED
        BY <4>3, <4>4
    <3> QED
      BY <3>1, <3>2
  <2> QED
    BY <2>0, <2>2
<1> HIDE DEF S
<1>7. Depth \in S
  BY <1>2, <1>5, <1>6, FromLevelToLevel
<1>8. h[y] <= Depth
  BY <1>1, <1>2
<1> QED
  BY <1>3, <1>7, <1>8 DEF S

(* A separator is the last key of the leaf whose span it ends. *)
LEMMA SeparatorStored ==
  ASSUME NEW lo, NEW hi, NEW h, NEW odd, NEW k, Labelled(lo, hi, h, odd, k), odd = 0,
         NEW x \in DOMAIN pages, pages[x].inner, NEW i \in 1 .. Len(pages[x].keys)
  PROVE  pages[x].keys[i] \in StoredKeys
<1> DEFINE s == pages[x].keys[i]
           c == ChildAt(pages, x, i)
<1>1. /\ Tree(pages, root_id, lo, hi, h, odd, k) /\ Skeleton(pages, lo, hi, h) /\ Leaves(pages, lo, hi, h, odd, k)
      /\ DOMAIN pages \subseteq PageIds /\ 0 \notin DOMAIN pages /\ root_id \in DOMAIN pages
      /\ Labels(lo, hi, h) /\ Laminar(DOMAIN pages, lo, hi, h) /\ h[root_id] \in Nat
      /\ \A y \in DOMAIN pages : h[y] \in Nat /\ lo[y] \in Int /\ hi[y] \in Int
  BY Known, TreeFacts DEF Skeleton
<1>2. Len(pages[x].keys) \in Nat /\ s \in Int /\ -1 < s /\ s < Top /\ Top \in Int
  <2>1. IsInner(pages[x], Keys, PageIds)
    BY <1>1, TreeFacts DEF ShapeOK
  <2>2. Len(pages[x].keys) \in Nat /\ s \in Keys
    BY <2>1, InnerFacts
  <2> HIDE DEF s
  <2> QED
    BY <2>2, KeysAreInts, TopIsAbove
<1>3. c \in DOMAIN pages /\ lo[c] < s /\ hi[c] = s
  <2>1. i \in 1 .. Len(pages[x].keys) + 1 /\ Cut(pages[x], lo[x], hi[x], i) = s
    BY <1>2 DEF Cut
  <2> QED
    BY <1>1, <2>1, ChildIsBelow
<1> HIDE DEF s, c
<1>4. PICK z \in DOMAIN pages : h[z] = 0 /\ lo[z] < s /\ s <= hi[z]
  <2>1. 0 \in 0 .. h[root_id] /\ s <= Top
    BY <1>1, <1>2
  <2> QED
    BY <1>1, <1>2, <2>1, LevelCovers
<1>5. hi[z] = s
  <2>1. CASE z = c
    BY <1>3, <2>1
  <2>2. CASE z # c
    <3>1. Apart(lo, hi, z, c) \/ Below_(lo, hi, h, z, c)
      BY <1>1, <1>3, <1>4, <2>2 DEF Laminar
    <3>2. lo[z] \in Int /\ hi[z] \in Int /\ lo[c] \in Int
      BY <1>1, <1>3
    <3> QED
      BY <1>2, <1>3, <1>4, <3>1, <3>2 DEF Apart, Below_
  <2> QED
    BY <2>1, <2>2
<1>6. ~pages[z].inner /\ z # odd /\ hi[z] # Top
  <2>1. pages[z].inner <=> h[z] # 0
    BY <1>1, LeavesAreLowest
  <2> QED
    BY <1>1, <1>2, <1>4, <1>5, <2>1
<1>7. Len(pages[z].keys) \in Nat /\ Len(pages[z].keys) > 0 /\ pages[z].keys[Len(pages[z].keys)] = s
  BY <1>1, <1>5, <1>6, LeafKeys
<1>8. Len(pages[z].keys) \in 1 .. Len(pages[z].keys)
  BY <1>7
<1> QED
  BY <1>6, <1>7, <1>8, StoredIs DEF s

(* The children of a separator end and begin at it. *)
LEMMA IInvGivesTight == IInv => SeparatorsAreTight
<1> SUFFICES ASSUME IInv, Idle, NEW x \in Inner, NEW i \in DOMAIN pages[x].keys
             PROVE  LET s == pages[x].keys[i]
                        left == Below[pages[x].child_ids[i]]
                        right == Below[pages[x].child_ids[i + 1]]
                    IN  s \in left /\ (\A q \in left : q <= s) /\ \A q \in right : q > s
  BY DEF SeparatorsAreTight
<1>1. PICK lo, hi, h, odd, k : Labelled(lo, hi, h, odd, k)
  BY DEF IInv
<1>2. odd = 0
  BY <1>1, Known, Places DEF Idle, Resting
<1>3. /\ Tree(pages, root_id, lo, hi, h, odd, k) /\ Skeleton(pages, lo, hi, h)
      /\ \A y \in DOMAIN pages : lo[y] \in Int /\ hi[y] \in Int
  BY <1>1, Known, TreeFacts
<1>4. x \in DOMAIN pages /\ pages[x].inner
  BY DEF Inner
<1>5. /\ Len(pages[x].keys) \in Nat /\ DOMAIN pages[x].keys = 1 .. Len(pages[x].keys)
      /\ pages[x].keys[i] \in Int
  <2>1. IsInner(pages[x], Keys, PageIds)
    BY <1>3, <1>4, TreeFacts DEF ShapeOK
  <2>2. pages[x].keys \in Seq(Int) /\ Len(pages[x].keys) \in Nat
    BY <2>1, InnerFacts
  <2> QED
    BY <2>2
<1> DEFINE s == pages[x].keys[i]
           c == ChildAt(pages, x, i)
           d == ChildAt(pages, x, i + 1)
<1>6. c \in DOMAIN pages /\ lo[c] < s /\ hi[c] = s
  <2>1. i \in 1 .. Len(pages[x].keys) + 1 /\ Cut(pages[x], lo[x], hi[x], i) = s
    BY <1>5 DEF Cut
  <2> QED
    BY <1>3, <1>4, <2>1, ChildIsBelow
<1>7. d \in DOMAIN pages /\ lo[d] = s
  <2>1. i + 1 \in 1 .. Len(pages[x].keys) + 1 /\ Cut(pages[x], lo[x], hi[x], (i + 1) - 1) = s
    BY <1>5 DEF Cut
  <2> QED
    BY <1>3, <1>4, <2>1, ChildIsBelow
<1>8. s \in StoredKeys
  BY <1>1, <1>2, <1>4, <1>5, SeparatorStored
<1>9. c = pages[x].child_ids[i] /\ d = pages[x].child_ids[i + 1] /\ s \in Int
  BY <1>5 DEF ChildAt
<1> HIDE DEF s, c, d
<1>10. Below[c] = InSpan(lo, hi, c)
  BY <1>1, <1>2, <1>6, BelowAre
<1>11. Below[d] = InSpan(lo, hi, d)
  BY <1>1, <1>2, <1>7, BelowAre
<1>12. s \in Below[c] /\ \A q \in Below[c] : q <= s
  <2>1. s <= s
    BY <1>9
  <2> QED
    BY <1>6, <1>8, <1>10, <2>1 DEF InSpan
<1>13. \A q \in Below[d] : q > s
  <2>1. SUFFICES ASSUME NEW q \in Below[d] PROVE q > s
    OBVIOUS
  <2>2. q \in StoredKeys /\ lo[d] < q
    BY <1>11, <2>1 DEF InSpan
  <2>3. q \in Int
    BY <1>1, <2>2, StoredAreInts
  <2> QED
    BY <1>7, <1>9, <2>2, <2>3
<1> QED
  BY <1>9, <1>12, <1>13 DEF s

(* Between calls every separator is the biggest key to its left and below  *)
(* all keys to its right, however keys were exchanged, borrowed and merged.*)
THEOREM SeparatorsTight == Spec => []SeparatorsAreTight
  BY TreeIsKept, IInvGivesTight, PTL

(* contains_key of the debugger looks at the keys of all nodes: those of   *)
(* inner nodes are stored.                                                 *)
LEMMA IInvGivesContains == IInv => ContainsKeyIsExact
<1> SUFFICES ASSUME IInv, Idle, NEW q \in Keys PROVE ContainsKey(q) <=> q \in StoredKeys
  BY DEF ContainsKeyIsExact
<1>1. PICK lo, hi, h, odd, k : Labelled(lo, hi, h, odd, k)
  BY DEF IInv
<1>2. odd = 0
  BY <1>1, Known, Places DEF Idle, Resting
<1>3. Tree(pages, root_id, lo, hi, h, odd, k)
  BY <1>1, Known
<1>4. Visited = DOMAIN pages
  BY <1>1, OnePlace DEF Visited
<1>5. ASSUME NEW x \in DOMAIN pages
      PROVE  HasKey(pages[x], q) <=> \E i \in 1 .. Len(pages[x].keys) : pages[x].keys[i] = q
  <2>1. pages[x].keys \in Seq(Int) /\ Ascending(pages[x].keys)
    BY <1>3, TreeFacts, InnerFacts, LeafFacts DEF ShapeOK
  <2>2. q \in Int
    BY KeysAreInts
  <2> QED
    BY <2>1, <2>2, HasKeyMeans
<1>6. ASSUME ContainsKey(q) PROVE q \in StoredKeys
  <2>1. PICK x \in DOMAIN pages : HasKey(pages[x], q)
    BY <1>4, <1>6 DEF ContainsKey
  <2>2. PICK i \in 1 .. Len(pages[x].keys) : pages[x].keys[i] = q
    BY <1>5, <2>1
  <2>3. CASE pages[x].inner
    BY <1>1, <1>2, <2>2, <2>3, SeparatorStored
  <2>4. CASE ~pages[x].inner
    BY <1>1, <2>2, <2>4, StoredIs
  <2> QED
    BY <2>3, <2>4
<1>7. ASSUME q \in StoredKeys PROVE ContainsKey(q)
  <2>1. PICK z \in DOMAIN pages : ~pages[z].inner /\ \E j \in 1 .. Len(pages[z].keys) : pages[z].keys[j] = q
    BY <1>1, <1>7, StoredIs
  <2>2. HasKey(pages[z], q)
    BY <1>5, <2>1
  <2> QED
    BY <1>4, <2>2 DEF ContainsKey
<1> QED
  BY <1>6, <1>7

(* What contains_key says is what is stored.  *)
THEOREM ContainsExactly == Spec => []ContainsKeyIsExact
  BY TreeIsKept, IInvGivesContains, PTL
-----------------------------------------------------------------------------
(* What the program's own checks find.  Between calls no leaf is odd, and  *)
(* every inner node has a key.  The checks are asked about pages p that    *)
(* differ from the tree in nothing but the keys of leaves.                 *)
AtRest(lo, hi, h, k) ==
  Labelled(lo, hi, h, 0, k) /\ \A x \in DOMAIN pages : pages[x].inner => Len(pages[x].keys) > 0
Alike(p) ==
  /\ DOMAIN p = DOMAIN pages
  /\ \A x \in DOMAIN pages :
       IF pages[x].inner THEN p[x] = pages[x]
       ELSE ~p[x].inner /\ p[x].next_lef_id = pages[x].next_lef_id

LEMMA IdleRests ==
  ASSUME IInv, Idle
  PROVE  \E lo, hi, h, k : AtRest(lo, hi, h, k)
<1>1. PICK lo, hi, h, odd, k : Labelled(lo, hi, h, odd, k)
  BY DEF IInv
<1>2. odd = 0
  BY <1>1, Known, Places DEF Idle, Resting
<1>3. ASSUME NEW x \in DOMAIN pages, pages[x].inner PROVE Len(pages[x].keys) > 0
  <2>1. Len(pages[x].keys) \in Nat /\ pages[x].keys \in Seq(Keys)
    <3>1. IsInner(pages[x], Keys, PageIds)
      BY <1>1, <1>3, Known, TreeFacts DEF ShapeOK
    <3> QED
      BY <3>1 DEF IsInner
  <2>2. CASE x = root_id
    <3>1. pages[x].keys # << >>
      BY <1>3, <2>2 DEF IInv, RootFilled, Idle
    <3> QED
      BY <2>1, <3>1
  <2>3. CASE x # root_id
    <3>1. ~IsTooEmpty(pages[x])
      BY <2>3 DEF IInv, Sized
    <3>2. ~(Len(pages[x].keys) < Half - 1)
      BY <1>3, <2>1, <3>1, InnerSizes
    <3> QED
      BY <2>1, <3>2, HalfIs
  <2> QED
    BY <2>2, <2>3
<1>4. AtRest(lo, hi, h, k)
  BY <1>1, <1>2, <1>3 DEF AtRest
<1> QED
  BY <1>4

LEMMA RestFacts ==
  ASSUME NEW lo, NEW hi, NEW h, NEW k, AtRest(lo, hi, h, k)
  PROVE  /\ Labelled(lo, hi, h, 0, k) /\ Tree(pages, root_id, lo, hi, h, 0, k)
         /\ Skeleton(pages, lo, hi, h) /\ Leaves(pages, lo, hi, h, 0, k)
         /\ DOMAIN pages \subseteq PageIds /\ 0 \notin DOMAIN pages
         /\ Labels(lo, hi, h) /\ Spans(DOMAIN pages, lo, hi) /\ Laminar(DOMAIN pages, lo, hi, h)
         /\ root_id \in DOMAIN pages /\ lo[root_id] = -1 /\ hi[root_id] = Top /\ Top \in Nat
         /\ \A x \in DOMAIN pages :
              /\ h[x] \in Nat /\ h[x] <= h[root_id]
              /\ lo[x] \in Int /\ hi[x] \in Int /\ -1 <= lo[x] /\ lo[x] < hi[x] /\ hi[x] <= Top
              /\ pages[x].inner \in BOOLEAN /\ (pages[x].inner <=> h[x] # 0)
              /\ Len(pages[x].keys) \in Nat /\ DOMAIN pages[x].keys = 1 .. Len(pages[x].keys)
              /\ (pages[x].inner => Len(pages[x].keys) > 0)
<1>1. Labelled(lo, hi, h, 0, k) /\ \A x \in DOMAIN pages : pages[x].inner => Len(pages[x].keys) > 0
  BY DEF AtRest
<1>2. Tree(pages, root_id, lo, hi, h, 0, k) /\ Top \in Nat
  BY <1>1, Known, TopIsAbove
<1>3. Skeleton(pages, lo, hi, h) /\ Leaves(pages, lo, hi, h, 0, k)
  BY <1>2, TreeFacts
<1>4. Spans(DOMAIN pages, lo, hi) /\ Laminar(DOMAIN pages, lo, hi, h)
  BY <1>3 DEF Skeleton
<1>5. ASSUME NEW x \in DOMAIN pages
      PROVE  Len(pages[x].keys) \in Nat /\ DOMAIN pages[x].keys = 1 .. Len(pages[x].keys)
  <2>1. ShapeOK(pages[x])
    BY <1>2, TreeFacts
  <2>2. pages[x].keys \in Seq(Int)
    BY <2>1, InnerFacts, LeafFacts DEF ShapeOK
  <2> QED
    BY <2>2
<1>6. \A x \in DOMAIN pages : pages[x].inner <=> h[x] # 0
  BY <1>3, LeavesAreLowest
<1> QED
  BY <1>1, <1>2, <1>3, <1>4, <1>5, <1>6, TreeFacts

(* The first child of a node begins where the node begins. *)
LEMMA FirstChild ==
  ASSUME NEW lo, NEW hi, NEW h, NEW k, AtRest(lo, hi, h, k), NEW p, Alike(p),
         NEW x \in DOMAIN pages, pages[x].inner
  PROVE  LET c == Head(p[x].child_ids) IN
         /\ p[x] = pages[x] /\ c = ChildAt(pages, x, 1) /\ c \in Range(p[x].child_ids)
         /\ c \in DOMAIN pages /\ h[x] = h[c] + 1 /\ lo[c] = lo[x] /\ hi[c] <= hi[x]
<1>1. p[x] = pages[x] /\ Tree(pages, root_id, lo, hi, h, 0, k) /\ Skeleton(pages, lo, hi, h)
  BY RestFacts DEF Alike
<1>2. IsInner(pages[x], Keys, PageIds)
  BY <1>1, TreeFacts DEF ShapeOK
<1>3. Len(pages[x].keys) \in Nat /\ 1 \in 1 .. Len(pages[x].keys) + 1
  BY <1>1, TreeFacts
<1>4. pages[x].child_ids \in Seq(PageIds) /\ pages[x].child_ids # << >>
  BY <1>2, <1>3 DEF IsInner
<1> DEFINE c == ChildAt(pages, x, 1)
<1>5. Head(pages[x].child_ids) = c
  BY <1>4 DEF ChildAt
<1>6. Cut(pages[x], lo[x], hi[x], 1 - 1) = lo[x]
  BY DEF Cut
<1> HIDE DEF c
<1>7. c \in DOMAIN pages /\ h[x] = h[c] + 1 /\ lo[c] = lo[x] /\ hi[c] <= hi[x]
  BY <1>1, <1>3, <1>6, ChildIsBelow DEF c
<1>8. c \in Range(pages[x].child_ids)
  BY <1>1, <1>3, ChildrenAre DEF c
<1> QED
  BY <1>1, <1>5, <1>7, <1>8 DEF c

(* What holds of a node if it holds of the nodes one level below it holds  *)
(* of all nodes.                                                           *)
LEMMA FromTheLeaves ==
  ASSUME NEW lo, NEW hi, NEW h, NEW k, AtRest(lo, hi, h, k), NEW A,
         \A x \in DOMAIN pages : (\A c \in DOMAIN pages : h[x] = h[c] + 1 => c \in A) => x \in A
  PROVE  DOMAIN pages \subseteq A
<1> DEFINE n == h[root_id]
           Good(d) == \A x \in DOMAIN pages : h[x] <= d => x \in A
           S == {d \in 0 .. n : Good(d)}
<1>1. n \in Nat /\ \A x \in DOMAIN pages : h[x] \in Nat /\ h[x] <= n
  BY RestFacts
<1> HIDE DEF n
<1>2. 0 \in S
  <2>1. ASSUME NEW x \in DOMAIN pages, h[x] <= 0 PROVE x \in A
    <3>1. \A c \in DOMAIN pages : h[x] # h[c] + 1
      BY <1>1, <2>1
    <3> QED
      BY <3>1
  <2> QED
    BY <1>1, <2>1
<1>3. ASSUME NEW d \in 0 .. n - 1, d \in S PROVE d + 1 \in S
  <2>1. ASSUME NEW x \in DOMAIN pages, h[x] <= d + 1 PROVE x \in A
    <3>1. ASSUME NEW c \in DOMAIN pages, h[x] = h[c] + 1 PROVE c \in A
      <4>1. h[c] <= d
        BY <1>1, <2>1, <3>1
      <4> QED
        BY <1>3, <4>1
    <3> QED
      BY <3>1
  <2>2. d + 1 \in 0 .. n
    BY <1>1
  <2> QED
    BY <2>1, <2>2
<1> HIDE DEF S
<1>4. n \in S
  BY <1>1, <1>2, <1>3, FromLevelToLevel
<1> QED
  BY <1>1, <1>4 DEF S

(* Every node finds itself one higher than its children. *)
IsHeights(f, p) ==
  f = [id \in DOMAIN p |->
         IF ~p[id].inner \/ p[id].keys = << >> THEN 1
         ELSE LET first == f[Head(p[id].child_ids)] IN
              IF \A c \in Range(p[id].child_ids) : f[c] = first THEN first + 1 ELSE -1]
LEMMA BalancedIs ==
  ASSUME NEW lo, NEW hi, NEW h, NEW k, AtRest(lo, hi, h, k), NEW p, Alike(p)
  PROVE  IsBalanced(p)
<1> DEFINE W == CHOOSE f : IsHeights(f, p)
           g == [x \in DOMAIN pages |-> h[x] + 1]
<1>1. DOMAIN p = DOMAIN pages /\ \A x \in DOMAIN pages : p[x].inner <=> pages[x].inner
  BY RestFacts DEF Alike
<1>2. \A x \in DOMAIN pages : h[x] \in Nat /\ (pages[x].inner <=> h[x] # 0)
  BY RestFacts
<1>3. ASSUME NEW x \in DOMAIN pages, pages[x].inner
      PROVE  /\ p[x].keys # << >> /\ Head(p[x].child_ids) \in Range(p[x].child_ids)
             /\ \A c \in Range(p[x].child_ids) : c \in DOMAIN pages /\ h[x] = h[c] + 1
  <2>1. p[x] = pages[x] /\ Head(p[x].child_ids) \in Range(p[x].child_ids)
    BY <1>3, FirstChild
  <2>2. Len(pages[x].keys) > 0 /\ Tree(pages, root_id, lo, hi, h, 0, k) /\ Skeleton(pages, lo, hi, h)
    BY <1>3, RestFacts
  <2>3. pages[x].keys # << >>
    BY <2>2
  <2>4. \A c \in Range(pages[x].child_ids) : c \in DOMAIN pages /\ h[x] = h[c] + 1
    <3>1. SUFFICES ASSUME NEW c \in Range(pages[x].child_ids) PROVE c \in DOMAIN pages /\ h[x] = h[c] + 1
      OBVIOUS
    <3>2. PICK i \in 1 .. Len(pages[x].keys) + 1 : ChildAt(pages, x, i) = c
      BY <1>3, <2>2, ChildrenAre
    <3> QED
      BY <1>3, <2>2, <3>2, ChildIsBelow
  <2> QED
    BY <2>1, <2>3, <2>4
<1> DEFINE Of(f, x) == IF ~p[x].inner \/ p[x].keys = << >> THEN 1
                       ELSE IF \A c \in Range(p[x].child_ids) : f[c] = f[Head(p[x].child_ids)]
                            THEN f[Head(p[x].child_ids)] + 1 ELSE -1
<1>4. ASSUME NEW f, NEW x \in DOMAIN pages, \A c \in DOMAIN pages : h[x] = h[c] + 1 => f[c] = h[c] + 1
      PROVE  Of(f, x) = h[x] + 1
  <2>1. CASE ~pages[x].inner
    BY <1>1, <1>2, <2>1
  <2>2. CASE pages[x].inner
    <3> DEFINE first == Head(p[x].child_ids)
    <3>1. \A c \in Range(p[x].child_ids) : h[c] \in Nat /\ h[x] = h[c] + 1 /\ f[c] = h[c] + 1
      BY <1>2, <1>3, <1>4, <2>2
    <3>2. first \in Range(p[x].child_ids)
      BY <1>3, <2>2
    <3>3. \A c \in Range(p[x].child_ids) : f[c] = f[first]
      BY <3>1, <3>2
    <3> HIDE DEF first
    <3>4. f[first] = h[x]
      BY <3>1, <3>2
    <3>5. p[x].inner /\ p[x].keys # << >>
      BY <1>1, <1>3, <2>2
    <3> QED
      BY <3>3, <3>4, <3>5 DEF first
  <2> QED
    BY <2>1, <2>2
<1>5. IsHeights(g, p)
  <2>1. \A x \in DOMAIN pages : g[x] = Of(g, x)
    <3> HIDE DEF Of
    <3> QED
      BY <1>4
  <2>2. g = [x \in DOMAIN p |-> g[x]]
    BY <1>1
  <2> HIDE DEF g, Of
  <2>3. g = [x \in DOMAIN p |-> Of(g, x)]
    BY <1>1, <2>1, <2>2
  <2> QED
    BY <2>3 DEF Of, IsHeights
<1>6. IsHeights(W, p)
  BY <1>5
<1>7. \A x \in DOMAIN pages : W[x] = Of(W, x)
  <2>1. W = [x \in DOMAIN p |-> Of(W, x)]
    BY <1>6 DEF IsHeights
  <2> HIDE DEF Of, W
  <2> QED
    BY <1>1, <2>1
<1> DEFINE A == {x \in DOMAIN pages : W[x] = h[x] + 1}
<1>8. Height(p) = W
  BY DEF Height, IsHeights
<1> HIDE DEF W, Of
<1>9. ASSUME NEW x \in DOMAIN pages, \A c \in DOMAIN pages : h[x] = h[c] + 1 => c \in A PROVE x \in A
  BY <1>4, <1>7, <1>9
<1> HIDE DEF A
<1>10. root_id \in A
  BY <1>9, FromTheLeaves, RestFacts
<1>11. W[root_id] # -1
  BY <1>2, <1>10, RestFacts DEF A
<1> QED
  BY <1>8, <1>11 DEF IsBalanced

(* smaller_or_equal and bigger see the pages on the left edge below a      *)
(* page: those that begin where it begins.  T: the pages that pass.        *)
OnEdge(lo, h, x, y) == lo[y] = lo[x] /\ h[y] <= h[x]
EdgePasses(lo, h, x, T) == \A y \in DOMAIN pages : OnEdge(lo, h, x, y) => y \in T
DownLeft(f, T, p) ==
  f = [id \in DOMAIN p |-> id \in T /\ (p[id].inner => f[Head(p[id].child_ids)])]

LEMMA EdgeIs ==
  ASSUME NEW lo, NEW hi, NEW h, NEW k, AtRest(lo, hi, h, k), NEW p, Alike(p),
         NEW x \in DOMAIN pages, NEW y \in DOMAIN pages
  PROVE  OnEdge(lo, h, x, y) <=>
           y = x \/ (pages[x].inner /\ OnEdge(lo, h, Head(p[x].child_ids), y))
<1>1. /\ DOMAIN pages \subseteq PageIds /\ Labels(lo, hi, h)
      /\ Spans(DOMAIN pages, lo, hi) /\ Laminar(DOMAIN pages, lo, hi, h)
      /\ h[x] \in Nat /\ h[y] \in Nat /\ (pages[x].inner <=> h[x] # 0)
  BY RestFacts
<1>2. h[x] = h[y] /\ lo[x] = lo[y] => x = y
  BY <1>1, OneEnd
<1>3. CASE pages[x].inner
  <2> DEFINE c == Head(p[x].child_ids)
  <2>1. c \in DOMAIN pages /\ h[x] = h[c] + 1 /\ lo[c] = lo[x]
    BY <1>3, FirstChild
  <2>2. h[c] \in Nat
    BY <2>1, RestFacts
  <2> HIDE DEF c
  <2>3. OnEdge(lo, h, x, y) <=> y = x \/ OnEdge(lo, h, c, y)
    BY <1>1, <1>2, <2>1, <2>2 DEF OnEdge
  <2> QED
    BY <1>3, <2>3 DEF c
<1>4. CASE ~pages[x].inner
  BY <1>1, <1>2, <1>4 DEF OnEdge
<1> QED
  BY <1>3, <1>4

LEMMA EdgePassesIs ==
  ASSUME NEW lo, NEW hi, NEW h, NEW k, AtRest(lo, hi, h, k), NEW p, Alike(p), NEW T, NEW x \in DOMAIN pages
  PROVE  EdgePasses(lo, h, x, T) <=>
           x \in T /\ (p[x].inner => EdgePasses(lo, h, Head(p[x].child_ids), T))
<1>1. \A y \in DOMAIN pages :
        OnEdge(lo, h, x, y) <=> y = x \/ (pages[x].inner /\ OnEdge(lo, h, Head(p[x].child_ids), y))
  BY EdgeIs
<1>2. p[x].inner <=> pages[x].inner
  BY RestFacts DEF Alike
<1> QED
  BY <1>1, <1>2 DEF EdgePasses

LEMMA DownLeftIs ==
  ASSUME NEW lo, NEW hi, NEW h, NEW k, AtRest(lo, hi, h, k), NEW p, Alike(p), NEW T
  PROVE  /\ \E f : DownLeft(f, T, p)
         /\ \A f : DownLeft(f, T, p) => \A x \in DOMAIN pages : f[x] <=> EdgePasses(lo, h, x, T)
<1>1. DOMAIN p = DOMAIN pages /\ \A x \in DOMAIN pages : p[x].inner <=> pages[x].inner
  BY RestFacts DEF Alike
<1>2. \A x \in DOMAIN pages : pages[x].inner =>
        LET c == Head(p[x].child_ids) IN c \in DOMAIN pages /\ h[x] = h[c] + 1
  BY FirstChild
<1> DEFINE Of(f, x) == x \in T /\ (p[x].inner => f[Head(p[x].child_ids)])
           g == [x \in DOMAIN pages |-> EdgePasses(lo, h, x, T)]
<1>3. DownLeft(g, T, p)
  <2>1. ASSUME NEW x \in DOMAIN pages PROVE EdgePasses(lo, h, x, T) <=> Of(g, x)
    <3>1. p[x].inner => g[Head(p[x].child_ids)] = EdgePasses(lo, h, Head(p[x].child_ids), T)
      BY <1>1, <1>2
    <3>2. EdgePasses(lo, h, x, T) <=>
            x \in T /\ (p[x].inner => EdgePasses(lo, h, Head(p[x].child_ids), T))
      BY EdgePassesIs
    <3> QED
      BY <3>1, <3>2
  <2>2. g = [x \in DOMAIN p |-> EdgePasses(lo, h, x, T)]
    BY <1>1
  <2>3. \A x \in DOMAIN pages : EdgePasses(lo, h, x, T) = Of(g, x)
    <3>1. \A x \in DOMAIN pages : EdgePasses(lo, h, x, T) \in BOOLEAN /\ Of(g, x) \in BOOLEAN
      BY DEF EdgePasses
    <3> HIDE DEF Of, g
    <3> QED
      BY <2>1, <3>1
  <2> HIDE DEF g, Of
  <2>4. g = [x \in DOMAIN p |-> Of(g, x)]
    BY <1>1, <2>2, <2>3
  <2> QED
    BY <2>4 DEF Of, DownLeft
<1>4. ASSUME NEW f, DownLeft(f, T, p), NEW z \in DOMAIN pages PROVE f[z] <=> EdgePasses(lo, h, z, T)
  <2>1. \A x \in DOMAIN pages : f[x] = Of(f, x)
    <3>1. f = [x \in DOMAIN p |-> Of(f, x)]
      BY <1>4 DEF DownLeft
    <3> HIDE DEF Of
    <3> QED
      BY <1>1, <3>1
  <2> DEFINE A == {x \in DOMAIN pages : f[x] <=> EdgePasses(lo, h, x, T)}
  <2>2. ASSUME NEW x \in DOMAIN pages, \A c \in DOMAIN pages : h[x] = h[c] + 1 => c \in A PROVE x \in A
    <3>1. p[x].inner => (f[Head(p[x].child_ids)] <=> EdgePasses(lo, h, Head(p[x].child_ids), T))
      BY <1>1, <1>2, <2>2
    <3>2. EdgePasses(lo, h, x, T) <=>
            x \in T /\ (p[x].inner => EdgePasses(lo, h, Head(p[x].child_ids), T))
      BY EdgePassesIs
    <3>3. f[x] = Of(f, x)
      BY <2>1
    <3> QED
      BY <3>1, <3>2, <3>3
  <2> HIDE DEF A
  <2>3. z \in A
    BY <2>2, FromTheLeaves
  <2> QED
    BY <2>3 DEF A
<1> QED
  BY <1>3, <1>4

(* What smaller_or_equal and bigger find. *)
NoneAbove(p, key) == {id \in DOMAIN p : \A q \in Range(p[id].keys) : q <= key}
NoneBelow(p, key) == {id \in DOMAIN p : \A q \in Range(p[id].keys) : q >= key}
LEMMA SmallerIs ==
  ASSUME NEW lo, NEW hi, NEW h, NEW k, AtRest(lo, hi, h, k), NEW p, Alike(p), NEW key,
         NEW x \in DOMAIN pages
  PROVE  SmallerOrEqual(p, key)[x] <=> EdgePasses(lo, h, x, NoneAbove(p, key))
<1> DEFINE Is(f) == f = [id \in DOMAIN p |->
                           /\ \A q \in Range(p[id].keys) : q <= key
                           /\ p[id].inner => f[Head(p[id].child_ids)]]
           W == CHOOSE f : Is(f)
<1>1. \A f : Is(f) <=> DownLeft(f, NoneAbove(p, key), p)
  BY DEF DownLeft, NoneAbove
<1>2. SmallerOrEqual(p, key) = W
  BY DEF SmallerOrEqual
<1>3. Is(W)
  <2>1. \E f : Is(f)
    BY <1>1, DownLeftIs
  <2> HIDE DEF Is
  <2> QED
    BY <2>1
<1>4. DownLeft(W, NoneAbove(p, key), p)
  <2> HIDE DEF Is, W
  <2> QED
    BY <1>1, <1>3
<1> HIDE DEF W
<1> QED
  BY <1>2, <1>4, DownLeftIs
LEMMA BiggerIs ==
  ASSUME NEW lo, NEW hi, NEW h, NEW k, AtRest(lo, hi, h, k), NEW p, Alike(p), NEW key,
         NEW x \in DOMAIN pages
  PROVE  Bigger(p, key)[x] <=> EdgePasses(lo, h, x, NoneBelow(p, key))
<1> DEFINE Is(f) == f = [id \in DOMAIN p |->
                           /\ \A q \in Range(p[id].keys) : q >= key
                           /\ p[id].inner => f[Head(p[id].child_ids)]]
           W == CHOOSE f : Is(f)
<1>1. \A f : Is(f) <=> DownLeft(f, NoneBelow(p, key), p)
  BY DEF DownLeft, NoneBelow
<1>2. Bigger(p, key) = W
  BY DEF Bigger
<1>3. Is(W)
  <2>1. \E f : Is(f)
    BY <1>1, DownLeftIs
  <2> HIDE DEF Is
  <2> QED
    BY <2>1
<1>4. DownLeft(W, NoneBelow(p, key), p)
  <2> HIDE DEF Is, W
  <2> QED
    BY <1>1, <1>3
<1> HIDE DEF W
<1> QED
  BY <1>2, <1>4, DownLeftIs

(* recursive_is_ordered sees all pages below a page: those whose span lies *)
(* in its span.                                                            *)
Under(lo, hi, h, x, y) == h[y] <= h[x] /\ lo[x] <= lo[y] /\ hi[y] <= hi[x]
AllUnder(lo, hi, h, x, T) == \A y \in DOMAIN pages : Under(lo, hi, h, x, y) => y \in T
InOrder(p) ==
  {id \in DOMAIN p : p[id].inner =>
     \A i \in DOMAIN p[id].keys :
       /\ SmallerOrEqual(p, p[id].keys[i])[p[id].child_ids[i]]
       /\ Bigger(p, p[id].keys[i])[p[id].child_ids[i + 1]]}
AllDown(f, T, p) ==
  f = [id \in DOMAIN p |-> p[id].inner => id \in T /\ \A c \in Range(p[id].child_ids) : f[c]]

LEMMA UnderIs ==
  ASSUME NEW lo, NEW hi, NEW h, NEW k, AtRest(lo, hi, h, k), NEW x \in DOMAIN pages, NEW y \in DOMAIN pages
  PROVE  Under(lo, hi, h, x, y) <=>
           y = x \/ (pages[x].inner /\ \E c \in Range(pages[x].child_ids) : Under(lo, hi, h, c, y))
<1>1. /\ DOMAIN pages \subseteq PageIds /\ Labels(lo, hi, h) /\ Laminar(DOMAIN pages, lo, hi, h)
      /\ Tree(pages, root_id, lo, hi, h, 0, k) /\ Skeleton(pages, lo, hi, h)
      /\ \A z \in DOMAIN pages : /\ h[z] \in Nat /\ lo[z] \in Int /\ hi[z] \in Int /\ lo[z] < hi[z]
                                 /\ (pages[z].inner <=> h[z] # 0)
  BY RestFacts
<1>2. ASSUME y = x PROVE Under(lo, hi, h, x, y)
  BY <1>1, <1>2 DEF Under
<1>3. ASSUME pages[x].inner, NEW c \in Range(pages[x].child_ids), Under(lo, hi, h, c, y)
      PROVE  Under(lo, hi, h, x, y)
  <2>1. PICK i \in 1 .. Len(pages[x].keys) + 1 : ChildAt(pages, x, i) = c
    BY <1>1, <1>3, ChildrenAre
  <2> DEFINE l == Cut(pages[x], lo[x], hi[x], i - 1)
             r == Cut(pages[x], lo[x], hi[x], i)
  <2>2. c \in DOMAIN pages /\ h[x] = h[c] + 1 /\ lo[c] = l /\ hi[c] = r /\ lo[x] <= l /\ r <= hi[x]
    BY <1>1, <1>3, <2>1, ChildIsBelow
  <2> HIDE DEF l, r
  <2>3. lo[x] <= lo[c] /\ hi[c] <= hi[x] /\ h[c] < h[x] /\ lo[c] \in Int /\ hi[c] \in Int /\ h[c] \in Nat
    BY <1>1, <2>2
  <2>4. lo[c] <= lo[y] /\ hi[y] <= hi[c] /\ h[y] <= h[c]
    BY <1>3 DEF Under
  <2>5. lo[x] \in Int /\ hi[x] \in Int /\ h[x] \in Nat /\ lo[y] \in Int /\ hi[y] \in Int /\ h[y] \in Nat
    BY <1>1
  <2>6. lo[x] <= lo[y] /\ hi[y] <= hi[x] /\ h[y] <= h[x]
    BY ONLY SMTT(30), <2>3, <2>4, <2>5
  <2> QED
    BY <2>6 DEF Under
<1>4. ASSUME Under(lo, hi, h, x, y), y # x
      PROVE  pages[x].inner /\ \E c \in Range(pages[x].child_ids) : Under(lo, hi, h, c, y)
  <2> DEFINE v == hi[y]
  <2>1. v \in Int /\ lo[y] < v /\ v <= hi[y] /\ lo[x] < v /\ v <= hi[x] /\ h[y] <= h[x]
    BY <1>1, <1>4 DEF Under
  <2> HIDE DEF v
  <2>2. h[y] # h[x]
    <3>1. SUFFICES ASSUME h[y] = h[x] PROVE FALSE
      OBVIOUS
    <3>2. y = x
      BY <1>1, <2>1, <3>1, OneHolder
    <3> QED
      BY <1>4, <3>2
  <2>3. pages[x].inner
    BY <1>1, <2>1, <2>2
  <2>4. PICK c \in DOMAIN pages : /\ h[x] = h[c] + 1 /\ lo[c] < v /\ v <= hi[c]
                                  /\ \E i \in 1 .. Len(pages[x].keys) + 1 : ChildAt(pages, x, i) = c
    BY <1>1, <2>1, <2>3, ChildFor
  <2>5. c \in Range(pages[x].child_ids)
    BY <1>1, <2>3, <2>4, ChildrenAre
  <2>6. h[y] <= h[c] /\ lo[c] < hi[y] /\ hi[y] <= hi[c]
    BY <1>1, <2>1, <2>2, <2>4 DEF v
  <2>7. Under(lo, hi, h, c, y)
    <3>1. CASE y = c
      BY <1>1, <3>1 DEF Under
    <3>2. CASE y # c
      <4>1. Apart(lo, hi, y, c) \/ Below_(lo, hi, h, y, c)
        BY <1>1, <2>6, <3>2 DEF Laminar
      <4>2. ~Apart(lo, hi, y, c)
        BY <1>1, <2>6 DEF Apart
      <4> QED
        BY <2>6, <4>1, <4>2 DEF Below_, Under
    <3> QED
      BY <3>1, <3>2
  <2> QED
    BY <2>3, <2>5, <2>7
<1> QED
  BY <1>2, <1>3, <1>4

LEMMA AllUnderIs ==
  ASSUME NEW lo, NEW hi, NEW h, NEW k, AtRest(lo, hi, h, k), NEW T, NEW x \in DOMAIN pages,
         \A y \in DOMAIN pages : ~pages[y].inner => y \in T
  PROVE  AllUnder(lo, hi, h, x, T) <=>
           (pages[x].inner => x \in T /\ \A c \in Range(pages[x].child_ids) : AllUnder(lo, hi, h, c, T))
<1>1. \A y \in DOMAIN pages :
        Under(lo, hi, h, x, y) <=>
          y = x \/ (pages[x].inner /\ \E c \in Range(pages[x].child_ids) : Under(lo, hi, h, c, y))
  BY UnderIs
<1> QED
  BY <1>1 DEF AllUnder

LEMMA AllDownIs ==
  ASSUME NEW lo, NEW hi, NEW h, NEW k, AtRest(lo, hi, h, k), NEW p, Alike(p), NEW T,
         \A y \in DOMAIN pages : ~pages[y].inner => y \in T
  PROVE  /\ \E f : AllDown(f, T, p)
         /\ \A f : AllDown(f, T, p) => \A x \in DOMAIN pages : f[x] <=> AllUnder(lo, hi, h, x, T)
<1>1. /\ DOMAIN p = DOMAIN pages
      /\ \A x \in DOMAIN pages : /\ p[x].inner <=> pages[x].inner
                                 /\ pages[x].inner => p[x] = pages[x]
  BY RestFacts DEF Alike
<1>2. ASSUME NEW x \in DOMAIN pages, pages[x].inner, NEW c \in Range(pages[x].child_ids)
      PROVE  c \in DOMAIN pages /\ h[x] = h[c] + 1
  <2>1. Tree(pages, root_id, lo, hi, h, 0, k) /\ Skeleton(pages, lo, hi, h)
    BY RestFacts
  <2>2. PICK i \in 1 .. Len(pages[x].keys) + 1 : ChildAt(pages, x, i) = c
    BY <1>2, <2>1, ChildrenAre
  <2> QED
    BY <1>2, <2>1, <2>2, ChildIsBelow
<1> DEFINE U(x) == AllUnder(lo, hi, h, x, T)
           Of(f, x) == p[x].inner => x \in T /\ \A c \in Range(p[x].child_ids) : f[c]
           g == [x \in DOMAIN pages |-> U(x)]
<1>3. \A x \in DOMAIN pages :
        U(x) <=> (p[x].inner => x \in T /\ \A c \in Range(p[x].child_ids) : U(c))
  <2>1. SUFFICES ASSUME NEW x \in DOMAIN pages
                 PROVE  U(x) <=> (p[x].inner => x \in T /\ \A c \in Range(p[x].child_ids) : U(c))
    OBVIOUS
  <2>2. U(x) <=> (pages[x].inner => x \in T /\ \A c \in Range(pages[x].child_ids) : U(c))
    BY AllUnderIs
  <2> HIDE DEF U
  <2> QED
    BY <1>1, <2>2
<1>4. \A x \in DOMAIN pages : U(x) \in BOOLEAN
  BY DEF AllUnder
<1> HIDE DEF U
<1>5. AllDown(g, T, p)
  <2>1. ASSUME NEW x \in DOMAIN pages PROVE U(x) = Of(g, x)
    <3>1. p[x].inner => \A c \in Range(p[x].child_ids) : g[c] = U(c)
      BY <1>1, <1>2
    <3>2. U(x) <=> Of(g, x)
      BY <1>3, <3>1
    <3>3. Of(g, x) \in BOOLEAN
      OBVIOUS
    <3> HIDE DEF Of, g
    <3> QED
      BY <1>4, <3>2, <3>3
  <2>2. g = [x \in DOMAIN p |-> U(x)]
    BY <1>1
  <2> HIDE DEF g, Of
  <2>3. g = [x \in DOMAIN p |-> Of(g, x)]
    BY <1>1, <2>1, <2>2
  <2> QED
    BY <2>3 DEF Of, AllDown
<1>6. ASSUME NEW f, AllDown(f, T, p), NEW z \in DOMAIN pages PROVE f[z] <=> U(z)
  <2>1. \A x \in DOMAIN pages : f[x] = Of(f, x)
    <3>1. f = [x \in DOMAIN p |-> Of(f, x)]
      BY <1>6 DEF AllDown
    <3> HIDE DEF Of
    <3> QED
      BY <1>1, <3>1
  <2> DEFINE A == {x \in DOMAIN pages : f[x] <=> U(x)}
  <2>2. ASSUME NEW x \in DOMAIN pages, \A c \in DOMAIN pages : h[x] = h[c] + 1 => c \in A PROVE x \in A
    <3>1. p[x].inner => \A c \in Range(p[x].child_ids) : f[c] <=> U(c)
      BY <1>1, <1>2, <2>2
    <3>2. f[x] = Of(f, x)
      BY <2>1
    <3> QED
      BY <1>3, <3>1, <3>2
  <2> HIDE DEF A
  <2>3. z \in A
    BY <2>2, FromTheLeaves
  <2> QED
    BY <2>3 DEF A
<1> QED
  BY <1>5, <1>6 DEF U

LEMMA OrderedIs ==
  ASSUME NEW lo, NEW hi, NEW h, NEW k, AtRest(lo, hi, h, k), NEW p, Alike(p)
  PROVE  IsOrdered(p) <=> \A x \in DOMAIN pages : x \in InOrder(p)
<1> DEFINE Is(f) == f = [id \in DOMAIN p |->
                           p[id].inner =>
                             /\ \A i \in DOMAIN p[id].keys :
                                  /\ SmallerOrEqual(p, p[id].keys[i])[p[id].child_ids[i]]
                                  /\ Bigger(p, p[id].keys[i])[p[id].child_ids[i + 1]]
                             /\ \A c \in Range(p[id].child_ids) : f[c]]
           W == CHOOSE f : Is(f)
<1>1. \A f : Is(f) <=> AllDown(f, InOrder(p), p)
  <2>1. SUFFICES ASSUME NEW f PROVE Is(f) <=> AllDown(f, InOrder(p), p)
    OBVIOUS
  <2> DEFINE a(id) == p[id].inner =>
                        /\ \A i \in DOMAIN p[id].keys :
                             /\ SmallerOrEqual(p, p[id].keys[i])[p[id].child_ids[i]]
                             /\ Bigger(p, p[id].keys[i])[p[id].child_ids[i + 1]]
                        /\ \A c \in Range(p[id].child_ids) : f[c]
             b(id) == p[id].inner => id \in InOrder(p) /\ \A c \in Range(p[id].child_ids) : f[c]
  <2>2. \A id \in DOMAIN p : a(id) <=> b(id)
    BY DEF InOrder
  <2>3. \A id \in DOMAIN p : a(id) \in BOOLEAN /\ b(id) \in BOOLEAN
    OBVIOUS
  <2>4. [id \in DOMAIN p |-> a(id)] = [id \in DOMAIN p |-> b(id)]
    <3> HIDE DEF a, b
    <3> QED
      BY <2>2, <2>3
  <2> QED
    BY <2>4 DEF AllDown
<1>2. IsOrdered(p) <=> W[root_id]
  BY DEF IsOrdered
<1>3. \A y \in DOMAIN pages : ~pages[y].inner => y \in InOrder(p)
  BY RestFacts DEF Alike, InOrder
<1>4. AllDown(W, InOrder(p), p)
  <2> HIDE DEF Is
  <2>1. \E f : Is(f)
    BY <1>1, <1>3, AllDownIs
  <2>2. Is(W)
    BY <2>1
  <2> HIDE DEF W
  <2> QED
    BY <1>1, <2>2
<1> HIDE DEF Is, W
<1>5. W[root_id] <=> AllUnder(lo, hi, h, root_id, InOrder(p))
  BY <1>3, <1>4, AllDownIs, RestFacts
<1>6. \A y \in DOMAIN pages : Under(lo, hi, h, root_id, y)
  BY RestFacts DEF Under
<1> QED
  BY <1>2, <1>5, <1>6 DEF AllUnder

(* find_leftmost comes to the leaf that begins where the page begins. *)
LEMMA LeftmostIs ==
  ASSUME NEW lo, NEW hi, NEW h, NEW k, AtRest(lo, hi, h, k), NEW p, Alike(p)
  PROVE  Leftmost(p) \in LeavesOf(p) /\ lo[Leftmost(p)] = -1
<1> DEFINE IsLeaf(z, v) == z \in DOMAIN pages /\ ~pages[z].inner /\ lo[z] = v
           LeafAt(v) == CHOOSE z : IsLeaf(z, v)
           Of(f, x) == IF p[x].inner THEN f[Head(p[x].child_ids)] ELSE x
           Is(f) == f = [id \in DOMAIN p |-> IF p[id].inner THEN f[Head(p[id].child_ids)] ELSE id]
           W == CHOOSE f : Is(f)
           g == [x \in DOMAIN pages |-> LeafAt(lo[x])]
<1>1. /\ DOMAIN p = DOMAIN pages /\ root_id \in DOMAIN pages /\ lo[root_id] = -1
      /\ \A x \in DOMAIN pages : p[x].inner <=> pages[x].inner
  BY RestFacts DEF Alike
<1>2. \A x \in DOMAIN pages : pages[x].inner =>
        LET c == Head(p[x].child_ids) IN c \in DOMAIN pages /\ h[x] = h[c] + 1 /\ lo[c] = lo[x]
  BY FirstChild
<1>3. ASSUME NEW x \in DOMAIN pages, ~pages[x].inner PROVE LeafAt(lo[x]) = x
  <2>1. ASSUME NEW z, IsLeaf(z, lo[x]) PROVE z = x
    <3>1. /\ DOMAIN pages \subseteq PageIds /\ Labels(lo, hi, h)
          /\ Spans(DOMAIN pages, lo, hi) /\ Laminar(DOMAIN pages, lo, hi, h)
          /\ h[x] = 0 /\ h[z] = 0
      BY <1>3, <2>1, RestFacts
    <3> QED
      BY <2>1, <3>1, OneEnd
  <2>2. IsLeaf(x, lo[x])
    BY <1>3
  <2> HIDE DEF IsLeaf
  <2> QED
    BY <2>1, <2>2
<1> HIDE DEF LeafAt, IsLeaf
<1>4. Is(g)
  <2>1. ASSUME NEW x \in DOMAIN pages PROVE g[x] = Of(g, x)
    <3>1. CASE pages[x].inner
      <4> DEFINE c == Head(p[x].child_ids)
      <4>1. c \in DOMAIN pages /\ lo[c] = lo[x]
        BY <1>2, <3>1
      <4> HIDE DEF c
      <4>2. g[c] = g[x]
        BY <4>1
      <4> HIDE DEF g
      <4> QED
        BY <1>1, <3>1, <4>2 DEF c
    <3>2. CASE ~pages[x].inner
      BY <1>1, <1>3, <3>2
    <3> QED
      BY <3>1, <3>2
  <2>2. g = [x \in DOMAIN p |-> g[x]]
    BY <1>1
  <2> HIDE DEF g, Of
  <2>3. g = [x \in DOMAIN p |-> Of(g, x)]
    BY <1>1, <2>1, <2>2
  <2> QED
    BY <2>3 DEF Of
<1>5. Leftmost(p) = W[root_id]
  BY DEF Leftmost
<1>6. Is(W)
  <2> HIDE DEF Is, g
  <2> QED
    BY <1>4
<1>7. \A x \in DOMAIN pages : W[x] = Of(W, x)
  <2>1. W = [x \in DOMAIN p |-> Of(W, x)]
    BY <1>6
  <2> HIDE DEF Of, W
  <2> QED
    BY <1>1, <2>1
<1> HIDE DEF W
<1> DEFINE A == {x \in DOMAIN pages : W[x] \in DOMAIN pages /\ ~pages[W[x]].inner /\ lo[W[x]] = lo[x]}
<1>8. ASSUME NEW x \in DOMAIN pages, \A c \in DOMAIN pages : h[x] = h[c] + 1 => c \in A PROVE x \in A
  <2>1. CASE pages[x].inner
    <3> DEFINE c == Head(p[x].child_ids)
    <3>1. c \in DOMAIN pages /\ h[x] = h[c] + 1 /\ lo[c] = lo[x]
      BY <1>2, <2>1
    <3>2. W[x] = W[c]
      BY <1>1, <1>7, <2>1
    <3> HIDE DEF c
    <3>3. c \in A
      BY <1>8, <3>1
    <3> QED
      BY <3>1, <3>2, <3>3
  <2>2. CASE ~pages[x].inner
    <3>1. W[x] = x
      BY <1>1, <1>7, <2>2
    <3> QED
      BY <2>2, <3>1
  <2> QED
    BY <2>1, <2>2
<1> HIDE DEF A
<1>9. root_id \in A
  BY <1>1, <1>8, FromTheLeaves
<1> QED
  BY <1>1, <1>5, <1>9 DEF A, LeavesOf

(* The walk along the leaves: what holds of a leaf if it holds of the next *)
(* one, or there is none, holds of all leaves.                             *)
LEMMA NextIs ==
  ASSUME NEW lo, NEW hi, NEW h, NEW k, AtRest(lo, hi, h, k), NEW x \in LeavesOf(pages)
  PROVE  LET y == pages[x].next_lef_id IN
         IF y = 0 THEN hi[x] = Top ELSE y \in LeavesOf(pages) /\ lo[y] = hi[x]
<1>1. x \in DOMAIN pages /\ ~pages[x].inner
  BY DEF LeavesOf
<1>2. LeafOK(DOMAIN pages, lo, h, pages[x], lo[x], hi[x], h[x], x = 0, k)
  BY <1>1, RestFacts DEF Leaves
<1>3. NextOK(DOMAIN pages, lo, h, pages[x].next_lef_id, hi[x])
  BY <1>2 DEF LeafOK
<1>4. \A y \in DOMAIN pages : h[y] = 0 => ~pages[y].inner
  BY RestFacts
<1> QED
  BY <1>3, <1>4 DEF NextOK, LeavesOf

LEMMA FromTheEnd ==
  ASSUME NEW lo, NEW hi, NEW h, NEW k, AtRest(lo, hi, h, k), NEW A,
         \A x \in LeavesOf(pages) : (pages[x].next_lef_id # 0 => pages[x].next_lef_id \in A) => x \in A
  PROVE  LeavesOf(pages) \subseteq A
<1> DEFINE n == Top + 1
           Good(d) == \A x \in LeavesOf(pages) : Top - lo[x] <= d => x \in A
           S == {d \in 0 .. n : Good(d)}
<1>1. /\ Top \in Nat /\ n \in Nat
      /\ \A x \in LeavesOf(pages) : /\ lo[x] \in Int /\ hi[x] \in Int /\ -1 <= lo[x]
                                    /\ lo[x] < hi[x] /\ hi[x] <= Top
  BY RestFacts DEF LeavesOf
<1>2. 0 \in S
  BY <1>1
<1>3. ASSUME NEW d \in 0 .. n - 1, d \in S PROVE d + 1 \in S
  <2>1. ASSUME NEW x \in LeavesOf(pages), Top - lo[x] <= d + 1 PROVE x \in A
    <3> DEFINE y == pages[x].next_lef_id
    <3>1. y # 0 => y \in LeavesOf(pages) /\ lo[y] = hi[x]
      BY NextIs
    <3>2. y # 0 => Top - lo[y] <= d
      BY <1>1, <2>1, <3>1
    <3>3. y # 0 => y \in A
      BY <1>3, <3>1, <3>2
    <3> QED
      BY <3>3
  <2>2. d + 1 \in 0 .. n
    BY <1>1
  <2> QED
    BY <2>1, <2>2
<1> HIDE DEF S
<1>4. n \in S
  BY <1>1, <1>2, <1>3, FromLevelToLevel
<1>5. \A x \in LeavesOf(pages) : Top - lo[x] <= n
  BY <1>1
<1> QED
  BY <1>4, <1>5 DEF S

(* From a leaf the walk sees the leaves that do not begin before it. *)
RestPasses(lo, x, T) == \A y \in LeavesOf(pages) : lo[x] <= lo[y] => y \in T
LEMMA RestIs ==
  ASSUME NEW lo, NEW hi, NEW h, NEW k, AtRest(lo, hi, h, k), NEW T, NEW x \in LeavesOf(pages)
  PROVE  RestPasses(lo, x, T) <=>
           x \in T /\ (pages[x].next_lef_id # 0 => RestPasses(lo, pages[x].next_lef_id, T))
<1>1. Tree(pages, root_id, lo, hi, h, 0, k) /\ x \in DOMAIN pages /\ ~pages[x].inner
  BY RestFacts DEF LeavesOf
<1>2. \A y \in LeavesOf(pages) : /\ y \in DOMAIN pages /\ ~pages[y].inner /\ lo[y] \in Int /\ hi[y] \in Int
                                 /\ lo[y] < hi[y] /\ hi[y] <= Top /\ Top \in Int
  BY RestFacts DEF LeavesOf
<1> DEFINE n == pages[x].next_lef_id
<1>3. IF n = 0 THEN hi[x] = Top ELSE n \in LeavesOf(pages) /\ lo[n] = hi[x]
  BY NextIs
<1> HIDE DEF n
<1>4. ASSUME NEW y \in LeavesOf(pages)
      PROVE  lo[x] <= lo[y] <=> y = x \/ (n # 0 /\ lo[n] <= lo[y])
  <2>1. CASE y = x
    BY <1>2, <2>1
  <2>2. CASE y # x
    <3>1. hi[x] <= lo[y] \/ hi[y] <= lo[x]
      BY <1>1, <1>2, <2>2, LeavesAreApart
    <3> QED
      BY <1>2, <1>3, <2>2, <3>1
  <2> QED
    BY <2>1, <2>2
<1> QED
  BY <1>4 DEF RestPasses, n

Ascends(p) == {id \in DOMAIN p : \A i \in 1 .. Len(p[id].keys) - 1 : p[id].keys[i] <= p[id].keys[i + 1]}
LEMMA SortedIs ==
  ASSUME NEW lo, NEW hi, NEW h, NEW k, AtRest(lo, hi, h, k), NEW p, Alike(p)
  PROVE  Sorted(p) <=> \A x \in LeavesOf(pages) : x \in Ascends(p)
<1> DEFINE D == LeavesOf(p) \cup {0}
           T == Ascends(p)
           R(x) == RestPasses(lo, x, T)
           Of(f, x) == x # 0 => x \in T /\ f[p[x].next_lef_id]
           Is(f) == f = [id \in D |->
                           id # 0 =>
                             /\ \A i \in 1 .. Len(p[id].keys) - 1 : p[id].keys[i] <= p[id].keys[i + 1]
                             /\ f[p[id].next_lef_id]]
           W == CHOOSE f : Is(f)
           g == [x \in D |-> x # 0 => R(x)]
<1>1. /\ LeavesOf(p) = LeavesOf(pages) /\ 0 \notin LeavesOf(p)
      /\ \A x \in LeavesOf(p) : p[x].next_lef_id = pages[x].next_lef_id /\ x \in DOMAIN p
  BY RestFacts DEF Alike, LeavesOf
<1>2. \A x \in LeavesOf(p) : p[x].next_lef_id \in D
  BY <1>1, NextIs
<1>3. \A f : Is(f) <=> f = [x \in D |-> Of(f, x)]
  <2>1. SUFFICES ASSUME NEW f PROVE Is(f) <=> f = [x \in D |-> Of(f, x)]
    OBVIOUS
  <2> DEFINE a(id) == id # 0 =>
                        /\ \A i \in 1 .. Len(p[id].keys) - 1 : p[id].keys[i] <= p[id].keys[i + 1]
                        /\ f[p[id].next_lef_id]
             b(id) == Of(f, id)
  <2>2. \A id \in D : a(id) <=> b(id)
    BY <1>1 DEF Ascends
  <2>3. \A id \in D : a(id) \in BOOLEAN /\ b(id) \in BOOLEAN
    OBVIOUS
  <2>4. [id \in D |-> a(id)] = [id \in D |-> b(id)]
    <3> HIDE DEF a, b, D
    <3> QED
      BY <2>2, <2>3
  <2> QED
    BY <2>4
<1>4. \A x \in LeavesOf(p) : R(x) <=> x \in T /\ (p[x].next_lef_id # 0 => R(p[x].next_lef_id))
  BY <1>1, RestIs
<1>5. \A x \in LeavesOf(p) : R(x) \in BOOLEAN
  BY DEF RestPasses
<1>6. Sorted(p) <=> W[Leftmost(p)]
  BY DEF Sorted
<1> HIDE DEF Is, R, T
<1>7. Is(g)
  <2>1. ASSUME NEW x \in D PROVE g[x] = Of(g, x)
    <3>1. CASE x = 0
      BY <3>1
    <3>2. CASE x # 0
      <4>1. x \in LeavesOf(p) /\ p[x].next_lef_id \in D
        BY <1>2, <3>2
      <4>2. g[x] = R(x) /\ g[p[x].next_lef_id] = (p[x].next_lef_id # 0 => R(p[x].next_lef_id))
        BY <1>5, <3>2, <4>1
      <4>3. g[x] <=> Of(g, x)
        BY <1>4, <3>2, <4>1, <4>2
      <4>4. g[x] \in BOOLEAN /\ Of(g, x) \in BOOLEAN
        BY <1>5, <4>1, <4>2
      <4> HIDE DEF g, Of
      <4> QED
        BY <4>3, <4>4
    <3> QED
      BY <3>1, <3>2
  <2>2. g = [x \in D |-> g[x]]
    OBVIOUS
  <2> HIDE DEF g, Of, D
  <2>3. g = [x \in D |-> Of(g, x)]
    BY <2>1, <2>2
  <2> QED
    BY <1>3, <2>3
<1>8. Is(W)
  <2> HIDE DEF g
  <2> QED
    BY <1>7
<1> HIDE DEF W
<1>9. \A x \in D : W[x] = Of(W, x)
  <2>1. W = [x \in D |-> Of(W, x)]
    BY <1>3, <1>8
  <2> HIDE DEF Of, D
  <2> QED
    BY <2>1
<1>10. W[0]
  BY <1>9
<1> DEFINE A == {x \in LeavesOf(pages) : W[x] <=> R(x)}
<1>11. ASSUME NEW x \in LeavesOf(pages), pages[x].next_lef_id # 0 => pages[x].next_lef_id \in A
       PROVE  x \in A
  <2>1. x \in LeavesOf(p) /\ x \in D /\ x # 0 /\ p[x].next_lef_id = pages[x].next_lef_id
    BY <1>1
  <2>2. W[x] <=> x \in T /\ W[p[x].next_lef_id]
    BY <1>9, <2>1
  <2>3. p[x].next_lef_id # 0 => (W[p[x].next_lef_id] <=> R(p[x].next_lef_id))
    BY <1>11, <2>1
  <2>4. W[x] <=> R(x)
    BY <1>4, <1>10, <2>1, <2>2, <2>3
  <2> QED
    BY <2>4
<1> HIDE DEF A
<1>12. Leftmost(p) \in A /\ lo[Leftmost(p)] = -1
  BY <1>1, <1>11, FromTheEnd, LeftmostIs
<1>13. \A y \in LeavesOf(pages) : -1 <= lo[y]
  BY RestFacts DEF LeavesOf
<1> QED
  BY <1>6, <1>12, <1>13 DEF A, R, T, RestPasses

(* As many keys as the sequence is long. *)
LEMMA KeysCounted ==
  ASSUME NEW s \in Seq(Int), Ascending(s)
  PROVE  IsFiniteSet(Range(s)) /\ Cardinality(Range(s)) = Len(s)
<1> DEFINE D == 1 .. Len(s)
<1>1. Len(s) \in Nat /\ DOMAIN s = D /\ s \in [D -> Range(s)]
  BY DEF Range
<1>2. \A i, j \in D : s[i] = s[j] => i = j
  <2>1. SUFFICES ASSUME NEW i \in D, NEW j \in D, s[i] = s[j], i # j PROVE FALSE
    OBVIOUS
  <2>2. s[i] \in Int /\ s[j] \in Int /\ (i < j \/ j < i)
    BY <2>1
  <2>3. s[i] < s[j] \/ s[j] < s[i]
    BY <2>1, <2>2 DEF Ascending
  <2> QED
    BY <2>1, <2>2, <2>3
<1>3. \A t \in Range(s) : \E i \in D : s[i] = t
  BY <1>1 DEF Range
<1>4. ExistsBijection(D, Range(s))
  <2>1. s \in Bijection(D, Range(s))
    BY <1>1, <1>2, <1>3 DEF Bijection, Injection, Surjection, IsInjective
  <2> QED
    BY <2>1 DEF ExistsBijection
<1>5. IsFiniteSet(D) /\ Cardinality(D) = Len(s)
  BY <1>1, FS_Interval
<1> QED
  BY <1>4, <1>5, FS_Bijection

(* The stored keys above a bound. *)
Beyond(v) == {q \in StoredKeys : v < q}
LEMMA BeyondIs ==
  ASSUME NEW lo, NEW hi, NEW h, NEW k, AtRest(lo, hi, h, k), NEW x \in LeavesOf(pages)
  PROVE  /\ Cardinality(Beyond(lo[x])) = Len(pages[x].keys) + Cardinality(Beyond(hi[x]))
         /\ hi[x] = Top => Cardinality(Beyond(hi[x])) = 0
         /\ Cardinality(Beyond(lo[x])) \in Nat /\ Cardinality(Beyond(hi[x])) \in Nat
<1>1. /\ Labelled(lo, hi, h, 0, k) /\ x \in DOMAIN pages /\ ~pages[x].inner
      /\ Tree(pages, root_id, lo, hi, h, 0, k) /\ lo[x] \in Int /\ hi[x] \in Int /\ lo[x] < hi[x]
  BY RestFacts DEF LeavesOf
<1>2. pages[x].keys \in Seq(Int) /\ Ascending(pages[x].keys) /\ Len(pages[x].keys) \in Nat
  BY <1>1, LeafKeys
<1>3. /\ IsFiniteSet(Range(pages[x].keys))
      /\ Cardinality(Range(pages[x].keys)) = Len(pages[x].keys)
  BY <1>2, KeysCounted
<1>4. Range(pages[x].keys) = InSpan(lo, hi, x)
  BY <1>1, LeafSpan DEF LeafKeysOf
<1>5. StoredKeys \subseteq Keys /\ \A q \in StoredKeys : q \in Int /\ q < Top
  <2>1. ASSUME NEW q \in StoredKeys PROVE q \in Keys
    <3>1. PICK z \in DOMAIN pages : ~pages[z].inner /\ \E j \in 1 .. Len(pages[z].keys) : pages[z].keys[j] = q
      BY <1>1, StoredIs
    <3>2. IsOuter(pages[z], Keys, Values, PageIds)
      BY <1>1, <3>1, TreeFacts DEF ShapeOK
    <3> QED
      BY <3>1, <3>2, LeafFacts
  <2> QED
    BY <2>1, KeysAreInts
<1>6. \A v : IsFiniteSet(Beyond(v)) /\ Cardinality(Beyond(v)) \in Nat
  <2>1. \A v : Beyond(v) \subseteq Keys
    BY <1>5 DEF Beyond
  <2> QED
    BY <2>1, KeysAreNumbers, FS_Subset, FS_CardinalityType
<1> DEFINE A == Range(pages[x].keys)
           B == Beyond(hi[x])
<1>7. Beyond(lo[x]) = A \cup B /\ A \cap B = {}
  <2>1. ASSUME NEW q \in StoredKeys
        PROVE  /\ lo[x] < q <=> (lo[x] < q /\ q <= hi[x]) \/ hi[x] < q
               /\ ~(q <= hi[x] /\ hi[x] < q)
    BY <1>1, <1>5
  <2> QED
    BY <1>4, <2>1 DEF Beyond, InSpan
<1>8. Cardinality(Beyond(lo[x])) = Cardinality(A) + Cardinality(B)
  <2>1. Cardinality(A \cap B) = 0
    BY <1>7, FS_EmptySet
  <2>2. Cardinality(A) \in Nat /\ Cardinality(B) \in Nat /\ IsFiniteSet(A) /\ IsFiniteSet(B)
    BY <1>2, <1>3, <1>6
  <2> HIDE DEF A, B
  <2>3. Cardinality(A \cup B) = Cardinality(A) + Cardinality(B) - Cardinality(A \cap B)
    BY <2>2, FS_Union
  <2> QED
    BY <1>7, <2>1, <2>2, <2>3
<1>9. hi[x] = Top => Cardinality(B) = 0
  <2>1. hi[x] = Top => B = {}
    BY <1>1, <1>5 DEF Beyond
  <2> HIDE DEF B
  <2> QED
    BY <2>1, FS_EmptySet
<1> QED
  BY <1>3, <1>6, <1>8, <1>9

(* From a leaf the walk counts the keys above the leaf's lower end. *)
LEMMA CountIs ==
  ASSUME NEW lo, NEW hi, NEW h, NEW k, AtRest(lo, hi, h, k)
  PROVE  Count(pages) = Cardinality(StoredKeys)
<1> DEFINE D == LeavesOf(pages) \cup {0}
           K(x) == Cardinality(Beyond(lo[x]))
           Of(f, x) == IF x = 0 THEN 0 ELSE Len(pages[x].keys) + f[pages[x].next_lef_id]
           Is(f) == f = [id \in D |-> IF id = 0 THEN 0 ELSE Len(pages[id].keys) + f[pages[id].next_lef_id]]
           W == CHOOSE f : Is(f)
           g == [x \in D |-> IF x = 0 THEN 0 ELSE K(x)]
<1>1. Alike(pages) /\ 0 \notin LeavesOf(pages) /\ Labelled(lo, hi, h, 0, k)
  <2>1. 0 \notin DOMAIN pages /\ Labelled(lo, hi, h, 0, k) /\ \A x \in DOMAIN pages : pages[x].inner \in BOOLEAN
    BY RestFacts
  <2> QED
    BY <2>1 DEF Alike, LeavesOf
<1>2. ASSUME NEW x \in LeavesOf(pages)
      PROVE  LET n == pages[x].next_lef_id IN
             n \in D /\ K(x) = Len(pages[x].keys) + (IF n = 0 THEN 0 ELSE K(n))
  <2>1. LET n == pages[x].next_lef_id IN
        IF n = 0 THEN hi[x] = Top ELSE n \in LeavesOf(pages) /\ lo[n] = hi[x]
    BY NextIs
  <2>2. /\ K(x) = Len(pages[x].keys) + Cardinality(Beyond(hi[x]))
        /\ hi[x] = Top => Cardinality(Beyond(hi[x])) = 0
    BY BeyondIs
  <2> QED
    BY <2>1, <2>2
<1> HIDE DEF K
<1>3. Count(pages) = W[Leftmost(pages)]
  BY DEF Count
<1>4. Is(g)
  <2>1. ASSUME NEW x \in D PROVE g[x] = Of(g, x)
    <3>1. CASE x = 0
      BY <3>1
    <3>2. CASE x # 0
      <4> DEFINE n == pages[x].next_lef_id
      <4>1. n \in D /\ K(x) = Len(pages[x].keys) + (IF n = 0 THEN 0 ELSE K(n))
        BY <1>2, <3>2
      <4>2. g[x] = K(x)
        BY <3>2
      <4>3. g[n] = IF n = 0 THEN 0 ELSE K(n)
        BY <4>1
      <4> HIDE DEF g
      <4> QED
        BY <3>2, <4>1, <4>2, <4>3
    <3> QED
      BY <3>1, <3>2
  <2>2. g = [x \in D |-> g[x]]
    OBVIOUS
  <2> HIDE DEF g, D, Of
  <2>3. g = [x \in D |-> Of(g, x)]
    BY <2>1, <2>2
  <2> QED
    BY <2>3 DEF Of
<1>5. Is(W)
  <2> HIDE DEF g, Is
  <2> QED
    BY <1>4
<1> HIDE DEF W
<1>6. \A x \in D : W[x] = Of(W, x)
  <2>1. W = [x \in D |-> Of(W, x)]
    BY <1>5
  <2> HIDE DEF Of, D
  <2> QED
    BY <2>1
<1> DEFINE A == {x \in LeavesOf(pages) : W[x] = K(x)}
<1>7. ASSUME NEW x \in LeavesOf(pages), pages[x].next_lef_id # 0 => pages[x].next_lef_id \in A
      PROVE  x \in A
  <2> DEFINE n == pages[x].next_lef_id
  <2>1. n \in D /\ K(x) = Len(pages[x].keys) + (IF n = 0 THEN 0 ELSE K(n))
    BY <1>2
  <2>2. x # 0 /\ x \in D /\ W[x] = Len(pages[x].keys) + W[n]
    BY <1>1, <1>6
  <2>3. W[n] = IF n = 0 THEN 0 ELSE K(n)
    <3>1. n = 0 => W[n] = 0
      BY <1>6
    <3> QED
      BY <1>7, <3>1
  <2> HIDE DEF n
  <2>4. W[x] = K(x)
    BY <2>1, <2>2, <2>3
  <2> QED
    BY <2>4
<1> HIDE DEF A
<1>8. Leftmost(pages) \in A /\ lo[Leftmost(pages)] = -1
  BY <1>1, <1>7, FromTheEnd, LeftmostIs
<1>9. Count(pages) = Cardinality(Beyond(-1))
  BY <1>3, <1>8 DEF A, K
<1>10. Beyond(-1) = StoredKeys
  <2>1. ASSUME NEW q \in StoredKeys PROVE -1 < q
    <3>1. PICK z \in DOMAIN pages : ~pages[z].inner /\ \E j \in 1 .. Len(pages[z].keys) : pages[z].keys[j] = q
      BY <1>1, StoredIs
    <3>2. IsOuter(pages[z], Keys, Values, PageIds)
      BY <1>1, <3>1, Known, TreeFacts DEF ShapeOK
    <3>3. q \in Keys
      BY <3>1, <3>2, LeafFacts
    <3> QED
      BY <3>3, KeysAreInts
  <2> QED
    BY <2>1 DEF Beyond
<1> QED
  BY <1>9, <1>10

(* The keys of a node, inner or not, are in its span. *)
LEMMA KeysWithin ==
  ASSUME NEW lo, NEW hi, NEW h, NEW k, AtRest(lo, hi, h, k), NEW x \in DOMAIN pages,
         NEW q \in Range(pages[x].keys)
  PROVE  q \in Int /\ lo[x] < q /\ q <= hi[x]
<1>1. /\ Tree(pages, root_id, lo, hi, h, 0, k) /\ Skeleton(pages, lo, hi, h) /\ 0 \notin DOMAIN pages
      /\ lo[x] \in Int /\ hi[x] \in Int /\ Len(pages[x].keys) \in Nat
      /\ DOMAIN pages[x].keys = 1 .. Len(pages[x].keys)
  BY RestFacts
<1>2. PICK i \in 1 .. Len(pages[x].keys) : pages[x].keys[i] = q
  BY <1>1 DEF Range
<1>3. CASE pages[x].inner
  <2>1. IsInner(pages[x], Keys, PageIds)
    BY <1>1, <1>3, TreeFacts DEF ShapeOK
  <2>2. q \in Int
    BY <1>2, <2>1, InnerFacts
  <2>3. i \in 1 .. Len(pages[x].keys) + 1 /\ Cut(pages[x], lo[x], hi[x], i) = q
    BY <1>1, <1>2 DEF Cut
  <2> DEFINE l == Cut(pages[x], lo[x], hi[x], i - 1)
  <2>4. lo[x] <= l /\ l < q /\ q <= hi[x] /\ l = lo[ChildAt(pages, x, i)] /\ ChildAt(pages, x, i) \in DOMAIN pages
    BY <1>1, <1>3, <2>3, ChildIsBelow
  <2>5. l \in Int
    BY <2>4, RestFacts
  <2> HIDE DEF l
  <2> QED
    BY <1>1, <2>2, <2>4, <2>5
<1>4. CASE ~pages[x].inner
  BY <1>1, <1>2, <1>4, LeafKeys
<1> QED
  BY <1>1, <1>3, <1>4, TreeFacts

(* The children beside a separator, and what is on their left edges. *)
LEMMA BesideSeparator ==
  ASSUME NEW lo, NEW hi, NEW h, NEW k, AtRest(lo, hi, h, k), NEW x \in DOMAIN pages, pages[x].inner,
         NEW i \in 1 .. Len(pages[x].keys)
  PROVE  LET s == pages[x].keys[i]  c == ChildAt(pages, x, i)  d == ChildAt(pages, x, i + 1) IN
         /\ s \in Int /\ c \in DOMAIN pages /\ d \in DOMAIN pages /\ hi[c] = s /\ lo[d] = s
         /\ h[x] = h[c] + 1 /\ h[x] = h[d] + 1
         /\ c = pages[x].child_ids[i] /\ d = pages[x].child_ids[i + 1]
  BY Siblings_, RestFacts DEF ChildAt

LEMMA EdgeEnds ==
  ASSUME NEW lo, NEW hi, NEW h, NEW k, AtRest(lo, hi, h, k), NEW x \in DOMAIN pages,
         NEW y \in DOMAIN pages, OnEdge(lo, h, x, y)
  PROVE  lo[y] = lo[x] /\ hi[y] <= hi[x]
<1>1. lo[y] = lo[x] /\ h[y] <= h[x]
  BY DEF OnEdge
<1>2. /\ lo[x] \in Int /\ hi[x] \in Int /\ lo[y] \in Int /\ hi[y] \in Int /\ lo[x] < hi[x] /\ lo[y] < hi[y]
      /\ Laminar(DOMAIN pages, lo, hi, h)
  BY RestFacts
<1>3. CASE y = x
  BY <1>2, <1>3
<1>4. CASE y # x
  <2>1. Apart(lo, hi, y, x) \/ Below_(lo, hi, h, y, x)
    BY <1>1, <1>2, <1>4 DEF Laminar
  <2> QED
    BY <1>1, <1>2, <2>1 DEF Apart, Below_
<1> QED
  BY <1>3, <1>4

LEMMA AlikeItself ==
  ASSUME NEW lo, NEW hi, NEW h, NEW k, AtRest(lo, hi, h, k)
  PROVE  Alike(pages)
<1>1. \A x \in DOMAIN pages : pages[x].inner \in BOOLEAN
  BY RestFacts
<1> QED
  BY <1>1 DEF Alike

LEMMA IInvGivesValid == IInv => ValidateAccepts
<1> SUFFICES ASSUME IInv, Idle
             PROVE  Validate(pages, Cardinality(StoredKeys)) /\ AreAllChildIdsUnique
  BY DEF ValidateAccepts
<1>1. PICK lo, hi, h, k : AtRest(lo, hi, h, k)
  BY IdleRests
<1>2. Alike(pages) /\ Labelled(lo, hi, h, 0, k)
  BY <1>1, AlikeItself, RestFacts
<1>3. IsBalanced(pages)
  BY <1>1, <1>2, BalancedIs
<1>4. IsOrdered(pages)
  <2>1. ASSUME NEW x \in DOMAIN pages, pages[x].inner, NEW i \in DOMAIN pages[x].keys
        PROVE  /\ SmallerOrEqual(pages, pages[x].keys[i])[pages[x].child_ids[i]]
               /\ Bigger(pages, pages[x].keys[i])[pages[x].child_ids[i + 1]]
    <3> DEFINE s == pages[x].keys[i]
               c == pages[x].child_ids[i]
               d == pages[x].child_ids[i + 1]
    <3>1. i \in 1 .. Len(pages[x].keys)
      BY <1>1, <2>1, RestFacts
    <3>2. s \in Int /\ c \in DOMAIN pages /\ d \in DOMAIN pages /\ hi[c] = s /\ lo[d] = s
      BY <1>1, <2>1, <3>1, BesideSeparator
    <3> HIDE DEF s, c, d
    <3>3. EdgePasses(lo, h, c, NoneAbove(pages, s))
      <4>1. SUFFICES ASSUME NEW y \in DOMAIN pages, OnEdge(lo, h, c, y), NEW q \in Range(pages[y].keys)
                     PROVE  q <= s
        BY DEF EdgePasses, NoneAbove
      <4>2. hi[y] <= s /\ hi[y] \in Int
        BY <1>1, <3>2, <4>1, EdgeEnds, RestFacts
      <4>3. q \in Int /\ q <= hi[y]
        BY <1>1, <4>1, KeysWithin
      <4> QED
        BY <3>2, <4>2, <4>3
    <3>4. EdgePasses(lo, h, d, NoneBelow(pages, s))
      <4>1. SUFFICES ASSUME NEW y \in DOMAIN pages, OnEdge(lo, h, d, y), NEW q \in Range(pages[y].keys)
                     PROVE  q >= s
        BY DEF EdgePasses, NoneBelow
      <4>2. lo[y] = s
        BY <1>1, <3>2, <4>1, EdgeEnds
      <4>3. q \in Int /\ lo[y] < q
        BY <1>1, <4>1, KeysWithin
      <4> QED
        BY <3>2, <4>2, <4>3
    <3>5. SmallerOrEqual(pages, s)[c]
      BY <1>1, <1>2, <3>2, <3>3, SmallerIs
    <3>6. Bigger(pages, s)[d]
      BY <1>1, <1>2, <3>2, <3>4, BiggerIs
    <3> QED
      BY <3>5, <3>6 DEF s, c, d
  <2>2. \A x \in DOMAIN pages : x \in InOrder(pages)
    BY <2>1 DEF InOrder
  <2> QED
    BY <1>1, <1>2, <2>2, OrderedIs
<1>5. Sorted(pages)
  <2>1. ASSUME NEW x \in LeavesOf(pages) PROVE x \in Ascends(pages)
    <3>1. x \in DOMAIN pages /\ ~pages[x].inner
      BY DEF LeavesOf
    <3>2. pages[x].keys \in Seq(Int) /\ Ascending(pages[x].keys) /\ Len(pages[x].keys) \in Nat
      BY <1>1, <3>1, RestFacts, LeafKeys
    <3>3. ASSUME NEW i \in 1 .. Len(pages[x].keys) - 1 PROVE pages[x].keys[i] <= pages[x].keys[i + 1]
      <4>1. i \in 1 .. Len(pages[x].keys) /\ i + 1 \in 1 .. Len(pages[x].keys) /\ i <= i + 1
        BY <3>2
      <4> QED
        BY <3>2, <4>1, AscendingWeakly
    <3> QED
      BY <3>1, <3>3 DEF Ascends
  <2> QED
    BY <1>1, <1>2, <2>1, SortedIs
<1>6. Count(pages) = Cardinality(StoredKeys)
  BY <1>1, CountIs
<1>7. AreAllChildIdsUnique
  <2> DEFINE children == {c \in Visited \X (1 .. N) :
                            pages[c[1]].inner /\ c[2] \in DOMAIN pages[c[1]].child_ids}
             Child(c) == pages[c[1]].child_ids[c[2]]
  <2>1. Visited = DOMAIN pages
    BY <1>2, OnePlace DEF Visited
  <2>2. ASSUME NEW c \in children
        PROVE  /\ c = <<c[1], c[2]>> /\ c[1] \in Inner /\ c[2] \in DOMAIN pages[c[1]].child_ids
               /\ Child(c) \in DOMAIN pages
    <3>1. /\ c = <<c[1], c[2]>> /\ c[1] \in DOMAIN pages /\ pages[c[1]].inner
          /\ c[2] \in DOMAIN pages[c[1]].child_ids
      BY <2>1
    <3>2. Child(c) \in Range(pages[c[1]].child_ids)
      BY <3>1 DEF Range
    <3>3. Range(pages[c[1]].child_ids) \subseteq DOMAIN pages
      BY <1>1, <3>1, RestFacts, ChildrenAre
    <3> QED
      BY <3>1, <3>2, <3>3 DEF Inner
  <2>3. \A c \in children : Child(c) # root_id
    <3>1. \A y \in Inner : \A j \in DOMAIN pages[y].child_ids : pages[y].child_ids[j] # root_id
      BY <1>2, OnePlace
    <3> HIDE DEF children
    <3> QED
      BY <2>2, <3>1
  <2>4. ASSUME NEW c \in children, NEW d \in children, Child(c) = Child(d) PROVE c = d
    <3>1. Child(c) \in DOMAIN pages \ {root_id}
      BY <2>2, <2>3
    <3> DEFINE id == Child(c)
    <3>2. id \in DOMAIN pages \ {root_id} /\ Child(c) = id /\ Child(d) = id
      BY <2>4, <3>1
    <3> HIDE DEF id
    <3>3. PICK x \in Inner : \E i \in 1 .. Len(pages[x].keys) + 1 :
                /\ pages[x].child_ids[i] = id
                /\ \A y \in Inner : \A j \in DOMAIN pages[y].child_ids :
                     pages[y].child_ids[j] = id => y = x /\ j = i
      <4>1. \A u \in DOMAIN pages \ {root_id} :
              \E x \in Inner : \E i \in 1 .. Len(pages[x].keys) + 1 :
                /\ pages[x].child_ids[i] = u
                /\ \A y \in Inner : \A j \in DOMAIN pages[y].child_ids :
                     pages[y].child_ids[j] = u => y = x /\ j = i
        BY <1>2, OnePlace
      <4> QED
        BY <3>2, <4>1
    <3>4. c[1] = d[1] /\ c[2] = d[2]
      <4> HIDE DEF children
      <4> QED
        BY <2>2, <3>2, <3>3
    <3> QED
      BY <2>2, <3>4
  <2> QED
    BY <2>3, <2>4 DEF AreAllChildIdsUnique
<1> QED
  BY <1>3, <1>4, <1>5, <1>6, <1>7 DEF Validate, IsConcatenated

(* Between calls validate, given the number of entries that are stored,    *)
(* and are_all_child_ids_unique accept the tree: neither the walk along    *)
(* the leaves nor the walk down from the root reports a fault that is not  *)
(* there.                                                                  *)
THEOREM ValidateIsContent == Spec => []ValidateAccepts
  BY TreeIsKept, IInvGivesValid, PTL
-----------------------------------------------------------------------------
(* Which exchanges of two keys validate finds. *)
LEMMA ExchangedIs ==
  ASSUME NEW lo, NEW hi, NEW h, NEW k, AtRest(lo, hi, h, k), NEW a \in Int, NEW b \in Int
  PROVE  LET p == Exchanged(a, b) IN
         /\ Alike(p)
         /\ \A x \in DOMAIN pages : ~pages[x].inner =>
              /\ DOMAIN p[x].keys = 1 .. Len(pages[x].keys) /\ Len(p[x].keys) = Len(pages[x].keys)
              /\ \A i \in 1 .. Len(pages[x].keys) :
                   p[x].keys[i] = IF pages[x].keys[i] = a THEN b
                                  ELSE IF pages[x].keys[i] = b THEN a ELSE pages[x].keys[i]
<1> DEFINE p == Exchanged(a, b)
           Swap(q) == IF q = a THEN b ELSE IF q = b THEN a ELSE q
           New(n) == [i \in DOMAIN n.keys |-> Swap(n.keys[i])]
<1>1. /\ DOMAIN p = DOMAIN pages
      /\ \A x \in DOMAIN pages :
           p[x] = IF pages[x].inner THEN pages[x]
                  ELSE OuterNode(New(pages[x]), pages[x].values, pages[x].next_lef_id)
  <2>1. \A q : (CASE q = a -> b [] q = b -> a [] OTHER -> q) = Swap(q)
    OBVIOUS
  <2> HIDE DEF Swap
  <2> QED
    BY <2>1 DEF Exchanged
<1> HIDE DEF p
<1>2. Alike(p)
  <2>1. ASSUME NEW x \in DOMAIN pages, ~pages[x].inner
        PROVE  ~p[x].inner /\ p[x].next_lef_id = pages[x].next_lef_id
    BY <1>1, <2>1 DEF OuterNode
  <2>2. \A x \in DOMAIN pages : pages[x].inner \in BOOLEAN
    BY RestFacts
  <2> QED
    BY <1>1, <2>1, <2>2 DEF Alike
<1>3. ASSUME NEW x \in DOMAIN pages, ~pages[x].inner
      PROVE  /\ DOMAIN p[x].keys = 1 .. Len(pages[x].keys) /\ Len(p[x].keys) = Len(pages[x].keys)
             /\ \A i \in 1 .. Len(pages[x].keys) : p[x].keys[i] = Swap(pages[x].keys[i])
  <2>1. p[x].keys = New(pages[x])
    BY <1>1, <1>3 DEF OuterNode
  <2>2. /\ pages[x].keys \in Seq(Int) /\ Len(pages[x].keys) \in Nat
        /\ DOMAIN pages[x].keys = 1 .. Len(pages[x].keys)
    BY <1>3, RestFacts, LeafKeys
  <2>3. \A i \in 1 .. Len(pages[x].keys) : Swap(pages[x].keys[i]) \in Int
    BY <2>2
  <2> HIDE DEF Swap
  <2>4. New(pages[x]) \in Seq(Int) /\ Len(New(pages[x])) = Len(pages[x].keys)
    BY <2>2, <2>3
  <2> QED
    BY <2>1, <2>2, <2>4
<1> QED
  BY <1>2, <1>3 DEF p

(* What holds of a node if it holds of the nodes one level above it holds  *)
(* of all nodes.                                                           *)
LEMMA FromTheRoot ==
  ASSUME NEW lo, NEW hi, NEW h, NEW k, AtRest(lo, hi, h, k), NEW A,
         \A x \in DOMAIN pages : (\A w \in DOMAIN pages : h[w] = h[x] + 1 => w \in A) => x \in A
  PROVE  DOMAIN pages \subseteq A
<1> DEFINE n == h[root_id]
           Good(d) == \A x \in DOMAIN pages : n - h[x] <= d => x \in A
           S == {d \in 0 .. n : Good(d)}
<1>1. n \in Nat /\ \A x \in DOMAIN pages : h[x] \in Nat /\ h[x] <= n
  BY RestFacts
<1> HIDE DEF n
<1>2. 0 \in S
  <2>1. ASSUME NEW x \in DOMAIN pages, n - h[x] <= 0 PROVE x \in A
    <3>1. \A w \in DOMAIN pages : h[w] # h[x] + 1
      BY <1>1, <2>1
    <3> QED
      BY <3>1
  <2> QED
    BY <1>1, <2>1
<1>3. ASSUME NEW d \in 0 .. n - 1, d \in S PROVE d + 1 \in S
  <2>1. ASSUME NEW x \in DOMAIN pages, n - h[x] <= d + 1 PROVE x \in A
    <3>1. ASSUME NEW w \in DOMAIN pages, h[w] = h[x] + 1 PROVE w \in A
      <4>1. n - h[w] <= d
        BY <1>1, <2>1, <3>1
      <4> QED
        BY <1>3, <4>1
    <3> QED
      BY <3>1
  <2>2. d + 1 \in 0 .. n
    BY <1>1
  <2> QED
    BY <2>1, <2>2
<1> HIDE DEF S
<1>4. n \in S
  BY <1>1, <1>2, <1>3, FromLevelToLevel
<1>5. \A x \in DOMAIN pages : n - h[x] <= n
  BY <1>1
<1> QED
  BY <1>4, <1>5 DEF S

(* Where a page begins, if not at the very first, there is a separator,    *)
(* and the page is on the left edge below the child to its right; where it *)
(* ends, if not at the very last, there is one, too.                       *)
SeparatedLeft(lo, h, y) ==
  \E w \in DOMAIN pages : pages[w].inner /\ \E i \in 1 .. Len(pages[w].keys) :
    pages[w].keys[i] = lo[y] /\ OnEdge(lo, h, ChildAt(pages, w, i + 1), y)
SeparatedRight(hi, h, y) ==
  \E w \in DOMAIN pages : pages[w].inner /\ \E i \in 1 .. Len(pages[w].keys) :
    pages[w].keys[i] = hi[y] /\ h[y] <= h[ChildAt(pages, w, i)]
LEMMA SeparatedBoth ==
  ASSUME NEW lo, NEW hi, NEW h, NEW k, AtRest(lo, hi, h, k), NEW z \in DOMAIN pages
  PROVE  /\ lo[z] # -1 => SeparatedLeft(lo, h, z)
         /\ hi[z] # Top => SeparatedRight(hi, h, z)
<1> DEFINE A == {y \in DOMAIN pages : /\ lo[y] # -1 => SeparatedLeft(lo, h, y)
                                      /\ hi[y] # Top => SeparatedRight(hi, h, y)}
<1>1. ASSUME NEW y \in DOMAIN pages, \A w \in DOMAIN pages : h[w] = h[y] + 1 => w \in A PROVE y \in A
  <2>1. CASE y = root_id
    BY <2>1, RestFacts
  <2>2. CASE y # root_id
    <3>1. PICK w \in DOMAIN pages : /\ pages[w].inner /\ h[w] = h[y] + 1
                                    /\ \E j \in 1 .. Len(pages[w].keys) + 1 : ChildAt(pages, w, j) = y
      BY <2>2, RestFacts, HasParent
    <3>2. PICK j \in 1 .. Len(pages[w].keys) + 1 : ChildAt(pages, w, j) = y
      BY <3>1
    <3>3. w \in A
      BY <1>1, <3>1
    <3>4. Len(pages[w].keys) \in Nat /\ h[y] \in Nat /\ lo[y] \in Int
      BY <3>1, RestFacts
    <3>5. lo[y] = Cut(pages[w], lo[w], hi[w], j - 1) /\ hi[y] = Cut(pages[w], lo[w], hi[w], j)
      BY <3>1, <3>2, RestFacts, ChildIsBelow
    <3>6. lo[y] # -1 => SeparatedLeft(lo, h, y)
      <4>1. CASE j = 1
        <5>1. lo[y] = lo[w]
          BY <3>5, <4>1 DEF Cut
        <5>2. CASE lo[w] # -1
          <6>1. PICK u \in DOMAIN pages : pages[u].inner /\ \E i \in 1 .. Len(pages[u].keys) :
                  pages[u].keys[i] = lo[w] /\ OnEdge(lo, h, ChildAt(pages, u, i + 1), w)
            BY <3>3, <5>2 DEF SeparatedLeft
          <6>2. PICK i \in 1 .. Len(pages[u].keys) :
                  pages[u].keys[i] = lo[w] /\ OnEdge(lo, h, ChildAt(pages, u, i + 1), w)
            BY <6>1
          <6>3. h[ChildAt(pages, u, i + 1)] \in Nat
            BY <6>1, BesideSeparator, RestFacts
          <6>4. OnEdge(lo, h, ChildAt(pages, u, i + 1), y)
            BY <3>1, <3>4, <5>1, <6>2, <6>3 DEF OnEdge
          <6> QED
            BY <5>1, <6>1, <6>2, <6>4 DEF SeparatedLeft
        <5> QED
          BY <5>1, <5>2
      <4>2. CASE j # 1
        <5>1. j - 1 \in 1 .. Len(pages[w].keys) /\ (j - 1) + 1 = j
          BY <3>4, <4>2
        <5>2. pages[w].keys[j - 1] = lo[y]
          BY <3>4, <3>5, <5>1 DEF Cut
        <5>3. OnEdge(lo, h, ChildAt(pages, w, (j - 1) + 1), y)
          BY <3>2, <3>4, <5>1 DEF OnEdge
        <5> QED
          BY <3>1, <5>1, <5>2, <5>3 DEF SeparatedLeft
      <4> QED
        BY <4>1, <4>2
    <3>7. hi[y] # Top => SeparatedRight(hi, h, y)
      <4>1. CASE j = Len(pages[w].keys) + 1
        <5>1. hi[y] = hi[w]
          BY <3>4, <3>5, <4>1 DEF Cut
        <5>2. CASE hi[w] # Top
          <6>1. PICK u \in DOMAIN pages : pages[u].inner /\ \E i \in 1 .. Len(pages[u].keys) :
                  pages[u].keys[i] = hi[w] /\ h[w] <= h[ChildAt(pages, u, i)]
            BY <3>3, <5>2 DEF SeparatedRight
          <6>2. PICK i \in 1 .. Len(pages[u].keys) :
                  pages[u].keys[i] = hi[w] /\ h[w] <= h[ChildAt(pages, u, i)]
            BY <6>1
          <6>3. h[ChildAt(pages, u, i)] \in Nat
            BY <6>1, BesideSeparator, RestFacts
          <6>4. h[y] <= h[ChildAt(pages, u, i)]
            BY <3>1, <3>4, <6>2, <6>3
          <6> QED
            BY <5>1, <6>1, <6>2, <6>4 DEF SeparatedRight
        <5> QED
          BY <5>1, <5>2
      <4>2. CASE j # Len(pages[w].keys) + 1
        <5>1. j \in 1 .. Len(pages[w].keys)
          BY <3>4, <4>2
        <5>2. pages[w].keys[j] = hi[y] /\ h[y] <= h[ChildAt(pages, w, j)]
          BY <3>2, <3>4, <3>5, <5>1 DEF Cut
        <5> QED
          BY <3>1, <5>1, <5>2 DEF SeparatedRight
      <4> QED
        BY <4>1, <4>2
    <3> QED
      BY <3>6, <3>7
  <2> QED
    BY <2>1, <2>2
<1> HIDE DEF A
<1>2. z \in A
  BY <1>1, FromTheRoot
<1> QED
  BY <1>2 DEF A

(* Pages that validate finds in order have, on the left edge below a       *)
(* child, no key on the wrong side of the separator beside it.             *)
LEMMA InOrderMeans ==
  ASSUME NEW lo, NEW hi, NEW h, NEW k, AtRest(lo, hi, h, k), NEW p, Alike(p), IsOrdered(p),
         NEW w \in DOMAIN pages, pages[w].inner, NEW i \in 1 .. Len(pages[w].keys), NEW y \in DOMAIN pages
  PROVE  LET s == pages[w].keys[i] IN
         /\ OnEdge(lo, h, ChildAt(pages, w, i), y) => \A q \in Range(p[y].keys) : q <= s
         /\ OnEdge(lo, h, ChildAt(pages, w, i + 1), y) => \A q \in Range(p[y].keys) : q >= s
<1> DEFINE s == pages[w].keys[i]
           c == ChildAt(pages, w, i)
           d == ChildAt(pages, w, i + 1)
<1>1. p[w] = pages[w] /\ w \in DOMAIN p /\ i \in DOMAIN pages[w].keys
  BY RestFacts DEF Alike
<1>2. c \in DOMAIN pages /\ d \in DOMAIN pages /\ c = pages[w].child_ids[i] /\ d = pages[w].child_ids[i + 1]
  BY BesideSeparator
<1>3. w \in InOrder(p)
  BY OrderedIs
<1>4. SmallerOrEqual(p, s)[c] /\ Bigger(p, s)[d]
  BY <1>1, <1>2, <1>3 DEF InOrder
<1> HIDE DEF s, c, d
<1>5. EdgePasses(lo, h, c, NoneAbove(p, s))
  BY <1>2, <1>4, SmallerIs
<1>6. EdgePasses(lo, h, d, NoneBelow(p, s))
  BY <1>2, <1>4, BiggerIs
<1>7. /\ OnEdge(lo, h, c, y) => \A q \in Range(p[y].keys) : q <= s
      /\ OnEdge(lo, h, d, y) => \A q \in Range(p[y].keys) : q >= s
  BY <1>5, <1>6 DEF EdgePasses, NoneAbove, NoneBelow
<1> QED
  BY <1>7 DEF s, c, d

(* Two keys of one leaf leave it out of order. *)
LEMMA ExchangedInLeaf ==
  ASSUME NEW lo, NEW hi, NEW h, NEW k, AtRest(lo, hi, h, k), NEW a \in Int, NEW b \in Int, a < b,
         NEW x \in DOMAIN pages, ~pages[x].inner,
         NEW i \in 1 .. Len(pages[x].keys), pages[x].keys[i] = a,
         NEW j \in 1 .. Len(pages[x].keys), pages[x].keys[j] = b
  PROVE  ~Sorted(Exchanged(a, b))
<1> DEFINE p == Exchanged(a, b)
           s == pages[x].keys
<1>1. s \in Seq(Int) /\ Ascending(s) /\ Len(s) \in Nat
  BY RestFacts, LeafKeys
<1>2. /\ Alike(p) /\ Len(p[x].keys) = Len(s)
      /\ \A m \in 1 .. Len(s) : p[x].keys[m] = IF s[m] = a THEN b ELSE IF s[m] = b THEN a ELSE s[m]
  BY ExchangedIs
<1> HIDE DEF p
<1>3. i < j
  <2>1. i # j /\ ~(j < i)
    BY <1>1 DEF Ascending
  <2> QED
    BY <1>1, <2>1
<1>4. i \in 1 .. Len(s) - 1 /\ i + 1 \in 1 .. Len(s) /\ i + 1 <= j
  BY <1>1, <1>3
<1>5. s[i + 1] \in Int /\ a < s[i + 1] /\ s[i + 1] <= b
  <2>1. a < s[i + 1]
    <3>1. i < i + 1 /\ s[i] = a
      OBVIOUS
    <3> HIDE DEF s
    <3>2. s[i] < s[i + 1]
      BY <1>1, <1>4, <3>1 DEF Ascending
    <3> QED
      BY <3>1, <3>2
  <2>2. s[i + 1] <= b
    BY <1>1, <1>4, AscendingWeakly
  <2> QED
    BY <1>1, <1>4, <2>1, <2>2
<1>6. p[x].keys[i] = b /\ p[x].keys[i + 1] = IF s[i + 1] = b THEN a ELSE s[i + 1]
  BY <1>2, <1>4, <1>5
<1>7. ~(p[x].keys[i] <= p[x].keys[i + 1])
  BY <1>5, <1>6
<1>8. x \notin Ascends(p)
  <2>1. i \in 1 .. Len(p[x].keys) - 1
    BY <1>2, <1>4
  <2> QED
    BY <1>7, <2>1 DEF Ascends
<1>9. x \in LeavesOf(pages)
  BY DEF LeavesOf
<1> QED
  BY <1>2, <1>8, <1>9, SortedIs DEF p

(* The last key of a leaf below a node of inner nodes is the only one that *)
(* bigger lets pass: as the first key behind it.                           *)
LEMMA ExchangedBetween ==
  ASSUME NEW lo, NEW hi, NEW h, NEW k, AtRest(lo, hi, h, k), NEW a \in Int, NEW b \in Int, a < b,
         NEW x \in DOMAIN pages, ~pages[x].inner, NEW y \in DOMAIN pages, ~pages[y].inner, x # y,
         NEW i \in 1 .. Len(pages[x].keys), pages[x].keys[i] = a,
         NEW j \in 1 .. Len(pages[y].keys), pages[y].keys[j] = b,
         a \notin UpperSeparators
  PROVE  ~IsOrdered(Exchanged(a, b))
<1> DEFINE p == Exchanged(a, b)
<1>1. SUFFICES ASSUME IsOrdered(p) PROVE FALSE
  OBVIOUS
<1>2. Alike(p) /\ b \in Range(p[x].keys) /\ a \in Range(p[y].keys)
  <2>1. /\ Alike(p)
        /\ \A z \in DOMAIN pages : ~pages[z].inner =>
             /\ DOMAIN p[z].keys = 1 .. Len(pages[z].keys)
             /\ \A m \in 1 .. Len(pages[z].keys) :
                  p[z].keys[m] = IF pages[z].keys[m] = a THEN b
                                 ELSE IF pages[z].keys[m] = b THEN a ELSE pages[z].keys[m]
    BY ExchangedIs
  <2> HIDE DEF p
  <2>2. i \in DOMAIN p[x].keys /\ p[x].keys[i] = b
    BY <2>1
  <2>3. j \in DOMAIN p[y].keys /\ p[y].keys[j] = a
    BY <2>1
  <2> QED
    BY <2>1, <2>2, <2>3 DEF Range
<1> HIDE DEF p
<1>3. /\ Tree(pages, root_id, lo, hi, h, 0, k) /\ Skeleton(pages, lo, hi, h) /\ 0 \notin DOMAIN pages
      /\ lo[x] \in Int /\ hi[x] \in Int /\ lo[y] \in Int /\ hi[y] \in Int /\ -1 <= lo[x] /\ hi[y] <= Top
      /\ lo[x] < hi[x] /\ lo[y] < hi[y] /\ h[x] = 0 /\ h[y] = 0 /\ Top \in Int
  BY RestFacts
<1>4. lo[x] < a /\ a <= hi[x] /\ lo[y] < b /\ b <= hi[y]
  <2>1. a \in Range(pages[x].keys) /\ b \in Range(pages[y].keys)
    BY RestFacts DEF Range
  <2> QED
    BY <2>1, KeysWithin
<1>5. hi[x] <= lo[y]
  <2>1. hi[x] <= lo[y] \/ hi[y] <= lo[x]
    BY <1>3, LeavesAreApart
  <2> QED
    BY <1>3, <1>4, <2>1
<1>6. a = hi[x]
  <2>1. SeparatedLeft(lo, h, y)
    BY <1>3, <1>4, <1>5, SeparatedBoth
  <2>2. PICK w \in DOMAIN pages : pages[w].inner /\ \E m \in 1 .. Len(pages[w].keys) :
          pages[w].keys[m] = lo[y] /\ OnEdge(lo, h, ChildAt(pages, w, m + 1), y)
    BY <2>1 DEF SeparatedLeft
  <2>3. PICK m \in 1 .. Len(pages[w].keys) :
          pages[w].keys[m] = lo[y] /\ OnEdge(lo, h, ChildAt(pages, w, m + 1), y)
    BY <2>2
  <2>4. \A q \in Range(p[y].keys) : q >= pages[w].keys[m]
    BY <1>1, <1>2, <2>2, <2>3, InOrderMeans
  <2>5. a >= lo[y]
    BY <1>2, <2>3, <2>4
  <2> QED
    BY SMTT(30), <1>3, <1>4, <1>5, <2>5
<1>7. SeparatedRight(hi, h, x)
  BY <1>3, <1>4, <1>5, SeparatedBoth
<1>8. PICK w \in DOMAIN pages : pages[w].inner /\ \E m \in 1 .. Len(pages[w].keys) :
        pages[w].keys[m] = hi[x] /\ h[x] <= h[ChildAt(pages, w, m)]
  BY <1>7 DEF SeparatedRight
<1>9. PICK m \in 1 .. Len(pages[w].keys) : pages[w].keys[m] = hi[x]
  BY <1>8
<1> DEFINE c == ChildAt(pages, w, m)
           e == ChildAt(pages, w, 1)
<1>10. c \in DOMAIN pages /\ hi[c] = hi[x] /\ h[w] = h[c] + 1
  BY <1>8, <1>9, BesideSeparator
<1>11. e \in DOMAIN pages /\ h[w] = h[e] + 1 /\ e = pages[w].child_ids[1]
  <2>1. 1 \in 1 .. Len(pages[w].keys)
    BY <1>8, RestFacts
  <2> QED
    BY <1>8, <2>1, BesideSeparator
<1>12. h[c] = h[e] /\ h[c] \in Nat
  BY SMTT(30), <1>10, <1>11, RestFacts
<1>13. CASE h[c] = 0
  <2>1. /\ DOMAIN pages \subseteq PageIds /\ Labels(lo, hi, h)
        /\ Spans(DOMAIN pages, lo, hi) /\ Laminar(DOMAIN pages, lo, hi, h)
    BY RestFacts
  <2>2. c = x
    <3> HIDE DEF c
    <3>1. c \in DOMAIN pages /\ hi[c] = hi[x] /\ h[c] = h[x]
      BY <1>3, <1>10, <1>13
    <3> QED
      BY SMTT(30), <1>3, <2>1, <3>1, OneEnd
  <2>3. OnEdge(lo, h, c, x)
    BY <1>3, <2>2 DEF OnEdge
  <2>4. \A q \in Range(p[x].keys) : q <= pages[w].keys[m]
    BY <1>1, <1>2, <1>8, <2>3, InOrderMeans
  <2>5. b <= a
    BY <1>2, <1>6, <1>9, <2>4
  <2> QED
    BY <2>5
<1>14. CASE h[c] # 0
  <2>1. pages[e].inner
    <3> HIDE DEF e, c
    <3> QED
      BY <1>11, <1>12, <1>14, RestFacts
  <2>2. w \in Inner /\ pages[w].child_ids[1] \in Inner
    BY <1>8, <1>11, <2>1 DEF Inner
  <2>3. a \in Range(pages[w].keys)
    BY <1>6, <1>8, <1>9, RestFacts DEF Range
  <2>4. a \in UpperSeparators
    BY <2>2, <2>3 DEF UpperSeparators
  <2> QED
    BY <2>4
<1> QED
  BY <1>13, <1>14

LEMMA IInvGivesExchanges == IInv => ExchangesAreFound
<1> SUFFICES ASSUME IInv, Idle, NEW a \in StoredKeys, NEW b \in StoredKeys,
                    a < b, a \notin UpperSeparators
             PROVE  ~Validate(Exchanged(a, b), Cardinality(StoredKeys))
  BY DEF ExchangesAreFound
<1>1. PICK lo, hi, h, k : AtRest(lo, hi, h, k)
  BY IdleRests
<1>2. Labelled(lo, hi, h, 0, k)
  BY <1>1, RestFacts
<1>3. a \in Int /\ b \in Int
  BY <1>2, StoredAreInts
<1>4. PICK x \in DOMAIN pages : ~pages[x].inner /\ \E i \in 1 .. Len(pages[x].keys) : pages[x].keys[i] = a
  BY <1>2, StoredIs
<1>5. PICK y \in DOMAIN pages : ~pages[y].inner /\ \E j \in 1 .. Len(pages[y].keys) : pages[y].keys[j] = b
  BY <1>2, StoredIs
<1>6. PICK i \in 1 .. Len(pages[x].keys) : pages[x].keys[i] = a
  BY <1>4
<1>7. PICK j \in 1 .. Len(pages[y].keys) : pages[y].keys[j] = b
  BY <1>5
<1>8. CASE x = y
  <2>1. ~Sorted(Exchanged(a, b))
    BY <1>1, <1>3, <1>4, <1>6, <1>7, <1>8, ExchangedInLeaf
  <2> QED
    BY <2>1 DEF Validate, IsConcatenated
<1>9. CASE x # y
  <2>1. ~IsOrdered(Exchanged(a, b))
    BY <1>1, <1>3, <1>4, <1>5, <1>6, <1>7, <1>9, ExchangedBetween
  <2> QED
    BY <2>1 DEF Validate
<1> QED
  BY <1>8, <1>9

(* validate finds any two keys that changed places, if the smaller one is  *)
(* no separator of a node whose children are inner nodes.                  *)
THEOREM ExchangesFound == Spec => []ExchangesAreFound
  BY TreeIsKept, IInvGivesExchanges, PTL
=============================================================================
