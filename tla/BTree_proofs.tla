---------------------------- MODULE BTree_proofs ----------------------------
(***************************************************************************)
(* The shape of the B+ tree, for trees of any height.  What a recursion    *)
(* from the root would find out about a page is written on the page        *)
(* instead: its span, the keys above lo and up to hi that belong below it, *)
(* and its height h.  The tree is sound if the labels of a page and of its *)
(* children fit together, page by page.  After what the methods of a node  *)
(* compute come the changes of pages and labels that keep a tree sound,    *)
(* and then the steps of BPlusTree that write pages, as such changes.      *)
(***************************************************************************)
EXTENDS BPlusTree, SequenceTheorems, FiniteSetTheorems, WellFoundedInduction, TLAPS

-----------------------------------------------------------------------------
(* What the methods of the nodes compute, position by position. *)

(* The keys of a node ascend: any two, not only neighbours. *)
Ascending(s) == \A i, j \in 1 .. Len(s) : i < j => s[i] < s[j]

(* Ascending, with equal places allowed. *)
LEMMA AscendingWeakly ==
  ASSUME NEW s \in Seq(Int), Ascending(s), NEW i \in 1 .. Len(s), NEW j \in 1 .. Len(s), i <= j
  PROVE  s[i] <= s[j] /\ s[i] \in Int /\ s[j] \in Int
<1>1. s[i] \in Int /\ s[j] \in Int
  OBVIOUS
<1>2. CASE i = j
  BY <1>1, <1>2
<1>3. CASE i < j
  BY <1>1, <1>3 DEF Ascending
<1> QED
  BY <1>1, <1>2, <1>3

-----------------------------------------------------------------------------
(* Sequences. *)

(* The parts of a concatenation. *)
LEMMA ConcatIsPointwise ==
  ASSUME NEW S, NEW s \in Seq(S), NEW t \in Seq(S)
  PROVE  /\ s \o t \in Seq(S)
         /\ Len(s \o t) = Len(s) + Len(t)
         /\ \A i \in 1 .. Len(s) + Len(t) :
              (s \o t)[i] = IF i <= Len(s) THEN s[i] ELSE t[i - Len(s)]
  OBVIOUS

(* A piece of a sequence. *)
LEMMA SubSeqIsPointwise ==
  ASSUME NEW S, NEW s \in Seq(S), NEW m \in 1 .. Len(s) + 1, NEW n \in m - 1 .. Len(s)
  PROVE  /\ SubSeq(s, m, n) \in Seq(S)
         /\ Len(SubSeq(s, m, n)) = n - m + 1
         /\ \A i \in 1 .. n - m + 1 : SubSeq(s, m, n)[i] = s[m + i - 1]
  OBVIOUS

(* A sequence without its first element. *)
LEMMA TailIsPointwise ==
  ASSUME NEW S, NEW s \in Seq(S), s # << >>
  PROVE  /\ Tail(s) \in Seq(S)
         /\ Len(Tail(s)) = Len(s) - 1
         /\ \A i \in 1 .. Len(s) - 1 : Tail(s)[i] = s[i + 1]
         /\ Head(s) = s[1]
  OBVIOUS
(* What is behind an inserted element moves up by one. *)
LEMMA InsertAtIsPointwise ==
  ASSUME NEW S, NEW s \in Seq(S), NEW p \in 1 .. Len(s) + 1, NEW e \in S
  PROVE  /\ InsertAt(s, p, e) \in Seq(S)
         /\ Len(InsertAt(s, p, e)) = Len(s) + 1
         /\ \A i \in 1 .. Len(s) + 1 :
              InsertAt(s, p, e)[i] = IF i < p THEN s[i] ELSE IF i = p THEN e ELSE s[i - 1]
<1> DEFINE l == SubSeq(s, 1, p - 1)
           r == SubSeq(s, p, Len(s))
<1>1. l \in Seq(S) /\ Len(l) = p - 1 /\ \A i \in 1 .. p - 1 : l[i] = s[i]
  BY SubSeqIsPointwise
<1>2. r \in Seq(S) /\ Len(r) = Len(s) - p + 1 /\ \A i \in 1 .. Len(s) - p + 1 : r[i] = s[p + i - 1]
  BY SubSeqIsPointwise
<1>3. InsertAt(s, p, e) = (l \o <<e>>) \o r
  BY DEF InsertAt
<1> HIDE DEF l, r
<1>4. /\ l \o <<e>> \in Seq(S) /\ Len(l \o <<e>>) = p
      /\ \A i \in 1 .. p : (l \o <<e>>)[i] = IF i <= p - 1 THEN l[i] ELSE <<e>>[i - (p - 1)]
  BY <1>1, ConcatIsPointwise, <<e>> \in Seq(S), Len(<<e>>) = 1
<1> DEFINE m == l \o <<e>>
<1> HIDE DEF m
<1>5. /\ m \o r \in Seq(S) /\ Len(m \o r) = Len(s) + 1
      /\ \A i \in 1 .. Len(s) + 1 : (m \o r)[i] = IF i <= p THEN m[i] ELSE r[i - p]
  <2>1. m \in Seq(S) /\ Len(m) = p /\ Len(r) = Len(s) - p + 1 /\ r \in Seq(S)
    BY <1>2, <1>4 DEF m
  <2>2. Len(m) + Len(r) = Len(s) + 1 /\ Len(m) \in Nat /\ Len(r) \in Nat
    BY <2>1
  <2>3. /\ m \o r \in Seq(S) /\ Len(m \o r) = Len(m) + Len(r)
        /\ \A i \in 1 .. Len(m) + Len(r) : (m \o r)[i] = IF i <= Len(m) THEN m[i] ELSE r[i - Len(m)]
    BY <2>1, ConcatIsPointwise
  <2> QED
    BY <2>1, <2>2, <2>3
<1>6. \A i \in 1 .. p : m[i] = IF i < p THEN s[i] ELSE e
  BY <1>1, <1>4 DEF m
<1>7. \A i \in p + 1 .. Len(s) + 1 : r[i - p] = s[i - 1]
  BY <1>2
<1>8. InsertAt(s, p, e) = m \o r
  BY <1>3 DEF m
<1> QED
  BY <1>5, <1>6, <1>7, <1>8

(* What is behind a removed element moves down by one. *)
LEMMA RemoveAtIsPointwise ==
  ASSUME NEW S, NEW s \in Seq(S), NEW p \in 1 .. Len(s)
  PROVE  /\ RemoveAt(s, p) \in Seq(S)
         /\ Len(RemoveAt(s, p)) = Len(s) - 1
         /\ \A i \in 1 .. Len(s) - 1 :
              RemoveAt(s, p)[i] = IF i < p THEN s[i] ELSE s[i + 1]
<1> DEFINE l == SubSeq(s, 1, p - 1)
           r == SubSeq(s, p + 1, Len(s))
<1>1. l \in Seq(S) /\ Len(l) = p - 1 /\ \A i \in 1 .. p - 1 : l[i] = s[i]
  BY SubSeqIsPointwise
<1>2. r \in Seq(S) /\ Len(r) = Len(s) - p /\ \A i \in 1 .. Len(s) - p : r[i] = s[p + i]
  BY SubSeqIsPointwise
<1>3. RemoveAt(s, p) = l \o r
  BY DEF RemoveAt
<1> HIDE DEF l, r
<1>4. /\ l \o r \in Seq(S) /\ Len(l \o r) = Len(s) - 1
      /\ \A i \in 1 .. Len(s) - 1 : (l \o r)[i] = IF i <= p - 1 THEN l[i] ELSE r[i - (p - 1)]
  BY <1>1, <1>2, ConcatIsPointwise
<1>5. \A i \in p .. Len(s) - 1 : r[i - (p - 1)] = s[i + 1]
  BY <1>2
<1> QED
  BY <1>1, <1>3, <1>4, <1>5

-----------------------------------------------------------------------------
(* The binary search. *)

(* A set of numbers that is not empty has a least one. *)
LEMMA LeastNumber ==
  ASSUME NEW T \in SUBSET Nat, T # {}
  PROVE  \E m \in T : \A t \in T : m <= t
<1>1. \E m \in T : \A t \in T : ~(<<t, m>> \in OpToRel(<, Nat))
  BY NatLessThanWellFounded, WFMin
<1>2. \A a, b \in Nat : a < b => <<a, b>> \in OpToRel(<, Nat)
  BY DEF OpToRel
<1>3. \A a, b \in Nat : ~(a < b) => b <= a
  OBVIOUS
<1> HIDE DEF OpToRel
<1> QED
  BY <1>1, <1>2, <1>3

(* Where the search of ascending keys ends: the keys before are smaller,   *)
(* those from there on are not.                                            *)
LEMMA PositionSplits ==
  ASSUME NEW n, n.keys \in Seq(Int), Ascending(n.keys), NEW k \in Int
  PROVE  /\ Position(n, k) \in 1 .. Len(n.keys) + 1
         /\ \A i \in 1 .. Len(n.keys) : n.keys[i] < k <=> i < Position(n, k)
<1> DEFINE s == n.keys
<1>0. s \in Seq(Int) /\ Ascending(s) /\ Len(s) \in Nat
  OBVIOUS
<1> HIDE DEF s
<1> DEFINE T == {i \in 1 .. Len(s) + 1 : i = Len(s) + 1 \/ ~(s[i] < k)}
<1>1. PICK q \in T : \A t \in T : q <= t
  <2>1. T \in SUBSET Nat /\ Len(s) + 1 \in T
    BY <1>0
  <2> HIDE DEF T
  <2> QED
    BY <2>1, LeastNumber
<1>2. {i \in DOMAIN s : s[i] < k} = 1 .. q - 1
  <2>1. ASSUME NEW i \in 1 .. Len(s) PROVE s[i] < k <=> i < q
    <3>1. CASE i < q
      <4>1. i \notin T /\ i \in 1 .. Len(s) + 1
        BY <1>0, <1>1, <3>1
      <4> QED
        BY <3>1, <4>1
    <3>2. CASE i >= q
      <4>1. q \in 1 .. Len(s) /\ ~(s[q] < k)
        BY <1>0, <1>1, <3>2
      <4>2. s[q] <= s[i]
        BY <1>0, <3>2, <4>1 DEF Ascending
      <4>3. s[q] \in Int /\ s[i] \in Int
        BY <1>0, <4>1
      <4> QED
        BY <3>2, <4>1, <4>2, <4>3, <1>1
    <3> QED
      BY <3>1, <3>2, <1>1
  <2>2. DOMAIN s = 1 .. Len(s)
    BY <1>0
  <2>3. q \in 1 .. Len(s) + 1
    BY <1>1
  <2> QED
    BY <1>0, <2>1, <2>2, <2>3
<1>3. q \in 1 .. Len(s) + 1
  BY <1>1
<1>4. Cardinality(1 .. q - 1) = q - 1
  BY <1>0, <1>3, FS_Interval
<1>5. Position(n, k) = q
  <2>1. Position(n, k) = Cardinality({i \in DOMAIN s : s[i] < k}) + 1
    BY DEF Position, BinarySearch, s
  <2>2. Position(n, k) = (q - 1) + 1
    BY <1>2, <1>4, <2>1
  <2> QED
    BY <1>3, <2>2, <1>0
<1>6. \A i \in 1 .. Len(s) : s[i] < k <=> i < q
  <2>1. \A i \in 1 .. Len(s) : i \in {j \in DOMAIN s : s[j] < k} <=> i \in 1 .. q - 1
    BY <1>2
  <2>2. DOMAIN s = 1 .. Len(s)
    BY <1>0
  <2> QED
    BY <2>1, <2>2, <1>3, <1>0
<1> QED
  BY <1>3, <1>5, <1>6 DEF s

(* A key that is there is there where the search ends. *)
LEMMA PositionOfKey ==
  ASSUME NEW n, n.keys \in Seq(Int), Ascending(n.keys),
         NEW i \in 1 .. Len(n.keys)
  PROVE  Position(n, n.keys[i]) = i /\ HasKey(n, n.keys[i])
<1>1. n.keys[i] \in Int
  OBVIOUS
<1> DEFINE p == Position(n, n.keys[i])
<1>2. p \in 1 .. Len(n.keys) + 1 /\ \A j \in 1 .. Len(n.keys) : n.keys[j] < n.keys[i] <=> j < p
  BY <1>1, PositionSplits
<1>3. p <= i
  BY <1>1, <1>2
<1>4. ~(p < i)
  <2>1. SUFFICES ASSUME p < i PROVE FALSE
    OBVIOUS
  <2>2. p \in 1 .. Len(n.keys) /\ n.keys[p] < n.keys[i]
    BY <1>2, <2>1 DEF Ascending
  <2> QED
    BY <1>2, <2>2
<1>5. p = i
  BY <1>2, <1>3, <1>4
<1> QED
  BY <1>5 DEF HasKey

(* The position is the only one that splits the keys. *)
LEMMA PositionIs ==
  ASSUME NEW n, n.keys \in Seq(Int), Ascending(n.keys), NEW k \in Int,
         NEW p \in 1 .. Len(n.keys) + 1,
         p > 1 => n.keys[p - 1] < k,
         p <= Len(n.keys) => k <= n.keys[p]
  PROVE  Position(n, k) = p
<1> DEFINE q == Position(n, k)
<1>1. q \in 1 .. Len(n.keys) + 1 /\ \A i \in 1 .. Len(n.keys) : n.keys[i] < k <=> i < q
  BY PositionSplits
<1>2. ~(q < p)
  <2>1. SUFFICES ASSUME q < p PROVE FALSE
    OBVIOUS
  <2>2. p - 1 \in 1 .. Len(n.keys) /\ n.keys[p - 1] < k
    BY <1>1, <2>1
  <2>3. p - 1 < q
    BY <1>1, <2>2
  <2> QED
    BY <1>1, <2>1, <2>3
<1>3. ~(p < q)
  <2>1. SUFFICES ASSUME p < q PROVE FALSE
    OBVIOUS
  <2>2. p \in 1 .. Len(n.keys) /\ k <= n.keys[p] /\ n.keys[p] < k /\ n.keys[p] \in Int
    BY <1>1, <2>1
  <2> QED
    BY <2>2
<1> QED
  BY <1>1, <1>2, <1>3

(* No key of the node is searched for: the search finds none. *)
LEMMA HasKeyMeans ==
  ASSUME NEW n, n.keys \in Seq(Int), Ascending(n.keys), NEW k \in Int
  PROVE  HasKey(n, k) <=> \E i \in 1 .. Len(n.keys) : n.keys[i] = k
<1>1. Position(n, k) \in 1 .. Len(n.keys) + 1
  BY PositionSplits
<1>2. ASSUME NEW i \in 1 .. Len(n.keys), n.keys[i] = k PROVE HasKey(n, k)
  BY <1>2, PositionOfKey
<1> QED
  BY <1>1, <1>2 DEF HasKey

-----------------------------------------------------------------------------
(* The two kinds of nodes, over keys, values and page ids. *)
IsOuter(n, K, V, I) ==
  /\ ~n.inner
  /\ n.keys \in Seq(K) /\ n.values \in Seq(V) /\ n.next_lef_id \in I \cup {0}
  /\ Len(n.values) = Len(n.keys)
  /\ Ascending(n.keys)
IsInner(n, K, I) ==
  /\ n.inner
  /\ n.keys \in Seq(K) /\ n.child_ids \in Seq(I)
  /\ Len(n.child_ids) = Len(n.keys) + 1
  /\ Ascending(n.keys)

(* A sequence with an element more, or one less, or another one. *)
IsWith(t, s, p, e) ==
  /\ Len(t) = Len(s) + 1
  /\ \A i \in 1 .. Len(s) + 1 :
       t[i] = IF i < p THEN s[i] ELSE IF i = p THEN e ELSE s[i - 1]
IsWithout(t, s, p) ==
  /\ Len(t) = Len(s) - 1
  /\ \A i \in 1 .. Len(s) - 1 : t[i] = IF i < p THEN s[i] ELSE s[i + 1]
IsAltered(t, s, p, e) ==
  /\ Len(t) = Len(s)
  /\ \A i \in 1 .. Len(s) : t[i] = IF i = p THEN e ELSE s[i]

(* The order of the keys is transitive. *)
LEMMA LessThanLess ==
  ASSUME NEW a \in Int, NEW b \in Int, NEW c \in Int, a < b, b < c
  PROVE  a < c
  OBVIOUS

(* Ascending keys with a key in its place ascend, and without one. *)
LEMMA AscendingWith ==
  ASSUME NEW s \in Seq(Int), NEW t \in Seq(Int), Ascending(s), NEW e \in Int,
         NEW p \in 1 .. Len(s) + 1, IsWith(t, s, p, e),
         p > 1 => s[p - 1] < e, p <= Len(s) => e < s[p]
  PROVE  Ascending(t)
<1>2. \A i \in 1 .. Len(s) : s[i] \in Int
  OBVIOUS
<1>1. \A i \in 1 .. Len(s) : (i < p => s[i] < e) /\ (i >= p => e < s[i])
  <2> SUFFICES ASSUME NEW i \in 1 .. Len(s)
               PROVE  (i < p => s[i] < e) /\ (i >= p => e < s[i])
    OBVIOUS
  <2>1. CASE i < p - 1
    <3>1. s[i] < s[p - 1] /\ p - 1 \in 1 .. Len(s)
      BY <2>1 DEF Ascending
    <3> QED
      BY <1>2, <2>1, <3>1
  <2>2. CASE i > p
    <3>1. s[p] < s[i] /\ p \in 1 .. Len(s)
      BY <2>2 DEF Ascending
    <3> QED
      BY <1>2, <2>2, <3>1
  <2> QED
    BY <2>1, <2>2, <1>2
<1> SUFFICES ASSUME NEW i \in 1 .. Len(t), NEW j \in 1 .. Len(t), i < j
             PROVE  t[i] < t[j]
  BY DEF Ascending
<1>3. i \in 1 .. Len(s) + 1 /\ j \in 1 .. Len(s) + 1 /\ i < j /\ p \in 1 .. Len(s) + 1 /\ Len(s) \in Nat
      /\ e \in Int
  BY DEF IsWith
<1>4. CASE j < p
  <2>1. i \in 1 .. Len(s) /\ j \in 1 .. Len(s)
    BY ONLY <1>3, <1>4
  <2>2. t[i] = s[i] /\ t[j] = s[j]
    BY <1>3, <1>4 DEF IsWith
  <2>3. s[i] < s[j]
    BY <2>1 DEF Ascending
  <2> QED
    BY <2>2, <2>3
<1>5. CASE j = p
  <2>1. i \in 1 .. Len(s) /\ i < p
    BY <1>3, <1>5
  <2>2. t[i] = s[i] /\ t[j] = e
    BY <1>3, <1>5 DEF IsWith
  <2>3. s[i] < e
    BY <1>1, <2>1
  <2> QED
    BY <2>2, <2>3
<1>6. CASE j > p /\ i < p
  <2>1. t[i] = s[i] /\ t[j] = s[j - 1] /\ i \in 1 .. Len(s) /\ j - 1 \in 1 .. Len(s) /\ j - 1 >= p
    BY <1>3, <1>6 DEF IsWith
  <2>2. s[i] < e /\ e < s[j - 1] /\ s[i] \in Int /\ s[j - 1] \in Int
    BY <2>1, <1>1, <1>2, <1>6
  <2>3. s[i] < s[j - 1]
    BY ONLY e \in Int, <2>2, LessThanLess
  <2> QED
    BY ONLY <2>1, <2>3
<1>7. CASE j > p /\ i = p
  <2>1. t[i] = e /\ t[j] = s[j - 1] /\ j - 1 \in 1 .. Len(s) /\ j - 1 >= p
    BY <1>3, <1>7 DEF IsWith
  <2> QED
    BY <2>1, <1>1, <1>2
<1>8. CASE j > p /\ i > p
  <2>1. i - 1 \in 1 .. Len(s) /\ j - 1 \in 1 .. Len(s) /\ i - 1 < j - 1
    BY <1>3, <1>8
  <2>2. t[i] = s[i - 1] /\ t[j] = s[j - 1]
    BY <1>3, <1>8 DEF IsWith
  <2>3. s[i - 1] < s[j - 1]
    BY <2>1 DEF Ascending
  <2> QED
    BY <2>2, <2>3
<1> QED
  BY <1>3, <1>4, <1>5, <1>6, <1>7, <1>8

(* A sequence that loses an element still ascends. *)
LEMMA AscendingWithout ==
  ASSUME NEW s \in Seq(Int), NEW t \in Seq(Int), Ascending(s),
         NEW p \in 1 .. Len(s), IsWithout(t, s, p)
  PROVE  Ascending(t)
<1> SUFFICES ASSUME NEW i \in 1 .. Len(t), NEW j \in 1 .. Len(t), i < j
             PROVE  t[i] < t[j]
  BY DEF Ascending
<1>1. i \in 1 .. Len(s) - 1 /\ j \in 1 .. Len(s) - 1
  BY DEF IsWithout
<1>2. t[i] = (IF i < p THEN s[i] ELSE s[i + 1]) /\ t[j] = IF j < p THEN s[j] ELSE s[j + 1]
  BY <1>1 DEF IsWithout
<1>3. i < j /\ i \in 1 .. Len(s) /\ i + 1 \in 1 .. Len(s) /\ j \in 1 .. Len(s) /\ j + 1 \in 1 .. Len(s)
  BY <1>1
<1>4. s[i] < s[j] /\ s[i] < s[j + 1] /\ s[i + 1] < s[j + 1]
  BY <1>3 DEF Ascending
<1>5. CASE j < p
  BY ONLY <1>2, <1>3, <1>4, <1>5, p \in 1 .. Len(s)
<1>6. CASE i < p /\ ~(j < p)
  BY ONLY <1>2, <1>4, <1>6
<1>7. CASE ~(i < p)
  <2>1. ~(j < p)
    BY ONLY <1>3, <1>7, p \in 1 .. Len(s)
  <2> QED
    BY ONLY <1>2, <1>4, <1>7, <2>1
<1> QED
  BY <1>5, <1>6, <1>7

(* So does one with an element replaced by one between its neighbours. *)
LEMMA AscendingAltered ==
  ASSUME NEW s \in Seq(Int), NEW t \in Seq(Int), Ascending(s), NEW e \in Int,
         NEW p \in 1 .. Len(s), IsAltered(t, s, p, e),
         p > 1 => s[p - 1] < e, p < Len(s) => e < s[p + 1]
  PROVE  Ascending(t)
<1>1. \A i \in 1 .. Len(s) : (i < p => s[i] < e) /\ (i > p => e < s[i])
  <2> SUFFICES ASSUME NEW i \in 1 .. Len(s)
               PROVE  (i < p => s[i] < e) /\ (i > p => e < s[i])
    OBVIOUS
  <2>0. s[i] \in Int
    OBVIOUS
  <2>1. CASE i < p - 1
    <3>1. s[i] < s[p - 1] /\ s[p - 1] \in Int /\ s[p - 1] < e
      BY <2>1 DEF Ascending
    <3>2. s[i] < e
      BY ONLY <2>0, <3>1, e \in Int, LessThanLess
    <3> QED
      BY <2>1, <3>2
  <2>2. CASE i > p + 1
    <3>0. p < Len(s) /\ p + 1 \in 1 .. Len(s) /\ p + 1 < i
      BY <2>2
    <3>1. s[p + 1] < s[i] /\ s[p + 1] \in Int /\ e < s[p + 1]
      BY <3>0 DEF Ascending
    <3>2. e < s[i]
      BY ONLY <2>0, <3>1, e \in Int, LessThanLess
    <3> QED
      BY <2>2, <3>2
  <2> QED
    BY <2>1, <2>2
<1> SUFFICES ASSUME NEW i \in 1 .. Len(t), NEW j \in 1 .. Len(t), i < j
             PROVE  t[i] < t[j]
  BY DEF Ascending
<1>3. i \in 1 .. Len(s) /\ j \in 1 .. Len(s)
  BY DEF IsAltered
<1>4. s[i] < s[j]
  BY <1>3 DEF Ascending
<1>6. (i < p => s[i] < e) /\ (j > p => e < s[j])
  BY <1>1, <1>3
<1>5. t[i] = (IF i = p THEN e ELSE s[i]) /\ t[j] = IF j = p THEN e ELSE s[j]
  BY <1>3 DEF IsAltered
<1>7. CASE i = p
  <2>1. j > p
    BY <1>3, <1>7
  <2> QED
    BY ONLY <1>5, <1>6, <1>7, <2>1, i < j
<1>8. CASE j = p
  <2>1. i < p
    BY <1>3, <1>8
  <2> QED
    BY ONLY <1>5, <1>6, <1>8, <2>1, i < j
<1>9. CASE i # p /\ j # p
  BY ONLY <1>4, <1>5, <1>9
<1> QED
  BY <1>7, <1>8, <1>9

-----------------------------------------------------------------------------
(* The sequence operators, in these terms. *)
LEMMA InsertAtIsWith ==
  ASSUME NEW S, NEW s \in Seq(S), NEW p \in 1 .. Len(s) + 1, NEW e \in S
  PROVE  InsertAt(s, p, e) \in Seq(S) /\ IsWith(InsertAt(s, p, e), s, p, e)
<1>1. /\ InsertAt(s, p, e) \in Seq(S)
      /\ Len(InsertAt(s, p, e)) = Len(s) + 1
      /\ \A i \in 1 .. Len(s) + 1 :
           InsertAt(s, p, e)[i] = IF i < p THEN s[i] ELSE IF i = p THEN e ELSE s[i - 1]
  BY InsertAtIsPointwise
<1> QED
  BY ONLY <1>1 DEF IsWith

(* RemoveAt as a relation of two sequences. *)
LEMMA RemoveAtIsWithout ==
  ASSUME NEW S, NEW s \in Seq(S), NEW p \in 1 .. Len(s)
  PROVE  RemoveAt(s, p) \in Seq(S) /\ IsWithout(RemoveAt(s, p), s, p)
<1>1. /\ RemoveAt(s, p) \in Seq(S)
      /\ Len(RemoveAt(s, p)) = Len(s) - 1
      /\ \A i \in 1 .. Len(s) - 1 : RemoveAt(s, p)[i] = IF i < p THEN s[i] ELSE s[i + 1]
  BY RemoveAtIsPointwise
<1> QED
  BY ONLY <1>1 DEF IsWithout

(* EXCEPT as one. *)
LEMMA ExceptIsAltered ==
  ASSUME NEW S, NEW s \in Seq(S), NEW p \in 1 .. Len(s), NEW e \in S
  PROVE  [s EXCEPT ![p] = e] \in Seq(S) /\ IsAltered([s EXCEPT ![p] = e], s, p, e)
  BY DEF IsAltered

(* An element put in front. *)
LEMMA FirstIsWith ==
  ASSUME NEW S, NEW s \in Seq(S), NEW e \in S
  PROVE  <<e>> \o s \in Seq(S) /\ IsWith(<<e>> \o s, s, 1, e)
<1>1. <<e>> \in Seq(S) /\ Len(<<e>>) = 1 /\ <<e>>[1] = e
  OBVIOUS
<1> DEFINE f == <<e>>
<1> HIDE DEF f
<1>2. f \in Seq(S) /\ Len(f) = 1 /\ f[1] = e
  BY <1>1 DEF f
<1>4. Len(s) \in Nat
  OBVIOUS
<1>3. f \o s \in Seq(S) /\ Len(f \o s) = Len(s) + 1
      /\ \A i \in 1 .. Len(s) + 1 : (f \o s)[i] = IF i <= 1 THEN f[i] ELSE s[i - 1]
  <2>1. f \o s \in Seq(S) /\ Len(f \o s) = Len(f) + Len(s)
        /\ \A i \in 1 .. Len(f) + Len(s) : (f \o s)[i] = IF i <= Len(f) THEN f[i] ELSE s[i - Len(f)]
    BY <1>2, ConcatIsPointwise
  <2>2. Len(f) + Len(s) = Len(s) + 1
    BY <1>2, <1>4
  <2> QED
    BY <1>2, <2>1, <2>2
<1>5. IsWith(f \o s, s, 1, e)
  BY <1>2, <1>3, <1>4 DEF IsWith
<1> QED
  BY <1>3, <1>5 DEF f

(* The first element taken away. *)
LEMMA TailIsWithout ==
  ASSUME NEW S, NEW s \in Seq(S), s # << >>
  PROVE  Tail(s) \in Seq(S) /\ IsWithout(Tail(s), s, 1)
  BY TailIsPointwise DEF IsWithout

(* A sequence over a set of numbers is one of numbers. *)
LEMMA SeqOfNumbers ==
  ASSUME NEW K \in SUBSET Int, NEW s \in Seq(K)
  PROVE  s \in Seq(Int) /\ Len(s) \in Nat /\ \A i \in 1 .. Len(s) : s[i] \in Int /\ s[i] \in K
<1>1. s \in Seq(Int)
  BY SeqMonotonic
<1>2. Len(s) \in Nat
  BY <1>1
<1>3. \A i \in 1 .. Len(s) : s[i] \in K
  BY ElementOfSeq
<1> QED
  BY <1>1, <1>2, <1>3

-----------------------------------------------------------------------------
(* The methods of leaves. *)
LEMMA OuterInsertIs ==
  ASSUME NEW K \in SUBSET Int, NEW V, NEW I, NEW n, IsOuter(n, K, V, I),
         NEW k \in K, NEW v \in V, ~HasKey(n, k)
  PROVE  LET r == OuterInsert(n, k, v)  p == Position(n, k) IN
         /\ IsOuter(r, K, V, I) /\ r.next_lef_id = n.next_lef_id
         /\ p \in 1 .. Len(n.keys) + 1
         /\ \A i \in 1 .. Len(n.keys) : n.keys[i] < k <=> i < p
         /\ IsWith(r.keys, n.keys, p, k) /\ IsWith(r.values, n.values, p, v)
<1> DEFINE r == OuterInsert(n, k, v)
           p == Position(n, k)
<1>1. n.keys \in Seq(K) /\ n.keys \in Seq(Int) /\ n.values \in Seq(V) /\ Len(n.values) = Len(n.keys)
      /\ Len(n.keys) \in Nat /\ Ascending(n.keys) /\ k \in Int
  BY SeqOfNumbers DEF IsOuter
<1>2. p \in 1 .. Len(n.keys) + 1 /\ \A i \in 1 .. Len(n.keys) : n.keys[i] < k <=> i < p
  BY <1>1, PositionSplits
<1>3. r = OuterNode(InsertAt(n.keys, p, k), InsertAt(n.values, p, v), n.next_lef_id)
  BY DEF OuterInsert
<1>4. r.keys = InsertAt(n.keys, p, k) /\ r.values = InsertAt(n.values, p, v)
      /\ r.next_lef_id = n.next_lef_id /\ ~r.inner
  BY <1>3 DEF OuterNode
<1> HIDE DEF r, p
<1>5. r.keys \in Seq(K) /\ IsWith(r.keys, n.keys, p, k)
  BY <1>1, <1>2, <1>4, InsertAtIsWith
<1>6. r.values \in Seq(V) /\ IsWith(r.values, n.values, p, v)
  BY <1>1, <1>2, <1>4, InsertAtIsWith
<1>7. p <= Len(n.keys) => k < n.keys[p]
  <2> SUFFICES ASSUME p <= Len(n.keys) PROVE k < n.keys[p]
    OBVIOUS
  <2>1. n.keys[p] # k
    BY DEF HasKey, p
  <2>2. p \in 1 .. Len(n.keys)
    BY <1>1, <1>2
  <2>3. n.keys[p] \in Int /\ ~(n.keys[p] < k)
    BY <1>1, <1>2, <2>2
  <2> QED
    BY <1>1, <2>1, <2>3
<1>8. p > 1 => n.keys[p - 1] < k
  BY <1>1, <1>2
<1>9. Ascending(r.keys)
  <2>1. r.keys \in Seq(Int)
    BY <1>5, SeqOfNumbers
  <2> QED
    BY <1>1, <1>2, <1>5, <1>7, <1>8, <2>1, AscendingWith
<1>10. Len(r.values) = Len(r.keys)
  BY <1>1, <1>5, <1>6 DEF IsWith
<1>11. IsOuter(r, K, V, I)
  BY <1>3, <1>4, <1>5, <1>6, <1>9, <1>10 DEF IsOuter
<1> QED
  BY <1>2, <1>4, <1>5, <1>6, <1>11 DEF r, p

(* BOuterNode::update replaces a value, if the key is there. *)
LEMMA OuterUpdateIs ==
  ASSUME NEW K \in SUBSET Int, NEW V, NEW I, NEW n, IsOuter(n, K, V, I),
         NEW k \in K, NEW v \in V
  PROVE  LET r == OuterUpdate(n, k, v) IN
         /\ IsOuter(r, K, V, I) /\ r.next_lef_id = n.next_lef_id /\ r.keys = n.keys
         /\ IF HasKey(n, k) THEN IsAltered(r.values, n.values, Position(n, k), v)
                            ELSE r.values = n.values
<1> DEFINE r == OuterUpdate(n, k, v)
           p == Position(n, k)
<1>1. n.keys \in Seq(Int) /\ n.values \in Seq(V) /\ Len(n.values) = Len(n.keys)
      /\ Len(n.keys) \in Nat /\ Ascending(n.keys) /\ k \in Int
  BY SeqOfNumbers DEF IsOuter
<1>2. p \in 1 .. Len(n.keys) + 1
  BY <1>1, PositionSplits
<1>3. CASE HasKey(n, k)
  <2>1. r = OuterNode(n.keys, [n.values EXCEPT ![p] = v], n.next_lef_id)
    BY <1>3 DEF OuterUpdate
  <2>2. r.keys = n.keys /\ r.values = [n.values EXCEPT ![p] = v] /\ r.next_lef_id = n.next_lef_id /\ ~r.inner
    BY <2>1 DEF OuterNode
  <2>3. p \in 1 .. Len(n.values)
    BY <1>1, <1>2, <1>3 DEF HasKey
  <2> HIDE DEF r, p
  <2>4. r.values \in Seq(V) /\ IsAltered(r.values, n.values, p, v)
    BY <1>1, <2>2, <2>3, ExceptIsAltered
  <2>5. Len(r.values) = Len(r.keys)
    BY <1>1, <2>2, <2>4 DEF IsAltered
  <2>6. IsOuter(r, K, V, I)
    BY <2>1, <2>2, <2>4, <2>5 DEF IsOuter
  <2> QED
    BY <1>3, <2>2, <2>4, <2>6 DEF r, p
<1>4. CASE ~HasKey(n, k)
  BY <1>4 DEF OuterUpdate
<1> QED
  BY <1>3, <1>4

(* BOuterNode::delete_value takes a key out together with its value. *)
LEMMA OuterDeleteIs ==
  ASSUME NEW K \in SUBSET Int, NEW V, NEW I, NEW n, IsOuter(n, K, V, I),
         NEW k \in K, HasKey(n, k)
  PROVE  LET r == OuterDelete(n, k)  p == Position(n, k) IN
         /\ IsOuter(r, K, V, I) /\ r.next_lef_id = n.next_lef_id
         /\ p \in 1 .. Len(n.keys) /\ n.keys[p] = k
         /\ IsWithout(r.keys, n.keys, p) /\ IsWithout(r.values, n.values, p)
<1> DEFINE r == OuterDelete(n, k)
           p == Position(n, k)
<1>1. n.keys \in Seq(K) /\ n.keys \in Seq(Int) /\ n.values \in Seq(V) /\ Len(n.values) = Len(n.keys)
      /\ Len(n.keys) \in Nat /\ Ascending(n.keys) /\ k \in Int
  BY SeqOfNumbers DEF IsOuter
<1>2. p \in 1 .. Len(n.keys) /\ n.keys[p] = k
  BY <1>1, PositionSplits DEF HasKey
<1>3. r = OuterNode(RemoveAt(n.keys, p), RemoveAt(n.values, p), n.next_lef_id)
  BY DEF OuterDelete
<1>4. r.keys = RemoveAt(n.keys, p) /\ r.values = RemoveAt(n.values, p)
      /\ r.next_lef_id = n.next_lef_id /\ ~r.inner
  BY <1>3 DEF OuterNode
<1> HIDE DEF r, p
<1>5. r.keys \in Seq(K) /\ IsWithout(r.keys, n.keys, p)
  BY <1>1, <1>2, <1>4, RemoveAtIsWithout
<1>6. r.values \in Seq(V) /\ IsWithout(r.values, n.values, p)
  BY <1>1, <1>2, <1>4, RemoveAtIsWithout
<1>7. Ascending(r.keys)
  <2>1. r.keys \in Seq(Int)
    BY <1>5, SeqOfNumbers
  <2> QED
    BY <1>1, <1>2, <1>5, <2>1, AscendingWithout
<1>8. Len(r.values) = Len(r.keys)
  BY <1>1, <1>5, <1>6 DEF IsWithout
<1>9. IsOuter(r, K, V, I)
  BY <1>3, <1>4, <1>5, <1>6, <1>7, <1>8 DEF IsOuter
<1> QED
  BY <1>2, <1>4, <1>5, <1>6, <1>9 DEF r, p

(* The methods of inner nodes. *)
LEMMA InnerInsertIs ==
  ASSUME NEW K \in SUBSET Int, NEW I, NEW n, IsInner(n, K, I),
         NEW k \in K, NEW c \in I, ~HasKey(n, k)
  PROVE  LET r == InnerInsert(n, k, c)  p == Position(n, k) IN
         /\ IsInner(r, K, I)
         /\ p \in 1 .. Len(n.keys) + 1
         /\ \A i \in 1 .. Len(n.keys) : n.keys[i] < k <=> i < p
         /\ IsWith(r.keys, n.keys, p, k) /\ IsWith(r.child_ids, n.child_ids, p + 1, c)
<1> DEFINE r == InnerInsert(n, k, c)
           p == Position(n, k)
<1>1. n.keys \in Seq(K) /\ n.keys \in Seq(Int) /\ n.child_ids \in Seq(I)
      /\ Len(n.child_ids) = Len(n.keys) + 1
      /\ Len(n.keys) \in Nat /\ Ascending(n.keys) /\ k \in Int
  BY SeqOfNumbers DEF IsInner
<1>2. p \in 1 .. Len(n.keys) + 1 /\ \A i \in 1 .. Len(n.keys) : n.keys[i] < k <=> i < p
  BY <1>1, PositionSplits
<1>3. r = InnerNode(InsertAt(n.keys, p, k), InsertAt(n.child_ids, p + 1, c))
  BY DEF InnerInsert
<1>4. r.keys = InsertAt(n.keys, p, k) /\ r.child_ids = InsertAt(n.child_ids, p + 1, c) /\ r.inner
  BY <1>3 DEF InnerNode
<1> HIDE DEF r, p
<1>5. r.keys \in Seq(K) /\ IsWith(r.keys, n.keys, p, k)
  BY <1>1, <1>2, <1>4, InsertAtIsWith
<1>6. r.child_ids \in Seq(I) /\ IsWith(r.child_ids, n.child_ids, p + 1, c)
  <2>1. p + 1 \in 1 .. Len(n.child_ids) + 1
    BY <1>1, <1>2
  <2> QED
    BY <1>1, <2>1, <1>4, InsertAtIsWith
<1>7. p <= Len(n.keys) => k < n.keys[p]
  <2> SUFFICES ASSUME p <= Len(n.keys) PROVE k < n.keys[p]
    OBVIOUS
  <2>1. n.keys[p] # k
    BY DEF HasKey, p
  <2>2. p \in 1 .. Len(n.keys)
    BY <1>1, <1>2
  <2>3. n.keys[p] \in Int /\ ~(n.keys[p] < k)
    BY <1>1, <1>2, <2>2
  <2> QED
    BY <1>1, <2>1, <2>3
<1>8. p > 1 => n.keys[p - 1] < k
  <2> SUFFICES ASSUME p > 1 PROVE n.keys[p - 1] < k
    OBVIOUS
  <2>1. p - 1 \in 1 .. Len(n.keys) /\ p - 1 < p
    BY <1>1, <1>2
  <2> QED
    BY <1>2, <2>1
<1>9. Ascending(r.keys)
  <2>1. r.keys \in Seq(Int)
    BY <1>5, SeqOfNumbers
  <2> QED
    BY <1>1, <1>2, <1>5, <1>7, <1>8, <2>1, AscendingWith
<1>10. Len(r.child_ids) = Len(r.keys) + 1
  BY <1>1, <1>5, <1>6 DEF IsWith
<1>11. IsInner(r, K, I)
  BY <1>4, <1>5, <1>6, <1>9, <1>10 DEF IsInner
<1> QED
  BY <1>2, <1>5, <1>6, <1>11 DEF r, p

(* BInnerNode::insert_first puts a key and a child in front. *)
LEMMA InsertFirstIs ==
  ASSUME NEW K \in SUBSET Int, NEW I, NEW n, IsInner(n, K, I),
         NEW k \in K, NEW c \in I, n.keys # << >> => k < n.keys[1]
  PROVE  LET r == InsertFirst(n, k, c) IN
         /\ IsInner(r, K, I)
         /\ IsWith(r.keys, n.keys, 1, k) /\ IsWith(r.child_ids, n.child_ids, 1, c)
<1> DEFINE r == InsertFirst(n, k, c)
<1>1. n.keys \in Seq(K) /\ n.keys \in Seq(Int) /\ n.child_ids \in Seq(I)
      /\ Len(n.child_ids) = Len(n.keys) + 1
      /\ Len(n.keys) \in Nat /\ Ascending(n.keys) /\ k \in Int
  BY SeqOfNumbers DEF IsInner
<1>2. r.keys = <<k>> \o n.keys /\ r.child_ids = <<c>> \o n.child_ids /\ r.inner
  BY DEF InsertFirst, InnerNode
<1> HIDE DEF r
<1>3. r.keys \in Seq(K) /\ IsWith(r.keys, n.keys, 1, k)
  BY <1>1, <1>2, FirstIsWith
<1>4. r.child_ids \in Seq(I) /\ IsWith(r.child_ids, n.child_ids, 1, c)
  BY <1>1, <1>2, FirstIsWith
<1>5. 1 <= Len(n.keys) => k < n.keys[1]
  BY <1>1
<1>6. Ascending(r.keys)
  <2>1. r.keys \in Seq(Int) /\ 1 \in 1 .. Len(n.keys) + 1
    BY <1>1, <1>3, SeqOfNumbers
  <2> QED
    BY <1>1, <1>3, <1>5, <2>1, AscendingWith
<1>7. Len(r.child_ids) = Len(r.keys) + 1
  BY <1>1, <1>3, <1>4 DEF IsWith
<1> QED
  BY <1>2, <1>3, <1>4, <1>6, <1>7 DEF r, IsInner

(* BInnerNode::delete_value takes out a key and the child to its right. *)
LEMMA InnerDeleteIs ==
  ASSUME NEW K \in SUBSET Int, NEW I, NEW n, IsInner(n, K, I),
         NEW p \in 1 .. Len(n.keys)
  PROVE  LET r == InnerDelete(n, n.keys[p]) IN
         /\ IsInner(r, K, I)
         /\ IsWithout(r.keys, n.keys, p) /\ IsWithout(r.child_ids, n.child_ids, p + 1)
<1> DEFINE r == InnerDelete(n, n.keys[p])
<1>1. n.keys \in Seq(K) /\ n.keys \in Seq(Int) /\ n.child_ids \in Seq(I)
      /\ Len(n.child_ids) = Len(n.keys) + 1
      /\ Len(n.keys) \in Nat /\ Ascending(n.keys)
  BY SeqOfNumbers DEF IsInner
<1>2. Position(n, n.keys[p]) = p /\ HasKey(n, n.keys[p])
  BY <1>1, PositionOfKey
<1>3. r = InnerNode(RemoveAt(n.keys, p), RemoveAt(n.child_ids, p + 1))
  BY <1>2 DEF InnerDelete
<1>4. r.keys = RemoveAt(n.keys, p) /\ r.child_ids = RemoveAt(n.child_ids, p + 1) /\ r.inner
  BY <1>3 DEF InnerNode
<1> HIDE DEF r
<1>5. r.keys \in Seq(K) /\ IsWithout(r.keys, n.keys, p)
  BY <1>1, <1>4, RemoveAtIsWithout
<1>6. r.child_ids \in Seq(I) /\ IsWithout(r.child_ids, n.child_ids, p + 1)
  <2>1. p + 1 \in 1 .. Len(n.child_ids)
    BY <1>1
  <2> QED
    BY <1>1, <2>1, <1>4, RemoveAtIsWithout
<1>7. Ascending(r.keys)
  <2>1. r.keys \in Seq(Int)
    BY <1>5, SeqOfNumbers
  <2> QED
    BY <1>1, <1>5, <2>1, AscendingWithout
<1>8. Len(r.child_ids) = Len(r.keys) + 1
  BY <1>1, <1>5, <1>6 DEF IsWithout
<1> QED
  BY <1>4, <1>5, <1>6, <1>7, <1>8 DEF r, IsInner

(* BInnerNode::delete_first_pair takes out the first key and the first     *)
(* child.                                                                  *)
LEMMA DeleteFirstPairIs ==
  ASSUME NEW K \in SUBSET Int, NEW I, NEW n, IsInner(n, K, I), n.keys # << >>
  PROVE  LET r == DeleteFirstPair(n) IN
         /\ IsInner(r, K, I)
         /\ IsWithout(r.keys, n.keys, 1) /\ IsWithout(r.child_ids, n.child_ids, 1)
<1> DEFINE r == DeleteFirstPair(n)
<1>1. n.keys \in Seq(K) /\ n.keys \in Seq(Int) /\ n.child_ids \in Seq(I)
      /\ Len(n.child_ids) = Len(n.keys) + 1
      /\ Len(n.keys) \in Nat /\ Ascending(n.keys)
  BY SeqOfNumbers DEF IsInner
<1>2. r.keys = Tail(n.keys) /\ r.child_ids = Tail(n.child_ids) /\ r.inner
  BY DEF DeleteFirstPair, InnerNode
<1> HIDE DEF r
<1>3. n.child_ids # << >> /\ 1 \in 1 .. Len(n.keys)
  BY <1>1
<1>4. r.keys \in Seq(K) /\ IsWithout(r.keys, n.keys, 1)
  BY <1>1, <1>2, TailIsWithout
<1>5. r.child_ids \in Seq(I) /\ IsWithout(r.child_ids, n.child_ids, 1)
  BY <1>1, <1>2, <1>3, TailIsWithout
<1>6. Ascending(r.keys)
  <2>1. r.keys \in Seq(Int)
    BY <1>4, SeqOfNumbers
  <2> QED
    BY <1>1, <1>3, <1>4, <2>1, AscendingWithout
<1>7. Len(r.child_ids) = Len(r.keys) + 1
  BY <1>1, <1>4, <1>5 DEF IsWithout
<1> QED
  BY <1>2, <1>4, <1>5, <1>6, <1>7 DEF r, IsInner

(* A separator is replaced by one between its neighbours. *)
LEMMA WithKeyIs ==
  ASSUME NEW K \in SUBSET Int, NEW I, NEW n, IsInner(n, K, I),
         NEW p \in 1 .. Len(n.keys), NEW k \in K,
         p > 1 => n.keys[p - 1] < k, p < Len(n.keys) => k < n.keys[p + 1]
  PROVE  LET r == WithKey(n, p, k) IN
         IsInner(r, K, I) /\ IsAltered(r.keys, n.keys, p, k) /\ r.child_ids = n.child_ids
<1> DEFINE r == WithKey(n, p, k)
<1>1. n.keys \in Seq(K) /\ n.keys \in Seq(Int) /\ n.child_ids \in Seq(I)
      /\ Len(n.child_ids) = Len(n.keys) + 1
      /\ Len(n.keys) \in Nat /\ Ascending(n.keys) /\ k \in Int
  BY SeqOfNumbers DEF IsInner
<1>2. r.keys = [n.keys EXCEPT ![p] = k] /\ r.child_ids = n.child_ids /\ r.inner
  BY DEF WithKey, InnerNode
<1> HIDE DEF r
<1>3. r.keys \in Seq(K) /\ IsAltered(r.keys, n.keys, p, k)
  BY <1>1, <1>2, ExceptIsAltered
<1>4. Ascending(r.keys)
  <2>1. r.keys \in Seq(Int)
    BY <1>3, SeqOfNumbers
  <2> QED
    BY <1>1, <1>3, <2>1, AscendingAltered
<1>5. Len(r.child_ids) = Len(r.keys) + 1
  BY <1>1, <1>2, <1>3 DEF IsAltered
<1> QED
  BY <1>1, <1>2, <1>3, <1>4, <1>5 DEF r, IsInner

-----------------------------------------------------------------------------
(* The labels of pages. *)

(* Above all keys: the end of the last span. *)
Top == CHOOSE t \in Nat : \A k \in Keys : k < t

(* What a node is on its own; its size is a matter of the whole tree.      *)
ShapeOK(n) ==
  /\ n.inner \in BOOLEAN
  /\ n.inner => IsInner(n, Keys, PageIds)
  /\ ~n.inner => IsOuter(n, Keys, Values, PageIds)
Shapes(pg) == \A x \in DOMAIN pg : ShapeOK(pg[x])

Labels(lo, hi, h) == lo \in [PageIds -> Int] /\ hi \in [PageIds -> Int] /\ h \in [PageIds -> Nat]
Spans(D, lo, hi) == \A x \in D : -1 <= lo[x] /\ lo[x] < hi[x] /\ hi[x] <= Top

(* Two spans have no key in common, or one lies in the other, which is     *)
(* higher up.                                                              *)
Apart(lo, hi, x, y) == hi[x] <= lo[y] \/ hi[y] <= lo[x]
Below_(lo, hi, h, x, y) == h[x] < h[y] /\ lo[y] <= lo[x] /\ hi[x] <= hi[y]
Laminar(D, lo, hi, h) ==
  \A x, y \in D : x # y /\ h[x] <= h[y] => Apart(lo, hi, x, y) \/ Below_(lo, hi, h, x, y)

(* The ends of the spans of an inner node's children. *)
Cut(n, a, b, i) == IF i = 0 THEN a ELSE IF i = Len(n.keys) + 1 THEN b ELSE n.keys[i]

(* Child c of a node is on a page, one level lower, between its cuts.  *)
Link(D, lo, hi, h, c, a, b, t) == c \in D /\ t = h[c] + 1 /\ lo[c] = a /\ hi[c] = b
LinksOK(D, lo, hi, h, n, a, b, t) ==
  \A i \in 1 .. Len(n.keys) + 1 :
    Link(D, lo, hi, h, n.child_ids[i], Cut(n, a, b, i - 1), Cut(n, a, b, i), t)
Links(pg, lo, hi, h) ==
  \A x \in DOMAIN pg : pg[x].inner => LinksOK(DOMAIN pg, lo, hi, h, pg[x], lo[x], hi[x], h[x])

(* A leaf's keys are in its span, and the end of the span is its last key, *)
(* except in the last leaf.                                                *)
KeysOK(n, a, b) ==
  /\ \A i \in 1 .. Len(n.keys) : a < n.keys[i] /\ n.keys[i] <= b
  /\ b # Top => Len(n.keys) > 0 /\ n.keys[Len(n.keys)] = b
(* The odd leaf, from ExchangeKey to DeleteAtLeaf, ends with the key k to  *)
(* be deleted, behind its span.                                            *)
OddKeysOK(n, a, b, k) ==
  /\ Len(n.keys) > 1 /\ b < k
  /\ n.keys[Len(n.keys)] = k /\ n.keys[Len(n.keys) - 1] = b
  /\ \A i \in 1 .. Len(n.keys) : a < n.keys[i]
(* The next leaf is the one whose span begins where this one's ends. *)
NextOK(D, lo, h, next, b) ==
  IF next = 0 THEN b = Top ELSE next \in D /\ h[next] = 0 /\ lo[next] = b
LeafOK(D, lo, h, n, a, b, t, isOdd, k) ==
  /\ t = 0
  /\ ~isOdd => KeysOK(n, a, b)
  /\ isOdd => OddKeysOK(n, a, b, k)
  /\ NextOK(D, lo, h, n.next_lef_id, b)
Leaves(pg, lo, hi, h, odd, k) ==
  \A x \in DOMAIN pg : ~pg[x].inner =>
    LeafOK(DOMAIN pg, lo, h, pg[x], lo[x], hi[x], h[x], x = odd, k)

(* No other leaf has a key between the odd leaf's last key but one and the *)
(* odd key, or the odd key itself.                                         *)
OddOK(pg, hi, odd, k) ==
  odd # 0 =>
    /\ odd \in DOMAIN pg /\ ~pg[odd].inner
    /\ \A x \in DOMAIN pg : ~pg[x].inner /\ x # odd =>
         \A i \in 1 .. Len(pg[x].keys) : pg[x].keys[i] <= hi[odd] \/ k < pg[x].keys[i]

RootOK(D, root, lo, hi, h) ==
  root \in D /\ lo[root] = -1 /\ hi[root] = Top /\ \A x \in D : h[x] <= h[root]

(* The search tree without the leaves' entries, and with them.  How many   *)
(* entries a node may have is said apart: a step may be put together from  *)
(* two that pass through a node too big.                                   *)
Skeleton(pg, lo, hi, h) ==
  /\ DOMAIN pg \subseteq PageIds /\ Shapes(pg)
  /\ Labels(lo, hi, h) /\ Spans(DOMAIN pg, lo, hi) /\ Laminar(DOMAIN pg, lo, hi, h)
  /\ Links(pg, lo, hi, h)
Tree(pg, root, lo, hi, h, odd, k) ==
  /\ Skeleton(pg, lo, hi, h) /\ RootOK(DOMAIN pg, root, lo, hi, h)
  /\ Leaves(pg, lo, hi, h, odd, k) /\ OddOK(pg, hi, odd, k)

Sized(pg, root) ==
  \A x \in DOMAIN pg : Len(pg[x].keys) <= MaxSize(pg[x]) /\ (x # root => ~IsTooEmpty(pg[x]))

-----------------------------------------------------------------------------
(* Finitely many numbers are bounded: the smallest set that was not would  *)
(* have a smaller one in it.                                               *)
LEMMA FiniteIsBounded ==
  ASSUME NEW S \in SUBSET Nat, IsFiniteSet(S)
  PROVE  \E t \in Nat : \A k \in S : k < t
<1> DEFINE Bounded(A) == \E t \in Nat : \A k \in A : k < t
           T == {m \in Nat : \E A \in SUBSET S : Cardinality(A) = m /\ ~Bounded(A)}
<1>1. SUFFICES ASSUME ~Bounded(S) PROVE FALSE
  OBVIOUS
<1>2. \A A \in SUBSET S : IsFiniteSet(A) /\ Cardinality(A) \in Nat
  BY FS_Subset, FS_CardinalityType
<1>3. T \in SUBSET Nat /\ T # {}
  BY <1>1, <1>2
<1>4. PICK m \in T : \A t \in T : m <= t
  <2> HIDE DEF T
  <2> QED
    BY <1>3, LeastNumber
<1>5. PICK A \in SUBSET S : Cardinality(A) = m /\ ~Bounded(A)
  BY <1>4
<1>6. PICK x \in A : TRUE
  <2>1. A # {}
    <3>1. SUFFICES ASSUME A = {} PROVE FALSE
      OBVIOUS
    <3>2. 0 \in Nat /\ \A k \in A : k < 0
      BY <3>1
    <3> QED
      BY <1>5, <3>2
  <2> QED
    BY <2>1
<1>7. IsFiniteSet(A \ {x}) /\ Cardinality(A \ {x}) = m - 1
  BY <1>2, <1>5, <1>6, FS_RemoveElement
<1>8. ~Bounded(A \ {x})
  <2>1. SUFFICES ASSUME NEW t \in Nat, \A k \in A \ {x} : k < t PROVE FALSE
    OBVIOUS
  <2>2. x \in Nat
    BY <1>6
  <2>3. t + x + 1 \in Nat /\ \A k \in A : k < t + x + 1
    <3>1. ASSUME NEW k \in A PROVE k < t + x + 1
      <4>1. CASE k = x
        BY <2>2, <4>1
      <4>2. CASE k # x
        <5>1. k < t /\ k \in Nat
          BY <2>1, <4>2
        <5> QED
          BY <2>2, <5>1
      <4> QED
        BY <4>1, <4>2
    <3> QED
      BY <2>2, <3>1
  <2> QED
    BY <1>5, <2>3
<1>9. m - 1 \in T
  <2>1. A \ {x} \in SUBSET S /\ Cardinality(A \ {x}) \in Nat
    BY <1>2
  <2> QED
    BY <1>7, <1>8, <2>1
<1> QED
  BY <1>4, <1>9

(* Keys are bounded, as they are finitely many. *)
LEMMA TopIsAbove == Top \in Nat /\ \A k \in Keys : k < Top
<1>1. Keys \in SUBSET Nat /\ IsFiniteSet(Keys)
  BY KeysAreNumbers
<1>2. \E t \in Nat : \A k \in Keys : k < t
  BY <1>1, FiniteIsBounded
<1> QED
  BY <1>2 DEF Top

(* Keys lie between the ends of the first and the last span. *)
LEMMA KeysAreInts == Keys \in SUBSET Int /\ \A k \in Keys : -1 < k /\ k < Top
  BY KeysAreNumbers, TopIsAbove

-----------------------------------------------------------------------------
(* One node of a sound tree. *)

(* The cuts of an inner node ascend from the one end of its span to the    *)
(* other.                                                                  *)
LEMMA CutsAscend ==
  ASSUME NEW D, NEW lo, NEW hi, NEW h, Spans(D, lo, hi),
         \A x \in D : lo[x] \in Int /\ hi[x] \in Int,
         NEW n, IsInner(n, Keys, PageIds), NEW a \in Int, NEW b \in Int, NEW t,
         LinksOK(D, lo, hi, h, n, a, b, t), NEW i \in 1 .. Len(n.keys) + 1
  PROVE  /\ Cut(n, a, b, i - 1) \in Int /\ Cut(n, a, b, i) \in Int
         /\ a <= Cut(n, a, b, i - 1) /\ Cut(n, a, b, i - 1) < Cut(n, a, b, i) /\ Cut(n, a, b, i) <= b
<1> DEFINE len == Len(n.keys)
           c(j) == n.child_ids[j]
<1>1. n.keys \in Seq(Int) /\ len \in Nat /\ Ascending(n.keys) /\ \A j \in 1 .. len : n.keys[j] \in Int
  BY KeysAreInts, SeqOfNumbers DEF IsInner
<1>2. \A j \in 1 .. len + 1 : Cut(n, a, b, j - 1) < Cut(n, a, b, j)
  BY DEF LinksOK, Link, Spans
<1>3. \A j \in 0 .. len + 1 : Cut(n, a, b, j) = IF j = 0 THEN a ELSE IF j = len + 1 THEN b ELSE n.keys[j]
  BY DEF Cut
<1> HIDE DEF len
<1>4. i - 1 \in 0 .. len + 1 /\ i \in 0 .. len + 1 /\ 1 \in 0 .. len + 1 /\ len \in 0 .. len + 1
      /\ i \in 1 .. len + 1 /\ 1 \in 1 .. len + 1 /\ len + 1 \in 1 .. len + 1 /\ 0 \in 0 .. len + 1
      /\ len + 1 \in 0 .. len + 1
  BY <1>1 DEF len
<1>5. Cut(n, a, b, i - 1) \in Int /\ Cut(n, a, b, i) \in Int
  BY <1>1, <1>3, <1>4
<1>6. a <= Cut(n, a, b, i - 1)
  <2>1. CASE i = 1
    BY <2>1, <1>3, <1>4
  <2>2. CASE i > 1
    <3>1. i - 1 \in 1 .. len /\ 1 \in 1 .. len
      BY <2>2, <1>1, <1>4
    <3>2. n.keys[1] <= n.keys[i - 1]
      BY <3>1, <1>1, AscendingWeakly DEF len
    <3>3. a < n.keys[1]
      BY <1>2, <1>3, <1>4, <3>1
    <3>4. Cut(n, a, b, i - 1) = n.keys[i - 1]
      BY <3>1, <1>3, <1>4
    <3> QED
      BY <3>1, <3>2, <3>3, <3>4, <1>1
  <2> QED
    BY <2>1, <2>2, <1>4
<1>7. Cut(n, a, b, i) <= b
  <2>1. CASE i = len + 1
    BY <2>1, <1>3, <1>4, <1>1
  <2>2. CASE i < len + 1
    <3>1. i \in 1 .. len /\ len \in 1 .. len
      BY <2>2, <1>1, <1>4
    <3>2. n.keys[i] <= n.keys[len]
      <4>1. n.keys \in Seq(Int) /\ Ascending(n.keys) /\ i \in 1 .. Len(n.keys)
            /\ len \in 1 .. Len(n.keys) /\ i <= len
        BY <3>1, <1>1 DEF len
      <4> QED
        BY <4>1, AscendingWeakly
    <3>3. n.keys[len] < b
      <4>1. Cut(n, a, b, (len + 1) - 1) < Cut(n, a, b, len + 1)
        BY <1>2, <1>4
      <4>2. (len + 1) - 1 = len
        BY <1>1
      <4>3. Cut(n, a, b, len) = n.keys[len] /\ Cut(n, a, b, len + 1) = b
        BY <1>3, <1>4, <1>1, <3>1
      <4> QED
        BY <4>1, <4>2, <4>3
    <3>4. Cut(n, a, b, i) = n.keys[i]
      BY <3>1, <1>3, <1>4
    <3> QED
      BY <3>1, <3>2, <3>3, <3>4, <1>1
  <2> QED
    BY <2>1, <2>2, <1>4, <1>1
<1> QED
  BY <1>2, <1>4, <1>5, <1>6, <1>7

(* A child's span lies in its parent's. *)
ChildAt(pg, x, i) == pg[x].child_ids[i]
(* A child is one level lower, and its span is between the cuts. *)
LEMMA ChildIsBelow ==
  ASSUME NEW pg, NEW lo, NEW hi, NEW h, Skeleton(pg, lo, hi, h),
         NEW x \in DOMAIN pg, pg[x].inner, NEW i \in 1 .. Len(pg[x].keys) + 1
  PROVE  LET c == ChildAt(pg, x, i)
             left == Cut(pg[x], lo[x], hi[x], i - 1)
             right == Cut(pg[x], lo[x], hi[x], i)
         IN  /\ c \in DOMAIN pg /\ h[x] = h[c] + 1 /\ lo[c] = left /\ hi[c] = right
             /\ lo[x] <= left /\ left < right /\ right <= hi[x]
<1> USE DEF Skeleton
<1>1. IsInner(pg[x], Keys, PageIds)
  BY DEF Shapes, ShapeOK
<1>2. LinksOK(DOMAIN pg, lo, hi, h, pg[x], lo[x], hi[x], h[x])
  BY DEF Links
<1>3. \A y \in DOMAIN pg : lo[y] \in Int /\ hi[y] \in Int
  BY DEF Labels
<1>4. /\ lo[x] <= Cut(pg[x], lo[x], hi[x], i - 1)
      /\ Cut(pg[x], lo[x], hi[x], i - 1) < Cut(pg[x], lo[x], hi[x], i)
      /\ Cut(pg[x], lo[x], hi[x], i) <= hi[x]
  BY <1>1, <1>2, <1>3, CutsAscend
<1>5. Link(DOMAIN pg, lo, hi, h, pg[x].child_ids[i], Cut(pg[x], lo[x], hi[x], i - 1),
           Cut(pg[x], lo[x], hi[x], i), h[x])
  BY <1>2 DEF LinksOK
<1> QED
  BY <1>4, <1>5 DEF ChildAt, Link

(* A page is the child of one node only, and once only. *)
LEMMA OnlyParent ==
  ASSUME NEW pg, NEW lo, NEW hi, NEW h, Skeleton(pg, lo, hi, h),
         NEW x \in DOMAIN pg, pg[x].inner, NEW i \in 1 .. Len(pg[x].keys) + 1,
         NEW y \in DOMAIN pg, pg[y].inner, NEW j \in 1 .. Len(pg[y].keys) + 1,
         ChildAt(pg, x, i) = ChildAt(pg, y, j)
  PROVE  x = y /\ i = j
<1> USE DEF Skeleton
<1> DEFINE c == ChildAt(pg, x, i)
<1>1. /\ c \in DOMAIN pg /\ h[x] = h[c] + 1 /\ lo[x] <= lo[c] /\ lo[c] < hi[c] /\ hi[c] <= hi[x]
      /\ lo[c] = Cut(pg[x], lo[x], hi[x], i - 1) /\ hi[c] = Cut(pg[x], lo[x], hi[x], i)
  BY ChildIsBelow
<1>2. /\ h[y] = h[c] + 1 /\ lo[y] <= lo[c] /\ hi[c] <= hi[y]
      /\ lo[c] = Cut(pg[y], lo[y], hi[y], j - 1) /\ hi[c] = Cut(pg[y], lo[y], hi[y], j)
  BY ChildIsBelow
<1> HIDE DEF c
<1>3. \A z \in DOMAIN pg : lo[z] \in Int /\ hi[z] \in Int /\ h[z] \in Nat
  BY DEF Labels
<1>4. x = y
  <2>1. SUFFICES ASSUME x # y PROVE FALSE
    OBVIOUS
  <2>2. h[x] = h[y]
    BY <1>1, <1>2
  <2>3. Apart(lo, hi, x, y) \/ Below_(lo, hi, h, x, y)
    BY <1>3, <2>1, <2>2 DEF Laminar
  <2>4. ~Below_(lo, hi, h, x, y)
    BY <1>3, <2>2 DEF Below_
  <2>5. ~Apart(lo, hi, x, y)
    <3>1. lo[x] \in Int /\ hi[x] \in Int /\ lo[y] \in Int /\ hi[y] \in Int /\ lo[c] \in Int /\ hi[c] \in Int
      BY <1>1, <1>3
    <3>2. lo[x] <= lo[c] /\ lo[c] < hi[c] /\ hi[c] <= hi[x] /\ lo[y] <= lo[c] /\ hi[c] <= hi[y]
      BY <1>1, <1>2
    <3> QED
      BY <3>1, <3>2 DEF Apart
  <2> QED
    BY <2>3, <2>4, <2>5
<1>5. i = j
  <2> DEFINE n == pg[x]
             len == Len(n.keys)
  <2>1. n.keys \in Seq(Int) /\ len \in Nat /\ Ascending(n.keys) /\ \A q \in 1 .. len : n.keys[q] \in Int
    BY KeysAreInts, SeqOfNumbers DEF IsInner, Shapes, ShapeOK
  <2>2. \A q, r \in 1 .. len + 1 : q < r => Cut(n, lo[x], hi[x], q) < Cut(n, lo[x], hi[x], r)
    <3> SUFFICES ASSUME NEW q \in 1 .. len + 1, NEW r \in 1 .. len + 1, q < r
                 PROVE  Cut(n, lo[x], hi[x], q) < Cut(n, lo[x], hi[x], r)
      OBVIOUS
    <3>1. q \in 1 .. len /\ q + 1 \in 1 .. len + 1
      BY <2>1
    <3>2. Cut(n, lo[x], hi[x], q) = n.keys[q] /\ n.keys[q] \in Int
      BY <2>1, <3>1 DEF Cut
    <3>3. CASE r = len + 1
      <4>1. Cut(n, lo[x], hi[x], (q + 1) - 1) < Cut(n, lo[x], hi[x], q + 1)
            /\ Cut(n, lo[x], hi[x], q + 1) <= hi[x]
        BY <3>1, ChildIsBelow
      <4>2. (q + 1) - 1 = q
        BY <3>1
      <4>3. Cut(n, lo[x], hi[x], r) = hi[x] /\ hi[x] \in Int
        BY <3>3, <1>3, <2>1 DEF Cut
      <4>4. Cut(n, lo[x], hi[x], q + 1) \in Int
        BY <3>1, <2>1, <1>3 DEF Cut
      <4>5. Cut(n, lo[x], hi[x], q) < Cut(n, lo[x], hi[x], q + 1) /\ Cut(n, lo[x], hi[x], q + 1) <= hi[x]
        BY <4>1, <4>2
      <4>6. Cut(n, lo[x], hi[x], q) \in Int
        BY <3>2
      <4> DEFINE u == Cut(n, lo[x], hi[x], q)
                 v == Cut(n, lo[x], hi[x], q + 1)
                 w == Cut(n, lo[x], hi[x], r)
      <4>7. u \in Int /\ v \in Int /\ w \in Int /\ u < v /\ v <= w
        BY <4>3, <4>4, <4>5, <4>6
      <4> HIDE DEF u, v, w
      <4>8. u < w
        BY <4>7
      <4> QED
        BY <4>8 DEF u, w
    <3>4. CASE r < len + 1
      <4>1. r \in 1 .. len
        BY <3>4, <2>1
      <4>2. Cut(n, lo[x], hi[x], r) = n.keys[r]
        BY <4>1, <2>1 DEF Cut
      <4>3. n.keys[q] < n.keys[r]
        BY <2>1, <3>1, <4>1 DEF Ascending
      <4> QED
        BY <3>2, <4>2, <4>3
    <3>5. r = len + 1 \/ r < len + 1
      <4> HIDE DEF len
      <4> QED
        BY <2>1
    <3> QED
      BY <3>3, <3>4, <3>5
  <2>3. Cut(n, lo[x], hi[x], i) = Cut(n, lo[x], hi[x], j) /\ Cut(n, lo[x], hi[x], i) \in Int
    BY <1>1, <1>2, <1>3, <1>4
  <2>4. i \in 1 .. len + 1 /\ j \in 1 .. len + 1
    BY <1>4
  <2> HIDE DEF n, len
  <2>5. ~(i < j) /\ ~(j < i)
    BY <2>2, <2>3, <2>4
  <2> QED
    BY <2>1, <2>4, <2>5
<1> QED
  BY <1>4, <1>5

(* Two pages of one height have no key in common. *)
LEMMA OneHolder ==
  ASSUME NEW D, D \subseteq PageIds, NEW lo, NEW hi, NEW h, Labels(lo, hi, h),
         Laminar(D, lo, hi, h), NEW x \in D, NEW y \in D, h[x] = h[y], NEW v \in Int,
         lo[x] < v, v <= hi[x], lo[y] < v, v <= hi[y]
  PROVE  x = y
<1>1. SUFFICES ASSUME x # y PROVE FALSE
  OBVIOUS
<1>2. lo[x] \in Int /\ hi[x] \in Int /\ lo[y] \in Int /\ hi[y] \in Int /\ h[x] \in Nat /\ h[y] \in Nat
  BY DEF Labels
<1>3. Apart(lo, hi, x, y) \/ Below_(lo, hi, h, x, y)
  BY <1>1, <1>2 DEF Laminar
<1>4. ~Below_(lo, hi, h, x, y)
  BY <1>2 DEF Below_
<1> QED
  BY <1>2, <1>3, <1>4 DEF Apart

(* On one level, no two spans begin or end alike. *)
LEMMA OneEnd ==
  ASSUME NEW D, D \subseteq PageIds, NEW lo, NEW hi, NEW h, Labels(lo, hi, h),
         Spans(D, lo, hi), Laminar(D, lo, hi, h), NEW x \in D, NEW y \in D, h[x] = h[y],
         hi[x] = hi[y] \/ lo[x] = lo[y]
  PROVE  x = y
<1>1. lo[x] \in Int /\ hi[x] \in Int /\ lo[y] \in Int /\ hi[y] \in Int
  BY DEF Labels
<1>2. lo[x] < hi[x] /\ lo[y] < hi[y]
  BY DEF Spans
<1>3. CASE hi[x] = hi[y]
  BY <1>1, <1>2, <1>3, OneHolder
<1>4. CASE lo[x] = lo[y]
  <2>1. lo[x] + 1 \in Int /\ lo[x] < lo[x] + 1 /\ lo[x] + 1 <= hi[x] /\ lo[y] < lo[x] + 1 /\ lo[x] + 1 <= hi[y]
    BY <1>1, <1>2, <1>4
  <2> QED
    BY <2>1, OneHolder
<1> QED
  BY <1>3, <1>4


(* The search in an inner node leads to the child whose span has the key. *)
LEMMA Routing ==
  ASSUME NEW pg, NEW lo, NEW hi, NEW h, Skeleton(pg, lo, hi, h),
         NEW x \in DOMAIN pg, pg[x].inner, NEW k \in Int, lo[x] < k
  PROVE  LET p == Position(pg[x], k)
             c == NextPage(pg[x], k)
         IN  /\ p \in 1 .. Len(pg[x].keys) + 1 /\ c = ChildAt(pg, x, p)
             /\ c \in DOMAIN pg /\ h[x] = h[c] + 1 /\ lo[x] <= lo[c] /\ hi[c] <= hi[x]
             /\ lo[c] = Cut(pg[x], lo[x], hi[x], p - 1) /\ hi[c] = Cut(pg[x], lo[x], hi[x], p)
             /\ lo[c] < k
             /\ k <= hi[x] => k <= hi[c]
             /\ ~HasKey(pg[x], k) /\ k < hi[x] => k < hi[c]
             /\ HasKey(pg[x], k) => hi[c] = k /\ p <= Len(pg[x].keys)
             /\ hi[x] < k => p = Len(pg[x].keys) + 1 /\ hi[c] = hi[x] /\ ~HasKey(pg[x], k)
<1> USE DEF Skeleton
<1> DEFINE n == pg[x]
           len == Len(n.keys)
           p == Position(n, k)
           c == ChildAt(pg, x, p)
<1>1. n.keys \in Seq(Int) /\ len \in Nat /\ Ascending(n.keys) /\ \A i \in 1 .. len : n.keys[i] \in Int
  BY KeysAreInts, SeqOfNumbers DEF IsInner, Shapes, ShapeOK
<1>2. p \in 1 .. len + 1 /\ \A i \in 1 .. len : n.keys[i] < k <=> i < p
  BY <1>1, PositionSplits
<1>3. /\ c \in DOMAIN pg /\ h[x] = h[c] + 1 /\ lo[x] <= lo[c] /\ hi[c] <= hi[x]
      /\ lo[c] = Cut(n, lo[x], hi[x], p - 1) /\ hi[c] = Cut(n, lo[x], hi[x], p)
  BY <1>2, ChildIsBelow
<1>4. NextPage(n, k) = c
  BY DEF NextPage, ChildAt
<1>5. \A j \in 0 .. len + 1 :
        Cut(n, lo[x], hi[x], j) = IF j = 0 THEN lo[x] ELSE IF j = len + 1 THEN hi[x] ELSE n.keys[j]
  BY DEF Cut
<1>6. lo[x] \in Int /\ hi[x] \in Int
  BY DEF Labels
<1>7. HasKey(n, k) <=> p <= len /\ n.keys[p] = k
  BY DEF HasKey
<1>8. \A j \in 1 .. len + 1 : Cut(n, lo[x], hi[x], j - 1) < Cut(n, lo[x], hi[x], j)
        /\ Cut(n, lo[x], hi[x], j) <= hi[x]
  BY ChildIsBelow
<1> HIDE DEF n, len, p, c
<1>9. lo[c] < k
  <2>1. CASE p = 1
    BY <1>1, <1>2, <1>3, <1>5, <2>1
  <2>2. CASE p > 1
    <3>1. p - 1 \in 1 .. len /\ p - 1 \in 0 .. len + 1 /\ p - 1 # 0 /\ p - 1 # len + 1 /\ p - 1 < p
      BY <1>1, <1>2, <2>2
    <3>2. lo[c] = n.keys[p - 1] /\ n.keys[p - 1] < k
      BY <1>2, <1>3, <1>5, <3>1
    <3> QED
      BY <3>2
  <2> QED
    BY <1>1, <1>2, <2>1, <2>2
<1>10. CASE p <= len
  <2>1. p \in 1 .. len /\ p \in 0 .. len + 1 /\ p # 0 /\ p # len + 1 /\ ~(p < p)
    BY <1>1, <1>2, <1>10
  <2>2. hi[c] = n.keys[p] /\ ~(n.keys[p] < k) /\ n.keys[p] \in Int
    BY <1>1, <1>2, <1>3, <1>5, <2>1
  <2>3. n.keys[p] <= hi[x]
    BY <1>3, <2>2
  <2>4. k <= hi[c] /\ (~HasKey(n, k) => k < hi[c]) /\ (HasKey(n, k) => hi[c] = k) /\ k <= hi[x]
    BY <1>6, <1>7, <1>10, <2>2, <2>3
  <2>5. ~(hi[x] < k)
    BY <2>4, <1>6
  <2> QED
    BY <1>2, <1>3, <1>4, <1>9, <1>10, <2>4, <2>5 DEF n, len, p, c
<1>11. CASE p = len + 1
  <2>1. hi[c] = hi[x]
    BY <1>1, <1>3, <1>5, <1>11
  <2>2. ~HasKey(n, k)
    BY <1>1, <1>7, <1>11
  <2> QED
    BY <1>2, <1>3, <1>4, <1>9, <1>11, <2>1, <2>2 DEF n, len, p, c
<1>12. p <= len \/ p = len + 1
  BY <1>1, <1>2
<1> QED
  BY <1>10, <1>11, <1>12

-----------------------------------------------------------------------------
(* Changes of the labels that keep spans apart or nested. *)

(* No page below height t holds keys on both sides of m. *)
NoStraddle(D, lo, hi, h, t, m) == \A x \in D : h[x] < t => hi[x] <= m \/ m <= lo[x]

(* The end of a child's span is such an m for the nodes of its height. *)
LEMMA EndsDoNotStraddle ==
  ASSUME NEW D, D \subseteq PageIds, NEW lo, NEW hi, NEW h, Labels(lo, hi, h),
         Spans(D, lo, hi), Laminar(D, lo, hi, h), NEW z \in D
  PROVE  NoStraddle(D, lo, hi, h, h[z] + 1, hi[z])
<1> SUFFICES ASSUME NEW x \in D, h[x] < h[z] + 1, ~(hi[x] <= hi[z] \/ hi[z] <= lo[x])
             PROVE  FALSE
  BY DEF NoStraddle
<1>1. lo[x] \in Int /\ hi[x] \in Int /\ lo[z] \in Int /\ hi[z] \in Int /\ h[x] \in Nat /\ h[z] \in Nat
  BY DEF Labels
<1>2. lo[z] < hi[z]
  BY DEF Spans
<1>3. x # z /\ h[x] <= h[z]
  BY <1>1
<1>4. Apart(lo, hi, x, z) \/ Below_(lo, hi, h, x, z)
  BY <1>3 DEF Laminar
<1> QED
  BY <1>1, <1>2, <1>4 DEF Apart, Below_

(* Labels are the same at x. *)
Same(lo, hi, h, lo2, hi2, h2, x) == lo2[x] = lo[x] /\ hi2[x] = hi[x] /\ h2[x] = h[x]

(* The span of c is cut at m, its upper part goes to a new page. *)
LEMMA LaminarCut ==
  ASSUME NEW D, D \subseteq PageIds, NEW lo, NEW hi, NEW h, Labels(lo, hi, h),
         Spans(D, lo, hi), Laminar(D, lo, hi, h), NEW c \in D, NEW s \in PageIds, s \notin D,
         NEW m \in Int, lo[c] < m, m < hi[c], NoStraddle(D, lo, hi, h, h[c], m),
         NEW lo2, NEW hi2, NEW h2, Labels(lo2, hi2, h2),
         \A x \in D : x # c => Same(lo, hi, h, lo2, hi2, h2, x),
         lo2[c] = lo[c], hi2[c] = m, h2[c] = h[c], lo2[s] = m, hi2[s] = hi[c], h2[s] = h[c]
  PROVE  Laminar(D \cup {s}, lo2, hi2, h2)
<1> SUFFICES ASSUME NEW x \in D \cup {s}, NEW y \in D \cup {s}, x # y, h2[x] <= h2[y]
             PROVE  Apart(lo2, hi2, x, y) \/ Below_(lo2, hi2, h2, x, y)
  BY DEF Laminar
<1>1. \A z \in D : lo[z] \in Int /\ hi[z] \in Int /\ h[z] \in Nat /\ lo[z] < hi[z]
  BY DEF Labels, Spans
<1>2. CASE x \in D \ {c} /\ y \in D \ {c}
  <2>1. Same(lo, hi, h, lo2, hi2, h2, x) /\ Same(lo, hi, h, lo2, hi2, h2, y)
    BY <1>2
  <2>2. Apart(lo, hi, x, y) \/ Below_(lo, hi, h, x, y)
    BY <1>2, <2>1 DEF Laminar, Same
  <2> QED
    BY <2>1, <2>2 DEF Same, Apart, Below_
<1>3. CASE x \in D \ {c} /\ y \in {c, s}
  <2>1. Same(lo, hi, h, lo2, hi2, h2, x) /\ h[x] <= h[c] /\ x # c
    BY <1>3 DEF Same
  <2>2. Apart(lo, hi, x, c) \/ Below_(lo, hi, h, x, c)
    BY <1>3, <2>1 DEF Laminar
  <2>3. h[x] < h[c] => hi[x] <= m \/ m <= lo[x]
    BY <1>3 DEF NoStraddle
  <2>4. lo[x] \in Int /\ hi[x] \in Int /\ h[x] \in Nat /\ lo[c] \in Int /\ hi[c] \in Int /\ h[c] \in Nat
    BY <1>1, <1>3
  <2>5. CASE y = c
    BY <2>1, <2>2, <2>3, <2>4, <2>5 DEF Same, Apart, Below_
  <2>6. CASE y = s
    BY <2>1, <2>2, <2>3, <2>4, <2>6 DEF Same, Apart, Below_
  <2> QED
    BY <1>3, <2>5, <2>6
<1>4. CASE x \in {c, s} /\ y \in D \ {c}
  <2>1. Same(lo, hi, h, lo2, hi2, h2, y) /\ h[c] <= h[y] /\ y # c
    BY <1>4 DEF Same
  <2>2. Apart(lo, hi, c, y) \/ Below_(lo, hi, h, c, y)
    BY <1>4, <2>1 DEF Laminar
  <2>4. lo[y] \in Int /\ hi[y] \in Int /\ h[y] \in Nat /\ lo[c] \in Int /\ hi[c] \in Int /\ h[c] \in Nat
    BY <1>1, <1>4
  <2>5. CASE x = c
    BY <2>1, <2>2, <2>4, <2>5 DEF Same, Apart, Below_
  <2>6. CASE x = s
    BY <2>1, <2>2, <2>4, <2>6 DEF Same, Apart, Below_
  <2> QED
    BY <1>4, <2>5, <2>6
<1>5. CASE x \in {c, s} /\ y \in {c, s}
  BY <1>5 DEF Apart
<1> QED
  BY <1>2, <1>3, <1>4, <1>5

(* The span of r, beside that of l below the same node p, goes to l. *)
LEMMA LaminarJoin ==
  ASSUME NEW D, D \subseteq PageIds, NEW lo, NEW hi, NEW h, Labels(lo, hi, h),
         Spans(D, lo, hi), Laminar(D, lo, hi, h), NEW l \in D, NEW r \in D, l # r, NEW p \in D,
         h[l] = h[r], hi[l] = lo[r], h[p] = h[l] + 1, lo[p] <= lo[l], hi[r] <= hi[p],
         NEW lo2, NEW hi2, NEW h2, Labels(lo2, hi2, h2),
         \A x \in D : x # l /\ x # r => Same(lo, hi, h, lo2, hi2, h2, x),
         lo2[l] = lo[l], hi2[l] = hi[r], h2[l] = h[l]
  PROVE  Laminar(D \ {r}, lo2, hi2, h2)
<1> SUFFICES ASSUME NEW x \in D \ {r}, NEW y \in D \ {r}, x # y, h2[x] <= h2[y]
             PROVE  Apart(lo2, hi2, x, y) \/ Below_(lo2, hi2, h2, x, y)
  BY DEF Laminar
<1>1. \A z \in D : lo[z] \in Int /\ hi[z] \in Int /\ h[z] \in Nat /\ lo[z] < hi[z]
  BY DEF Labels, Spans
<1>2. CASE x # l /\ y # l
  <2>1. Same(lo, hi, h, lo2, hi2, h2, x) /\ Same(lo, hi, h, lo2, hi2, h2, y)
    BY <1>2
  <2>2. Apart(lo, hi, x, y) \/ Below_(lo, hi, h, x, y)
    BY <2>1 DEF Laminar, Same
  <2> QED
    BY <2>1, <2>2 DEF Same, Apart, Below_
<1>3. CASE x # l /\ y = l
  <2>1. Same(lo, hi, h, lo2, hi2, h2, x) /\ h[x] <= h[l] /\ h[x] <= h[r]
    BY <1>3 DEF Same
  <2>2. Apart(lo, hi, x, l) \/ Below_(lo, hi, h, x, l)
    BY <1>3, <2>1 DEF Laminar
  <2>3. Apart(lo, hi, x, r) \/ Below_(lo, hi, h, x, r)
    BY <1>3, <2>1 DEF Laminar
  <2>4. /\ lo[x] \in Int /\ hi[x] \in Int /\ h[x] \in Nat /\ lo[x] < hi[x]
        /\ lo[l] \in Int /\ hi[l] \in Int /\ h[l] \in Nat /\ lo[l] < hi[l]
        /\ lo[r] \in Int /\ hi[r] \in Int /\ lo[r] < hi[r]
    BY <1>1
  <2> QED
    BY <1>3, <2>1, <2>2, <2>3, <2>4 DEF Same, Apart, Below_
<1>4. CASE x = l
  <2>1. Same(lo, hi, h, lo2, hi2, h2, y) /\ h[l] <= h[y] /\ h[r] <= h[y] /\ y # l /\ y # r
    BY <1>4 DEF Same
  <2>2. Apart(lo, hi, l, y) \/ Below_(lo, hi, h, l, y)
    BY <2>1 DEF Laminar
  <2>3. Apart(lo, hi, r, y) \/ Below_(lo, hi, h, r, y)
    BY <2>1 DEF Laminar
  <2>4. /\ lo[y] \in Int /\ hi[y] \in Int /\ h[y] \in Nat /\ lo[y] < hi[y]
        /\ lo[l] \in Int /\ hi[l] \in Int /\ h[l] \in Nat /\ lo[l] < hi[l]
        /\ lo[r] \in Int /\ hi[r] \in Int /\ lo[r] < hi[r]
        /\ lo[p] \in Int /\ hi[p] \in Int /\ h[p] \in Nat
    BY <1>1
  <2>5. CASE h[y] = h[l]
    BY <1>4, <2>1, <2>2, <2>3, <2>4, <2>5 DEF Same, Apart, Below_
  <2>6. CASE y = p
    BY <1>4, <2>1, <2>4, <2>6 DEF Same, Below_
  <2>7. CASE h[y] > h[l] /\ y # p
    <3>1. p # y /\ h[p] <= h[y]
      BY <2>4, <2>7
    <3>2. Apart(lo, hi, p, y) \/ Below_(lo, hi, h, p, y)
      BY <3>1 DEF Laminar
    <3> QED
      BY <1>4, <2>1, <2>4, <2>7, <3>2 DEF Same, Apart, Below_
  <2>8. h[y] = h[l] \/ h[y] > h[l]
    BY <2>1, <2>4
  <2> QED
    BY <2>5, <2>6, <2>7, <2>8
<1> QED
  BY <1>2, <1>3, <1>4

-----------------------------------------------------------------------------
(* What is not touched stays sound. *)

LEMMA InnerFacts ==
  ASSUME NEW n, IsInner(n, Keys, PageIds)
  PROVE  /\ n.keys \in Seq(Int) /\ Len(n.keys) \in Nat /\ Ascending(n.keys)
         /\ \A i \in 1 .. Len(n.keys) : n.keys[i] \in Int /\ n.keys[i] \in Keys
         /\ \A i \in 1 .. Len(n.keys) + 1 : n.child_ids[i] \in PageIds
<1>1. n.keys \in Seq(Keys) /\ n.child_ids \in Seq(PageIds) /\ Len(n.child_ids) = Len(n.keys) + 1
  BY DEF IsInner
<1>2. \A i \in 1 .. Len(n.child_ids) : n.child_ids[i] \in PageIds
  BY <1>1, ElementOfSeq
<1> QED
  BY <1>1, <1>2, KeysAreInts, SeqOfNumbers DEF IsInner

(* What is known of a leaf. *)
LEMMA LeafFacts ==
  ASSUME NEW n, IsOuter(n, Keys, Values, PageIds)
  PROVE  /\ n.keys \in Seq(Int) /\ Len(n.keys) \in Nat /\ Ascending(n.keys)
         /\ \A i \in 1 .. Len(n.keys) : n.keys[i] \in Int /\ n.keys[i] \in Keys
         /\ n.next_lef_id \in PageIds \cup {0}
  BY KeysAreInts, SeqOfNumbers DEF IsOuter

(* Pages Ch are relabelled or removed, the others keep their labels.       *)
Elsewhere(D, lo, hi, h, D2, lo2, hi2, h2, Ch) ==
  \A z \in D \ Ch : z \in D2 /\ Same(lo, hi, h, lo2, hi2, h2, z)
ChildrenOf(pg, p, Ch) ==
  \A z \in Ch \cap DOMAIN pg : \E i \in 1 .. Len(pg[p].keys) + 1 : ChildAt(pg, p, i) = z
(* The leaf before each of them keeps its place or is one of them.         *)
BeforeToo(D, lo, hi, h, D2, lo2, h2, Ch) ==
  \A z \in Ch \cap D :
    \/ z \in D2 /\ lo2[z] = lo[z] /\ h2[z] = h[z]
    \/ \E y \in Ch \cap D : h[y] = h[z] /\ hi[y] = lo[z]

(* Pages Ch, all children of p, are relabelled or removed: the other nodes *)
(* of p's height do not notice.                                            *)
LEMMA OthersKeepLinks ==
  ASSUME NEW pg, NEW lo, NEW hi, NEW h, Skeleton(pg, lo, hi, h),
         NEW p \in DOMAIN pg, pg[p].inner, NEW Ch, ChildrenOf(pg, p, Ch),
         NEW D2, NEW lo2, NEW hi2, NEW h2, Elsewhere(DOMAIN pg, lo, hi, h, D2, lo2, hi2, h2, Ch),
         NEW x \in DOMAIN pg \ Ch, pg[x].inner, x # p
  PROVE  LinksOK(D2, lo2, hi2, h2, pg[x], lo2[x], hi2[x], h2[x])
<1> DEFINE c(i) == pg[x].child_ids[i]
<1> SUFFICES ASSUME NEW i \in 1 .. Len(pg[x].keys) + 1
             PROVE  Link(D2, lo2, hi2, h2, c(i), Cut(pg[x], lo2[x], hi2[x], i - 1),
                         Cut(pg[x], lo2[x], hi2[x], i), h2[x])
  BY DEF LinksOK
<1>1. LinksOK(DOMAIN pg, lo, hi, h, pg[x], lo[x], hi[x], h[x])
  BY DEF Skeleton, Links
<1>2. Link(DOMAIN pg, lo, hi, h, c(i), Cut(pg[x], lo[x], hi[x], i - 1),
           Cut(pg[x], lo[x], hi[x], i), h[x])
  BY <1>1 DEF LinksOK
<1>3. c(i) \in DOMAIN pg /\ c(i) = ChildAt(pg, x, i)
  BY <1>2 DEF Link, ChildAt
<1>4. c(i) \notin Ch
  <2>1. SUFFICES ASSUME c(i) \in Ch PROVE FALSE
    OBVIOUS
  <2>2. PICK j \in 1 .. Len(pg[p].keys) + 1 : ChildAt(pg, p, j) = c(i)
    BY <1>3, <2>1 DEF ChildrenOf
  <2>3. ChildAt(pg, p, j) = ChildAt(pg, x, i)
    BY <1>3, <2>2
  <2>4. p = x
    BY <2>3, OnlyParent
  <2> QED
    BY <2>4
<1>5. c(i) \in D2 /\ Same(lo, hi, h, lo2, hi2, h2, c(i)) /\ Same(lo, hi, h, lo2, hi2, h2, x)
  BY <1>3, <1>4 DEF Elsewhere
<1> HIDE DEF c
<1> QED
  BY <1>2, <1>5 DEF Link, Same

(* Pages of one height, Ch, are relabelled or removed: a leaf's next leaf  *)
(* is not concerned if the leaf before each of them is among them.         *)
LEMMA OthersKeepNext ==
  ASSUME NEW pg, NEW lo, NEW hi, NEW h, Skeleton(pg, lo, hi, h), NEW Ch,
         NEW D2, NEW lo2, NEW hi2, NEW h2,
         Elsewhere(DOMAIN pg, lo, hi, h, D2, lo2, hi2, h2, Ch),
         BeforeToo(DOMAIN pg, lo, hi, h, D2, lo2, h2, Ch),
         NEW x \in DOMAIN pg \ Ch, h[x] = 0, NEW next,
         NextOK(DOMAIN pg, lo, h, next, hi[x])
  PROVE  NextOK(D2, lo2, h2, next, hi2[x])
<1>1. Same(lo, hi, h, lo2, hi2, h2, x)
  BY DEF Elsewhere
<1>2. CASE next = 0
  BY <1>1, <1>2 DEF NextOK, Same
<1>3. CASE next # 0
  <2>1. next \in DOMAIN pg /\ h[next] = 0 /\ lo[next] = hi[x]
    BY <1>3 DEF NextOK
  <2>2. CASE next \notin Ch
    BY <1>1, <1>3, <2>1, <2>2 DEF NextOK, Same, Elsewhere
  <2>3. CASE next \in Ch /\ next \in D2 /\ lo2[next] = lo[next] /\ h2[next] = h[next]
    BY <1>1, <1>3, <2>1, <2>3 DEF NextOK, Same
  <2>4. ASSUME NEW y \in Ch \cap DOMAIN pg, h[y] = h[next], hi[y] = lo[next] PROVE FALSE
    <3>1. h[y] = h[x] /\ hi[y] = hi[x]
      BY <2>1, <2>4
    <3>2. x = y
      BY <3>1, OneEnd DEF Skeleton
    <3> QED
      BY <3>2
  <2> QED
    BY <2>1, <2>2, <2>3, <2>4 DEF BeforeToo
<1> QED
  BY <1>2, <1>3

-----------------------------------------------------------------------------
(* Two siblings and the node they are made of.                             *)

(* n has the entries of l and, behind them, of r.  Of inner nodes it also  *)
(* has the key m between them, of leaves m is the last key of l.           *)
InnerJoin(n, l, m, r) ==
  /\ n.inner /\ l.inner /\ r.inner
  /\ Len(n.keys) = Len(l.keys) + 1 + Len(r.keys)
  /\ n.keys[Len(l.keys) + 1] = m
  /\ \A i \in 1 .. Len(l.keys) : n.keys[i] = l.keys[i]
  /\ \A i \in 1 .. Len(r.keys) : n.keys[Len(l.keys) + 1 + i] = r.keys[i]
  /\ \A i \in 1 .. Len(l.keys) + 1 : n.child_ids[i] = l.child_ids[i]
  /\ \A i \in 1 .. Len(r.keys) + 1 : n.child_ids[Len(l.keys) + 1 + i] = r.child_ids[i]
LeafJoin(n, l, m, r) ==
  /\ ~n.inner /\ ~l.inner /\ ~r.inner
  /\ Len(n.keys) = Len(l.keys) + Len(r.keys)
  /\ Len(l.keys) > 0 /\ m = l.keys[Len(l.keys)]
  /\ \A i \in 1 .. Len(l.keys) : n.keys[i] = l.keys[i] /\ n.values[i] = l.values[i]
  /\ \A i \in 1 .. Len(r.keys) :
       n.keys[Len(l.keys) + i] = r.keys[i] /\ n.values[Len(l.keys) + i] = r.values[i]
  /\ n.next_lef_id = r.next_lef_id

(* q has all keys of n and, at i, the key m. *)
KeysWith(q, n, i, m) == IsWith(q.keys, n.keys, i, m)

(* big has the siblings l and r where small has one page, l, at place i    *)
(* below p.  A split leads from small to big, a merge from big to small.   *)
Divides(small, big, p, i, l, r, m) ==
  /\ p \in DOMAIN small /\ l \in DOMAIN small /\ l # p
  /\ r \in PageIds \ DOMAIN small /\ DOMAIN big = DOMAIN small \cup {r}
  /\ Shapes(small) /\ Shapes(big)
  /\ small[p].inner /\ big[p].inner
  /\ i \in 1 .. Len(small[p].keys) + 1 /\ ChildAt(small, p, i) = l
  /\ KeysWith(big[p], small[p], i, m)
  /\ IsWith(big[p].child_ids, small[p].child_ids, i + 1, r)
  /\ InnerJoin(small[l], big[l], m, big[r]) \/ LeafJoin(small[l], big[l], m, big[r])
  /\ ~big[l].inner => big[l].next_lef_id = r
  /\ \A x \in DOMAIN small : x # l /\ x # p => big[x] = small[x]
DividesLabels(D, lo, hi, h, lo2, hi2, h2, l, r, m) ==
  /\ Labels(lo, hi, h) /\ Labels(lo2, hi2, h2)
  /\ \A x \in D : x # l => Same(lo, hi, h, lo2, hi2, h2, x)
  /\ lo2[l] = lo[l] /\ hi2[l] = m /\ h2[l] = h[l]
  /\ lo2[r] = m /\ hi2[r] = hi[l] /\ h2[r] = h[l]

(* The cuts of a node with another key m at i. *)
LEMMA CutsWith ==
  ASSUME NEW n, NEW q, Len(n.keys) \in Nat, NEW i \in 1 .. Len(n.keys) + 1, NEW m,
         KeysWith(q, n, i, m), NEW a, NEW b, NEW j \in 0 .. Len(n.keys) + 2
  PROVE  Cut(q, a, b, j) =
           IF j < i THEN Cut(n, a, b, j) ELSE IF j = i THEN m ELSE Cut(n, a, b, j - 1)
<1> DEFINE w == Len(n.keys)
<1>1. w \in Nat /\ Len(q.keys) = w + 1 /\ i \in 1 .. w + 1 /\ j \in 0 .. w + 2
      /\ \A x \in 1 .. w + 1 :
           q.keys[x] = IF x < i THEN n.keys[x] ELSE IF x = i THEN m ELSE n.keys[x - 1]
  BY DEF IsWith, KeysWith
<1>2. /\ Cut(q, a, b, j) = IF j = 0 THEN a ELSE IF j = w + 2 THEN b ELSE q.keys[j]
      /\ Cut(n, a, b, j) = IF j = 0 THEN a ELSE IF j = w + 1 THEN b ELSE n.keys[j]
      /\ Cut(n, a, b, j - 1) = IF j - 1 = 0 THEN a ELSE IF j - 1 = w + 1 THEN b ELSE n.keys[j - 1]
  <2>1. Len(q.keys) + 1 = w + 2
    BY <1>1
  <2> QED
    BY <2>1 DEF Cut
<1> HIDE DEF w
<1>3. CASE j < i
  BY <1>1, <1>2, <1>3
<1>4. CASE j = i
  BY <1>1, <1>2, <1>4
<1>5. CASE j > i
  BY <1>1, <1>2, <1>5
<1> QED
  BY <1>1, <1>3, <1>4, <1>5

(* The cuts of the halves of an inner node. *)
LEMMA CutsOfHalves ==
  ASSUME NEW n, NEW l, NEW m, NEW r, InnerJoin(n, l, m, r),
         Len(l.keys) \in Nat, Len(r.keys) \in Nat, NEW a, NEW b
  PROVE  /\ \A j \in 0 .. Len(l.keys) + 1 : Cut(l, a, m, j) = Cut(n, a, b, j)
         /\ \A j \in 0 .. Len(r.keys) + 1 :
              Cut(r, m, b, j) = Cut(n, a, b, Len(l.keys) + 1 + j)
<1>1. /\ Len(n.keys) = Len(l.keys) + 1 + Len(r.keys) /\ n.keys[Len(l.keys) + 1] = m
      /\ \A i \in 1 .. Len(l.keys) : n.keys[i] = l.keys[i]
      /\ \A i \in 1 .. Len(r.keys) : n.keys[Len(l.keys) + 1 + i] = r.keys[i]
  BY DEF InnerJoin
<1> DEFINE w == Len(l.keys)
           v == Len(r.keys)
<1>2. /\ w \in Nat /\ v \in Nat /\ Len(n.keys) = w + 1 + v /\ n.keys[w + 1] = m
      /\ \A i \in 1 .. w : n.keys[i] = l.keys[i]
      /\ \A i \in 1 .. v : n.keys[w + 1 + i] = r.keys[i]
  BY <1>1
<1>3. /\ \A j : Cut(l, a, m, j) = IF j = 0 THEN a ELSE IF j = w + 1 THEN m ELSE l.keys[j]
      /\ \A j : Cut(r, m, b, j) = IF j = 0 THEN m ELSE IF j = v + 1 THEN b ELSE r.keys[j]
      /\ \A j : Cut(n, a, b, j) = IF j = 0 THEN a ELSE IF j = w + 1 + v + 1 THEN b ELSE n.keys[j]
  BY <1>2 DEF Cut
<1> HIDE DEF w, v
<1>4. ASSUME NEW j \in 0 .. w + 1 PROVE Cut(l, a, m, j) = Cut(n, a, b, j)
  <2>1. j = 0 \/ j = w + 1 \/ (j \in 1 .. w /\ j # 0 /\ j # w + 1 /\ j # w + 1 + v + 1)
    BY <1>2
  <2>2. w + 1 # 0 /\ w + 1 # w + 1 + v + 1
    BY <1>2
  <2> QED
    BY <1>2, <1>3, <2>1, <2>2
<1>5. ASSUME NEW j \in 0 .. v + 1 PROVE Cut(r, m, b, j) = Cut(n, a, b, w + 1 + j)
  <2>1. CASE j = 0
    <3>1. w + 1 + j = w + 1 /\ w + 1 # 0 /\ w + 1 # w + 1 + v + 1
      BY <1>2, <2>1
    <3> QED
      BY <1>2, <1>3, <2>1, <3>1
  <2>2. CASE j = v + 1
    <3>1. w + 1 + j = w + 1 + v + 1 /\ w + 1 + j # 0 /\ j # 0
      BY <1>2, <2>2
    <3>2. Cut(n, a, b, w + 1 + j) = b
      BY ONLY <1>3, <3>1
    <3>3. Cut(r, m, b, j) = b
      BY ONLY <1>3, <2>2, <3>1
    <3> QED
      BY <3>2, <3>3
  <2>3. CASE j \in 1 .. v
    <3> DEFINE x == w + 1 + j
    <3>1. x # w + 1 + v + 1 /\ x # 0 /\ j # 0 /\ j # v + 1
      BY <1>2, <2>3
    <3>2. n.keys[x] = r.keys[j]
      BY ONLY <1>2, <2>3
    <3> HIDE DEF x
    <3>3. Cut(n, a, b, x) = n.keys[x] /\ Cut(r, m, b, j) = r.keys[j]
      BY <1>3, <3>1
    <3> QED
      BY <3>2, <3>3 DEF x
  <2>4. j = 0 \/ j = v + 1 \/ j \in 1 .. v
    BY <1>2
  <2> QED
    BY <2>1, <2>2, <2>3, <2>4
<1> QED
  BY <1>4, <1>5 DEF w, v

(* The sizes of what is divided. *)
LEMMA DividesFacts ==
  ASSUME NEW small, NEW big, NEW p, NEW i, NEW l, NEW r, NEW m, Divides(small, big, p, i, l, r, m),
         DOMAIN small \subseteq PageIds
  PROVE  /\ DOMAIN big \subseteq PageIds /\ l # r /\ p # r
         /\ Len(small[p].keys) \in Nat /\ Len(big[p].keys) = Len(small[p].keys) + 1
         /\ Len(small[l].keys) \in Nat /\ Len(big[l].keys) \in Nat /\ Len(big[r].keys) \in Nat
         /\ small[l].inner = big[l].inner /\ small[l].inner = big[r].inner
<1>1. \A n : ShapeOK(n) => Len(n.keys) \in Nat
  BY InnerFacts, LeafFacts DEF ShapeOK
<1>2. p \in DOMAIN small /\ l \in DOMAIN small /\ r \notin DOMAIN small /\ r \in PageIds
      /\ DOMAIN big = DOMAIN small \cup {r} /\ Shapes(small) /\ Shapes(big)
      /\ KeysWith(big[p], small[p], i, m)
      /\ (InnerJoin(small[l], big[l], m, big[r]) \/ LeafJoin(small[l], big[l], m, big[r]))
  BY DEF Divides
<1>3. ShapeOK(small[p]) /\ ShapeOK(small[l]) /\ ShapeOK(big[l]) /\ ShapeOK(big[r]) 
  BY <1>2 DEF Shapes
<1>4. Len(big[p].keys) = Len(small[p].keys) + 1
  BY <1>2 DEF IsWith, KeysWith
<1>5. small[l].inner = big[l].inner /\ small[l].inner = big[r].inner
  BY <1>2, <1>3 DEF ShapeOK, InnerJoin, LeafJoin
<1> QED
  BY <1>1, <1>2, <1>3, <1>4, <1>5

(* The key m at which a page is divided is inside its span, and no lower   *)
(* page has keys on both sides of it.                                      *)
LEMMA DividesInside ==
  ASSUME NEW small, NEW big, NEW p, NEW i, NEW l, NEW r, NEW m, Divides(small, big, p, i, l, r, m),
         NEW lo, NEW hi, NEW h, Skeleton(small, lo, hi, h),
         NEW odd, NEW k \in Int, Leaves(small, lo, hi, h, odd, k),
         ~small[l].inner => Len(big[r].keys) > IF odd = l THEN 1 ELSE 0
  PROVE  m \in Int /\ lo[l] < m /\ m < hi[l] /\ NoStraddle(DOMAIN small, lo, hi, h, h[l], m)
<1> DEFINE n == small[l]
           w == Len(big[l].keys)
           v == Len(big[r].keys)
<1>1. /\ l \in DOMAIN small /\ Shapes(small) /\ ShapeOK(n) /\ Labels(lo, hi, h)
      /\ Spans(DOMAIN small, lo, hi) /\ Laminar(DOMAIN small, lo, hi, h) /\ Links(small, lo, hi, h)
      /\ DOMAIN small \subseteq PageIds
  BY DEF Skeleton, Shapes, Divides
<1>2. w \in Nat /\ v \in Nat /\ n.inner = big[l].inner
  BY <1>1, DividesFacts
<1>3. lo[l] \in Int /\ hi[l] \in Int /\ h[l] \in Nat
  BY <1>1 DEF Labels
<1>4. CASE n.inner
  <2>1. InnerJoin(n, big[l], m, big[r])
    BY <1>4 DEF Divides, LeafJoin
  <2>2. Len(n.keys) = w + 1 + v /\ n.keys[w + 1] = m
    BY <2>1 DEF InnerJoin
  <2>3. IsInner(n, Keys, PageIds)
    BY <1>1, <1>4 DEF ShapeOK
  <2> HIDE DEF w, v
  <2>10. w + 1 \in 1 .. w + 1 + v
    BY <1>2
  <2>4. m \in Int
    <3>1. \A j \in 1 .. Len(n.keys) : n.keys[j] \in Int
      BY <2>3, InnerFacts
    <3> QED
      BY <2>2, <2>10, <3>1
  <2>5. w + 1 \in 1 .. Len(n.keys) + 1 /\ w + 2 \in 1 .. Len(n.keys) + 1 /\ w + 1 # 0 /\ w + 1 # Len(n.keys) + 1
        /\ (w + 2) - 1 = w + 1
    <3>1. /\ w + 1 \in 1 .. w + 1 + v + 1 /\ w + 2 \in 1 .. w + 1 + v + 1 /\ w + 1 # 0
          /\ w + 1 # w + 1 + v + 1 /\ (w + 2) - 1 = w + 1
      BY <1>2
    <3> QED
      BY <2>2, <3>1
  <2>6. Cut(n, lo[l], hi[l], w + 1) = m
    BY <2>2, <2>5 DEF Cut
  <2>7. LET z == ChildAt(small, l, w + 1) IN
          z \in DOMAIN small /\ h[l] = h[z] + 1 /\ hi[z] = m /\ lo[z] < hi[z] /\ lo[l] <= lo[z]
    BY <1>1, <1>4, <2>5, <2>6, ChildIsBelow
  <2>8. LET z == ChildAt(small, l, w + 2) IN
          z \in DOMAIN small /\ lo[z] = m /\ lo[z] < hi[z] /\ hi[z] <= hi[l]
    <3>1. LET z == ChildAt(small, l, w + 2) IN
            /\ z \in DOMAIN small /\ lo[z] = Cut(n, lo[l], hi[l], (w + 2) - 1)
            /\ hi[z] = Cut(n, lo[l], hi[l], w + 2)
            /\ Cut(n, lo[l], hi[l], (w + 2) - 1) < Cut(n, lo[l], hi[l], w + 2)
            /\ Cut(n, lo[l], hi[l], w + 2) <= hi[l]
      BY <1>1, <1>4, <2>5, ChildIsBelow
    <3> HIDE DEF n
    <3> QED
      BY <2>5, <2>6, <3>1
  <2>9. lo[l] < m /\ m < hi[l]
    <3> DEFINE y == ChildAt(small, l, w + 1)
               z == ChildAt(small, l, w + 2)
    <3>1. y \in DOMAIN small /\ z \in DOMAIN small /\ hi[y] = m /\ lo[y] < m /\ lo[l] <= lo[y]
          /\ lo[z] = m /\ m < hi[z] /\ hi[z] <= hi[l]
      BY <2>7, <2>8
    <3> HIDE DEF y, z
    <3>2. lo[y] \in Int /\ hi[z] \in Int
      BY <1>1, <3>1 DEF Labels
    <3> QED
      BY <1>3, <2>4, <3>1, <3>2
  <2>11. NoStraddle(DOMAIN small, lo, hi, h, h[l], m)
    <3> DEFINE z == ChildAt(small, l, w + 1)
    <3>1. z \in DOMAIN small /\ h[l] = h[z] + 1 /\ hi[z] = m
      BY <2>7
    <3> HIDE DEF z
    <3>2. NoStraddle(DOMAIN small, lo, hi, h, h[z] + 1, hi[z])
      BY <1>1, <3>1, EndsDoNotStraddle
    <3> QED
      BY <3>1, <3>2
  <2> QED
    BY <2>4, <2>9, <2>11
<1>5. CASE ~n.inner
  <2>1. LeafJoin(n, big[l], m, big[r])
    BY <1>5 DEF Divides, InnerJoin
  <2>2. Len(n.keys) = w + v /\ w > 0 /\ n.keys[w] = m
    <3>1. w \in 1 .. w /\ Len(n.keys) = w + v /\ w > 0
      BY <1>2, <2>1 DEF LeafJoin
    <3> QED
      BY <2>1, <3>1 DEF LeafJoin
  <2>3. n.keys \in Seq(Int) /\ Ascending(n.keys) /\ \A j \in 1 .. Len(n.keys) : n.keys[j] \in Int
    BY <1>1, <1>5, LeafFacts DEF ShapeOK
  <2>4. LeafOK(DOMAIN small, lo, h, n, lo[l], hi[l], h[l], l = odd, k)
    BY <1>1, <1>5 DEF Leaves
  <2>5. v > IF odd = l THEN 1 ELSE 0
    BY <1>5
  <2> HIDE DEF w, v
  <2>6. w \in 1 .. Len(n.keys) /\ w + 1 \in 1 .. Len(n.keys) /\ Len(n.keys) \in Nat
    BY <1>2, <2>2, <2>5
  <2>7. m \in Int
    BY <2>2, <2>3, <2>6
  <2>8. h[l] = 0
    BY <2>4 DEF LeafOK
  <2>9. NoStraddle(DOMAIN small, lo, hi, h, h[l], m)
    BY <1>1, <2>8 DEF NoStraddle, Labels
  <2>10. lo[l] < m /\ m < hi[l]
    <3>1. m < n.keys[w + 1]
      BY <2>2, <2>3, <2>6 DEF Ascending
    <3>2. CASE l # odd
      <4>1. KeysOK(n, lo[l], hi[l])
        BY <2>4, <3>2 DEF LeafOK
      <4>2. lo[l] < n.keys[w] /\ n.keys[w + 1] <= hi[l] /\ n.keys[w + 1] \in Int
        BY <2>3, <2>6, <4>1 DEF KeysOK
      <4> QED
        BY <1>3, <2>2, <2>7, <3>1, <4>2
    <3>3. CASE l = odd
      <4>1. OddKeysOK(n, lo[l], hi[l], k)
        BY <2>4, <3>3 DEF LeafOK
      <4>2. v > 1
        BY <2>5, <3>3
      <4>3. w + 1 <= Len(n.keys) - 1 /\ Len(n.keys) - 1 \in 1 .. Len(n.keys)
        BY <1>2, <2>2, <4>2
      <4>4. n.keys[w + 1] <= n.keys[Len(n.keys) - 1] /\ n.keys[w + 1] \in Int
        BY <2>3, <2>6, <4>3, AscendingWeakly
      <4>5. lo[l] < n.keys[w] /\ n.keys[Len(n.keys) - 1] = hi[l]
        BY <2>6, <4>1 DEF OddKeysOK
      <4> QED
        BY <1>3, <2>2, <2>7, <3>1, <4>4, <4>5
    <3> QED
      BY <3>2, <3>3
  <2> QED
    BY <2>7, <2>9, <2>10
<1> QED
  BY <1>4, <1>5

(* What a division does to the labels and the links, from small to big. *)
LEMMA ParentOfBoth ==
  ASSUME NEW small, NEW big, NEW p, NEW i, NEW l, NEW r, NEW m, Divides(small, big, p, i, l, r, m),
         NEW lo, NEW hi, NEW h, Skeleton(small, lo, hi, h), NEW lo2, NEW hi2, NEW h2,
         DividesLabels(DOMAIN small, lo, hi, h, lo2, hi2, h2, l, r, m)
  PROVE  LinksOK(DOMAIN big, lo2, hi2, h2, big[p], lo2[p], hi2[p], h2[p])
<1> DEFINE n == small[p]
           q == big[p]
           w == Len(n.keys)
           a == lo[p]
           b == hi[p]
<1>1. /\ w \in Nat /\ Len(q.keys) = w + 1 /\ i \in 1 .. w + 1 /\ p \in DOMAIN small /\ n.inner
      /\ l \in DOMAIN small /\ l # p /\ DOMAIN big = DOMAIN small \cup {r} /\ r \notin DOMAIN small
      /\ ChildAt(small, p, i) = l
  <2>1. DOMAIN small \subseteq PageIds
    BY DEF Skeleton
  <2>2. w \in Nat /\ Len(q.keys) = w + 1
    BY <2>1, DividesFacts
  <2>3. /\ i \in 1 .. w + 1 /\ p \in DOMAIN small /\ n.inner
        /\ l \in DOMAIN small /\ l # p /\ DOMAIN big = DOMAIN small \cup {r} /\ r \notin DOMAIN small
        /\ ChildAt(small, p, i) = l
    BY DEF Divides
  <2> QED
    BY <2>2, <2>3
<1>2. lo2[p] = a /\ hi2[p] = b /\ h2[p] = h[p]
  BY <1>1 DEF DividesLabels, Same
<1>3. \A j \in 1 .. w + 2 :
        q.child_ids[j] = IF j < i + 1 THEN n.child_ids[j] ELSE IF j = i + 1 THEN r ELSE n.child_ids[j - 1]
  <2>1. IsInner(n, Keys, PageIds)
    BY <1>1 DEF Skeleton, Shapes, ShapeOK
  <2>2. Len(n.child_ids) + 1 = w + 2
    BY <1>1, <2>1 DEF IsInner
  <2> QED
    BY <2>2 DEF Divides, IsWith
<1>4. \A j \in 0 .. w + 2 :
        Cut(q, a, b, j) = IF j < i THEN Cut(n, a, b, j) ELSE IF j = i THEN m ELSE Cut(n, a, b, j - 1)
  <2>1. KeysWith(q, n, i, m)
    BY DEF Divides
  <2>2. Len(n.keys) \in Nat /\ i \in 1 .. Len(n.keys) + 1
    BY <1>1
  <2> HIDE DEF q, n, a, b
  <2>3. SUFFICES ASSUME NEW j \in 0 .. Len(n.keys) + 2
                 PROVE  Cut(q, a, b, j) = IF j < i THEN Cut(n, a, b, j) ELSE IF j = i THEN m ELSE Cut(n, a, b, j - 1)
    OBVIOUS
  <2> QED
    BY ONLY <2>1, <2>2, <2>3, CutsWith
<1>5. \A j \in 1 .. w + 1 :
        Link(DOMAIN small, lo, hi, h, n.child_ids[j], Cut(n, a, b, j - 1), Cut(n, a, b, j), h[p])
  BY <1>1 DEF Skeleton, Links, LinksOK
<1>6. \A j \in 1 .. w + 1 : n.child_ids[j] \in DOMAIN small /\ (j # i => n.child_ids[j] # l)
  <2>1. SUFFICES ASSUME NEW j \in 1 .. w + 1
                 PROVE  n.child_ids[j] \in DOMAIN small /\ (j # i => n.child_ids[j] # l)
    OBVIOUS
  <2>2. n.child_ids[j] = ChildAt(small, p, j) /\ ChildAt(small, p, j) \in DOMAIN small
    BY <1>1, ChildIsBelow DEF ChildAt
  <2>3. ASSUME ChildAt(small, p, j) = ChildAt(small, p, i) PROVE j = i
    BY <1>1, <2>3, OnlyParent
  <2> QED
    BY <1>1, <2>2, <2>3
<1>7. n.child_ids[i] = l
  BY <1>1 DEF ChildAt
<1>8. /\ \A x \in DOMAIN small : x # l => Same(lo, hi, h, lo2, hi2, h2, x)
      /\ lo2[l] = lo[l] /\ hi2[l] = m /\ h2[l] = h[l]
      /\ lo2[r] = m /\ hi2[r] = hi[l] /\ h2[r] = h[l]
  BY DEF DividesLabels
<1> HIDE DEF n, q, w, a, b
<1>9. SUFFICES ASSUME NEW j \in 1 .. w + 2
               PROVE  Link(DOMAIN big, lo2, hi2, h2, q.child_ids[j], Cut(q, a, b, j - 1), Cut(q, a, b, j), h[p])
  <2>1. Len(q.keys) + 1 = w + 2
    BY <1>1
  <2> QED
    BY <1>2, <2>1 DEF LinksOK, q
<1>10. CASE j < i
  <2>1. j \in 1 .. w + 1 /\ j \in 0 .. w + 2 /\ j - 1 \in 0 .. w + 2 /\ j - 1 < i /\ j < i + 1 /\ j # i
    BY <1>1, <1>9, <1>10
  <2>2. q.child_ids[j] = n.child_ids[j] /\ Cut(q, a, b, j - 1) = Cut(n, a, b, j - 1) /\ Cut(q, a, b, j) = Cut(n, a, b, j)
    BY <1>3, <1>4, <1>9, <1>10, <2>1
  <2>3. n.child_ids[j] \in DOMAIN small /\ n.child_ids[j] # l
    BY <1>6, <2>1
  <2>4. Link(DOMAIN small, lo, hi, h, n.child_ids[j], Cut(n, a, b, j - 1), Cut(n, a, b, j), h[p])
    BY <1>5, <2>1
  <2> QED
    BY <1>1, <1>8, <2>2, <2>3, <2>4 DEF Link, Same
<1>11. CASE j = i
  <2>1. j \in 1 .. w + 1 /\ j \in 0 .. w + 2 /\ j - 1 \in 0 .. w + 2 /\ j - 1 < i /\ j < i + 1
    BY <1>1, <1>9, <1>11
  <2>2. q.child_ids[j] = l /\ Cut(q, a, b, j - 1) = Cut(n, a, b, j - 1) /\ Cut(q, a, b, j) = m
    BY <1>3, <1>4, <1>7, <1>9, <1>11, <2>1
  <2>4. Link(DOMAIN small, lo, hi, h, l, Cut(n, a, b, j - 1), Cut(n, a, b, j), h[p])
    BY <1>5, <1>7, <1>11, <2>1
  <2> QED
    BY <1>1, <1>8, <2>2, <2>4 DEF Link
<1>12. CASE j = i + 1
  <2>1. j \in 0 .. w + 2 /\ j - 1 \in 0 .. w + 2 /\ j - 1 = i /\ ~(j < i) /\ j # i /\ ~(j < i + 1) /\ i \in 1 .. w + 1
    BY <1>1, <1>9, <1>12
  <2>2. q.child_ids[j] = r /\ Cut(q, a, b, j - 1) = m /\ Cut(q, a, b, j) = Cut(n, a, b, i)
    <3>1. q.child_ids[j] = r
      BY <1>3, <1>9, <1>12, <2>1
    <3>2. Cut(q, a, b, i) = m
      BY <1>4, <2>1
    <3>3. Cut(q, a, b, j) = Cut(n, a, b, j - 1)
      BY <1>4, <2>1
    <3> QED
      BY <2>1, <3>1, <3>2, <3>3
  <2>4. Link(DOMAIN small, lo, hi, h, l, Cut(n, a, b, i - 1), Cut(n, a, b, i), h[p])
    BY <1>5, <1>7, <2>1
  <2> QED
    BY <1>1, <1>8, <2>2, <2>4 DEF Link
<1>13. CASE j > i + 1
  <2>1. /\ j - 1 \in 1 .. w + 1 /\ j \in 0 .. w + 2 /\ j - 1 \in 0 .. w + 2 /\ ~(j - 1 < i) /\ j - 1 # i
        /\ ~(j < i) /\ j # i /\ ~(j < i + 1) /\ j # i + 1
    BY <1>1, <1>9, <1>13
  <2> DEFINE e == j - 1
  <2>2. q.child_ids[j] = n.child_ids[e] /\ Cut(q, a, b, e) = Cut(n, a, b, e - 1) /\ Cut(q, a, b, j) = Cut(n, a, b, e)
    <3>1. q.child_ids[j] = n.child_ids[j - 1]
      BY <1>3, <1>9, <2>1
    <3>2. Cut(q, a, b, j) = Cut(n, a, b, j - 1)
      BY <1>4, <2>1
    <3>3. Cut(q, a, b, e) = Cut(n, a, b, e - 1)
      <4>1. e \in 0 .. w + 2 /\ ~(e < i) /\ e # i
        BY <2>1
      <4> HIDE DEF e
      <4> QED
        BY <1>4, <4>1
    <3> QED
      BY <3>1, <3>2, <3>3
  <2>3. e \in 1 .. w + 1 /\ e # i
    BY <2>1
  <2>4. Link(DOMAIN big, lo2, hi2, h2, q.child_ids[j], Cut(q, a, b, e), Cut(q, a, b, j), h[p])
    <3> HIDE DEF e
    <3>1. n.child_ids[e] \in DOMAIN small /\ n.child_ids[e] # l
      BY <1>6, <2>3
    <3>2. Link(DOMAIN small, lo, hi, h, n.child_ids[e], Cut(n, a, b, e - 1), Cut(n, a, b, e), h[p])
      BY <1>5, <2>3
    <3> QED
      BY <1>1, <1>8, <2>2, <3>1, <3>2 DEF Link, Same
  <2> QED
    BY <2>4
<1> QED
  BY <1>1, <1>9, <1>10, <1>11, <1>12, <1>13

(* The halves of an inner node: their children are its children. *)
HalvesAgree(D, lo, hi, h, n, l, m, r, a, b, t) ==
  LinksOK(D, lo, hi, h, n, a, b, t)
    <=> LinksOK(D, lo, hi, h, l, a, m, t) /\ LinksOK(D, lo, hi, h, r, m, b, t)
(* The children of the whole fit its span if those of the halves fit *)
(* theirs. *)
LEMMA HalvesLinks ==
  ASSUME NEW D, NEW lo, NEW hi, NEW h, NEW n, NEW l, NEW m, NEW r, InnerJoin(n, l, m, r),
         Len(l.keys) \in Nat, Len(r.keys) \in Nat, NEW a, NEW b, NEW t
  PROVE  HalvesAgree(D, lo, hi, h, n, l, m, r, a, b, t)
<1> DEFINE w == Len(l.keys)
           v == Len(r.keys)
           nOK(i) == Link(D, lo, hi, h, n.child_ids[i], Cut(n, a, b, i - 1), Cut(n, a, b, i), t)
           lOK(i) == Link(D, lo, hi, h, l.child_ids[i], Cut(l, a, m, i - 1), Cut(l, a, m, i), t)
           rOK(i) == Link(D, lo, hi, h, r.child_ids[i], Cut(r, m, b, i - 1), Cut(r, m, b, i), t)
<1>1. w \in Nat /\ v \in Nat /\ Len(n.keys) + 1 = w + v + 2
  <2>1. w \in Nat /\ v \in Nat /\ Len(n.keys) = w + 1 + v
    BY DEF InnerJoin
  <2> HIDE DEF w, v
  <2>2. Len(n.keys) + 1 = (w + 1 + v) + 1 /\ (w + 1 + v) + 1 = w + v + 2
    BY <2>1
  <2> QED
    BY <2>1, <2>2
<1>2. /\ LinksOK(D, lo, hi, h, n, a, b, t) <=> \A i \in 1 .. w + v + 2 : nOK(i)
      /\ LinksOK(D, lo, hi, h, l, a, m, t) <=> \A i \in 1 .. w + 1 : lOK(i)
      /\ LinksOK(D, lo, hi, h, r, m, b, t) <=> \A i \in 1 .. v + 1 : rOK(i)
  BY <1>1 DEF LinksOK
<1>3. /\ \A j \in 0 .. w + 1 : Cut(l, a, m, j) = Cut(n, a, b, j)
      /\ \A j \in 0 .. v + 1 : Cut(r, m, b, j) = Cut(n, a, b, w + 1 + j)
  BY CutsOfHalves
<1>4. /\ \A i \in 1 .. w + 1 : n.child_ids[i] = l.child_ids[i]
      /\ \A i \in 1 .. v + 1 : n.child_ids[w + 1 + i] = r.child_ids[i]
  BY DEF InnerJoin
<1> HIDE DEF w, v
<1>5. \A i \in 1 .. w + 1 : lOK(i) <=> nOK(i)
  <2>1. SUFFICES ASSUME NEW i \in 1 .. w + 1 PROVE lOK(i) <=> nOK(i)
    OBVIOUS
  <2>2. i \in 0 .. w + 1 /\ i - 1 \in 0 .. w + 1
    BY <1>1
  <2> QED
    BY <1>3, <1>4, <2>2
<1>6. \A i \in 1 .. v + 1 : rOK(i) <=> nOK(w + 1 + i)
  <2>1. SUFFICES ASSUME NEW i \in 1 .. v + 1 PROVE rOK(i) <=> nOK(w + 1 + i)
    OBVIOUS
  <2>2. i \in 0 .. v + 1 /\ i - 1 \in 0 .. v + 1 /\ w + 1 + (i - 1) = (w + 1 + i) - 1
    BY <1>1
  <2>3. Cut(r, m, b, i) = Cut(n, a, b, w + 1 + i) /\ Cut(r, m, b, i - 1) = Cut(n, a, b, w + 1 + (i - 1))
        /\ n.child_ids[w + 1 + i] = r.child_ids[i]
    BY <1>3, <1>4, <2>2
  <2>4. Cut(r, m, b, i - 1) = Cut(n, a, b, (w + 1 + i) - 1)
    BY <2>2, <2>3
  <2> QED
    BY <2>3, <2>4
<1> HIDE DEF lOK, rOK, nOK
<1>7. ASSUME \A i \in 1 .. w + v + 2 : nOK(i)
      PROVE  (\A i \in 1 .. w + 1 : lOK(i)) /\ (\A i \in 1 .. v + 1 : rOK(i))
  <2>1. ASSUME NEW i \in 1 .. w + 1 PROVE lOK(i)
    <3>1. i \in 1 .. w + v + 2
      BY <1>1
    <3> QED
      BY <1>5, <1>7, <3>1
  <2>2. ASSUME NEW i \in 1 .. v + 1 PROVE rOK(i)
    <3>1. w + 1 + i \in 1 .. w + v + 2
      BY <1>1
    <3>2. nOK(w + 1 + i)
      BY <1>7, <3>1
    <3> QED
      BY <1>6, <3>2
  <2> QED
    BY <2>1, <2>2
<1>8. ASSUME \A i \in 1 .. w + 1 : lOK(i), \A i \in 1 .. v + 1 : rOK(i), NEW i \in 1 .. w + v + 2
      PROVE  nOK(i)
  <2>1. CASE i \in 1 .. w + 1
    BY <1>5, <1>8, <2>1
  <2>2. CASE i > w + 1
    <3> DEFINE j == i - (w + 1)
    <3>1. j \in 1 .. v + 1 /\ w + 1 + j = i
      BY <1>1, <2>2
    <3> HIDE DEF j
    <3>2. nOK(w + 1 + j)
      BY <1>6, <1>8, <3>1
    <3> QED
      BY <3>1, <3>2
  <2> QED
    BY <1>1, <2>1, <2>2
<1> QED
  BY <1>2, <1>7, <1>8 DEF HalvesAgree

(* The spans of the halves are not empty. *)
LEMMA DivisionLabels ==
  ASSUME NEW D, D \subseteq PageIds, NEW lo, NEW hi, NEW h, NEW lo2, NEW hi2, NEW h2,
         NEW l \in D, NEW r \in PageIds \ D, NEW m \in Int,
         DividesLabels(D, lo, hi, h, lo2, hi2, h2, l, r, m), Spans(D, lo, hi),
         lo[l] < m, m < hi[l]
  PROVE  Spans(D \cup {r}, lo2, hi2)
<1>1. /\ \A x \in D : x # l => Same(lo, hi, h, lo2, hi2, h2, x)
      /\ lo2[l] = lo[l] /\ hi2[l] = m /\ lo2[r] = m /\ hi2[r] = hi[l]
  BY DEF DividesLabels
<1>2. lo[l] \in Int /\ hi[l] \in Int /\ -1 <= lo[l] /\ hi[l] <= Top
  BY DEF DividesLabels, Labels, Spans
<1>3. Top \in Int
  BY TopIsAbove
<1>4. ASSUME NEW x \in D \cup {r} PROVE -1 <= lo2[x] /\ lo2[x] < hi2[x] /\ hi2[x] <= Top
  <2>1. CASE x = l
    BY <1>1, <1>2, <1>3, <2>1
  <2>2. CASE x = r
    BY <1>1, <1>2, <1>3, <2>2
  <2>3. CASE x \in D /\ x # l
    BY <1>1, <2>3 DEF Same, Spans
  <2> QED
    BY <2>1, <2>2, <2>3
<1> QED
  BY <1>4 DEF Spans

(* A page is cut in two: the nodes still make a search tree.  *)
LEMMA CutSkeleton ==
  ASSUME NEW small, NEW big, NEW p, NEW i, NEW l, NEW r, NEW m, Divides(small, big, p, i, l, r, m),
         NEW lo, NEW hi, NEW h, Skeleton(small, lo, hi, h), NEW lo2, NEW hi2, NEW h2,
         DividesLabels(DOMAIN small, lo, hi, h, lo2, hi2, h2, l, r, m),
         m \in Int, lo[l] < m, m < hi[l], NoStraddle(DOMAIN small, lo, hi, h, h[l], m)
  PROVE  Skeleton(big, lo2, hi2, h2)
<1> DEFINE D == DOMAIN small
           E == DOMAIN big
<1>1. /\ p \in D /\ l \in D /\ l # p /\ r \in PageIds \ D /\ E = D \cup {r} /\ small[p].inner
      /\ i \in 1 .. Len(small[p].keys) + 1 /\ ChildAt(small, p, i) = l
      /\ \A x \in D : x # l /\ x # p => big[x] = small[x]
      /\ Shapes(big)
  BY DEF Divides
<1>2. /\ D \subseteq PageIds /\ Labels(lo, hi, h) /\ Spans(D, lo, hi) /\ Laminar(D, lo, hi, h) /\ Shapes(small)
  BY DEF Skeleton
<1>3. /\ \A x \in D : x # l => Same(lo, hi, h, lo2, hi2, h2, x)
      /\ lo2[l] = lo[l] /\ hi2[l] = m /\ h2[l] = h[l]
      /\ lo2[r] = m /\ hi2[r] = hi[l] /\ h2[r] = h[l] /\ Labels(lo2, hi2, h2)
  BY DEF DividesLabels
<1>4. Spans(E, lo2, hi2)
  BY <1>1, <1>2, DivisionLabels
<1>5. Laminar(E, lo2, hi2, h2)
  BY <1>1, <1>2, <1>3, LaminarCut
<1>6. Links(big, lo2, hi2, h2)
  <2>1. SUFFICES ASSUME NEW x \in E, big[x].inner
                 PROVE  LinksOK(E, lo2, hi2, h2, big[x], lo2[x], hi2[x], h2[x])
    BY DEF Links
  <2>2. CASE x = p
    BY <2>2, ParentOfBoth
  <2>3. CASE x \in D /\ x # p /\ x # l
    <3>1. big[x] = small[x] /\ x \in D \ {l}
      BY <1>1, <2>3
    <3>2. \A z \in {l} \cap D : \E j \in 1 .. Len(small[p].keys) + 1 : ChildAt(small, p, j) = z
      BY <1>1
    <3>3. \A z \in D \ {l} : z \in E /\ Same(lo, hi, h, lo2, hi2, h2, z)
      BY <1>1, <1>3
    <3>4. small[x].inner
      BY <2>1, <3>1
    <3>5. LinksOK(E, lo2, hi2, h2, small[x], lo2[x], hi2[x], h2[x])
      <4> DEFINE Ch == {l}
      <4>1. /\ ChildrenOf(small, p, Ch) /\ Elsewhere(D, lo, hi, h, E, lo2, hi2, h2, Ch)
            /\ x \in D \ Ch /\ p \in D /\ small[p].inner /\ x # p
        BY <1>1, <2>3, <3>1, <3>2, <3>3 DEF ChildrenOf, Elsewhere
      <4> HIDE DEF Ch, E
      <4> QED
        BY <3>4, <4>1, OthersKeepLinks
    <3> QED
      BY <3>1, <3>5
  <2>4. CASE x = l \/ x = r
    <3>1. /\ small[l].inner = big[l].inner /\ small[l].inner = big[r].inner
          /\ Len(big[l].keys) \in Nat /\ Len(big[r].keys) \in Nat
      BY <1>2, DividesFacts
    <3>2. small[l].inner /\ InnerJoin(small[l], big[l], m, big[r])
      BY <2>1, <2>4, <3>1 DEF Divides, LeafJoin
    <3>3. LinksOK(D, lo, hi, h, small[l], lo[l], hi[l], h[l])
      BY <1>1, <3>2 DEF Skeleton, Links
    <3>4. LinksOK(E, lo2, hi2, h2, small[l], lo[l], hi[l], h[l])
      <4>1. SUFFICES ASSUME NEW j \in 1 .. Len(small[l].keys) + 1
                     PROVE  Link(E, lo2, hi2, h2, small[l].child_ids[j], Cut(small[l], lo[l], hi[l], j - 1),
                                 Cut(small[l], lo[l], hi[l], j), h[l])
        BY DEF LinksOK
      <4>2. Link(D, lo, hi, h, small[l].child_ids[j], Cut(small[l], lo[l], hi[l], j - 1),
                 Cut(small[l], lo[l], hi[l], j), h[l])
        BY <3>3 DEF LinksOK
      <4> DEFINE z == small[l].child_ids[j]
      <4>3. z \in D /\ h[l] = h[z] + 1
        BY <4>2 DEF Link
      <4>4. z # l
        <5> HIDE DEF z
        <5> QED
          BY <1>1, <1>2, <4>3 DEF Labels
      <4> HIDE DEF z
      <4>5. z \in E /\ Same(lo, hi, h, lo2, hi2, h2, z)
        BY <1>1, <1>3, <4>3, <4>4
      <4> QED
        BY <4>2, <4>5 DEF Link, Same, z
    <3>5. /\ LinksOK(E, lo2, hi2, h2, big[l], lo[l], m, h[l])
          /\ LinksOK(E, lo2, hi2, h2, big[r], m, hi[l], h[l])
      <4> DEFINE n == small[l]
                 ln == big[l]
                 rn == big[r]
                 a == lo[l]
                 b == hi[l]
                 t == h[l]
      <4>1. InnerJoin(n, ln, m, rn) /\ Len(ln.keys) \in Nat /\ Len(rn.keys) \in Nat
            /\ LinksOK(E, lo2, hi2, h2, n, a, b, t)
        BY <3>1, <3>2, <3>4
      <4> HIDE DEF n, ln, rn, a, b, t, E
      <4>2. HalvesAgree(E, lo2, hi2, h2, n, ln, m, rn, a, b, t)
        BY <4>1, HalvesLinks
      <4> QED
        BY <4>1, <4>2 DEF HalvesAgree, ln, rn, a, b, t
    <3> QED
      BY <1>3, <2>4, <3>5
  <2> QED
    BY <1>1, <2>2, <2>3, <2>4
<1> QED
  BY <1>1, <1>2, <1>3, <1>4, <1>5, <1>6 DEF Skeleton

(* The halves of a leaf: its keys are theirs. *)
HalvesKeys(n, l, m, r, a, b, k) ==
  /\ KeysOK(n, a, b) \/ OddKeysOK(n, a, b, k) => KeysOK(l, a, m)
  /\ KeysOK(n, a, b) /\ Len(r.keys) > 0 => KeysOK(r, m, b)
  /\ OddKeysOK(n, a, b, k) /\ Len(r.keys) > 1 => OddKeysOK(r, m, b, k)
  /\ KeysOK(l, a, m) /\ KeysOK(r, m, b) /\ m < b => KeysOK(n, a, b)
  /\ KeysOK(l, a, m) /\ OddKeysOK(r, m, b, k) => OddKeysOK(n, a, b, k)
(* The keys of the whole and those of the halves, in both directions. *)
LEMMA HalvesOfLeaf ==
  ASSUME NEW n, NEW l, NEW m, NEW r, LeafJoin(n, l, m, r),
         IsOuter(n, Keys, Values, PageIds), IsOuter(l, Keys, Values, PageIds),
         IsOuter(r, Keys, Values, PageIds), NEW a \in Int, NEW b \in Int, NEW k \in Int
  PROVE  HalvesKeys(n, l, m, r, a, b, k)
<1> DEFINE w == Len(l.keys)
           v == Len(r.keys)
           z == Len(n.keys)
<1>1. w \in Nat /\ w > 0 /\ v \in Nat /\ z = w + v
  BY LeafFacts DEF LeafJoin
<1>2. /\ l.keys[w] = m /\ \A j \in 1 .. w : n.keys[j] = l.keys[j]
      /\ \A j \in 1 .. v : n.keys[w + j] = r.keys[j]
  BY DEF LeafJoin
<1>3. /\ l.keys \in Seq(Int) /\ Ascending(l.keys) /\ \A j \in 1 .. w : l.keys[j] \in Int
      /\ \A j \in 1 .. v : r.keys[j] \in Int
      /\ n.keys \in Seq(Int) /\ Ascending(n.keys)
  BY LeafFacts
<1>4. /\ \A c, d : KeysOK(n, c, d) <=> (\A j \in 1 .. z : c < n.keys[j] /\ n.keys[j] <= d)
                                  /\ (d # Top => z > 0 /\ n.keys[z] = d)
      /\ \A c, d : KeysOK(l, c, d) <=> (\A j \in 1 .. w : c < l.keys[j] /\ l.keys[j] <= d)
                                  /\ (d # Top => w > 0 /\ l.keys[w] = d)
      /\ \A c, d : KeysOK(r, c, d) <=> (\A j \in 1 .. v : c < r.keys[j] /\ r.keys[j] <= d)
                                  /\ (d # Top => v > 0 /\ r.keys[v] = d)
  BY DEF KeysOK
<1>5. /\ \A c, d : OddKeysOK(n, c, d, k) <=> z > 1 /\ d < k /\ n.keys[z] = k /\ n.keys[z - 1] = d
                                        /\ \A j \in 1 .. z : c < n.keys[j]
      /\ \A c, d : OddKeysOK(r, c, d, k) <=> v > 1 /\ d < k /\ r.keys[v] = k /\ r.keys[v - 1] = d
                                        /\ \A j \in 1 .. v : c < r.keys[j]
  BY DEF OddKeysOK
<1>6. \A j \in 1 .. w : l.keys[j] <= m
  <2>1. SUFFICES ASSUME NEW j \in 1 .. w PROVE l.keys[j] <= m
    OBVIOUS
  <2>2. w \in 1 .. w /\ j <= w /\ l.keys[w] = m /\ w = Len(l.keys)
    BY <1>1, <1>2, <2>1 DEF w
  <2>3. l.keys[j] <= l.keys[w]
    BY ONLY <1>3, <2>1, <2>2, AscendingWeakly
  <2> QED
    BY <2>2, <2>3
<1>7. \A j \in 1 .. v : m < r.keys[j]
  <2>1. SUFFICES ASSUME NEW j \in 1 .. v PROVE m < r.keys[j]
    OBVIOUS
  <2> HIDE DEF w, v, z
  <2>2. w \in 1 .. z /\ w + j \in 1 .. z /\ w < w + j /\ w \in 1 .. w
    BY <1>1
  <2>3. n.keys[w] < n.keys[w + j]
    BY <1>3, <2>2 DEF Ascending, z
  <2> QED
    BY <1>2, <2>2, <2>3
<1>8. m \in Int
  <2>1. w \in 1 .. w
    BY <1>1
  <2> QED
    BY <1>2, <1>3, <2>1
<1> HIDE DEF w, v, z
<1>9. \A j \in 1 .. w : j \in 1 .. z
  BY <1>1
<1>10. \A j \in 1 .. v : w + j \in 1 .. z
  BY <1>1
<1>11. ASSUME \A j \in 1 .. z : a < n.keys[j]
       PROVE  KeysOK(l, a, m)
  <2>1. \A j \in 1 .. w : a < l.keys[j]
    BY <1>2, <1>9, <1>11
  <2> QED
    BY <1>1, <1>2, <1>4, <1>6, <2>1
<1>12. ASSUME KeysOK(n, a, b), v > 0 PROVE KeysOK(r, m, b)
  <2>1. \A j \in 1 .. v : r.keys[j] <= b
    <3>1. SUFFICES ASSUME NEW j \in 1 .. v PROVE r.keys[j] <= b
      OBVIOUS
    <3>2. n.keys[w + j] <= b
      BY <1>4, <1>10, <1>12
    <3> QED
      BY <1>2, <3>2
  <2>2. n.keys[z] = r.keys[v]
    <3>1. v \in 1 .. v /\ w + v = z
      BY <1>1, <1>12
    <3> QED
      BY <1>2, <3>1
  <2>3. b # Top => n.keys[z] = b
    BY <1>4, <1>12
  <2> QED
    BY <1>4, <1>7, <1>12, <2>1, <2>2, <2>3
<1>13. ASSUME v > 1 PROVE n.keys[z] = r.keys[v] /\ n.keys[z - 1] = r.keys[v - 1] /\ z > 1
  <2>1. v \in 1 .. v /\ v - 1 \in 1 .. v /\ w + v = z /\ w + (v - 1) = z - 1 /\ z > 1
    BY <1>1, <1>13
  <2>2. n.keys[w + v] = r.keys[v]
    BY <1>2, <2>1
  <2>3. n.keys[w + (v - 1)] = r.keys[v - 1]
    BY <1>2, <2>1
  <2> QED
    BY <2>1, <2>2, <2>3
<1>14. ASSUME OddKeysOK(n, a, b, k), v > 1 PROVE OddKeysOK(r, m, b, k)
  BY <1>5, <1>7, <1>13, <1>14
<1>15. ASSUME \A j \in 1 .. w : a < l.keys[j], \A j \in 1 .. v : m < r.keys[j], NEW j \in 1 .. z
       PROVE  a < n.keys[j] /\ (j \in 1 .. w \/ \E y \in 1 .. v : j = w + y /\ n.keys[j] = r.keys[y])
  <2>1. CASE j <= w
    <3>1. j \in 1 .. w
      BY <1>1, <2>1
    <3> QED
      BY <1>2, <1>15, <3>1
  <2>2. CASE j > w
    <3> DEFINE y == j - w
    <3>1. y \in 1 .. v /\ w + y = j /\ w \in 1 .. w
      BY <1>1, <2>2
    <3> HIDE DEF y
    <3>2. n.keys[j] = r.keys[y]
      BY <1>2, <3>1
    <3>3. a < l.keys[w] /\ m < r.keys[y] /\ r.keys[y] \in Int /\ l.keys[w] = m
      BY <1>2, <1>3, <1>15, <3>1
    <3>4. a < r.keys[y]
      BY <1>8, <3>3
    <3> QED
      BY <3>1, <3>2, <3>4
  <2> QED
    BY <1>1, <2>1, <2>2
<1>16. ASSUME KeysOK(l, a, m), KeysOK(r, m, b), m < b PROVE KeysOK(n, a, b)
  <2>1. /\ \A j \in 1 .. w : a < l.keys[j] /\ l.keys[j] <= m
        /\ \A j \in 1 .. v : m < r.keys[j] /\ r.keys[j] <= b
        /\ b # Top => v > 0 /\ r.keys[v] = b
    BY <1>4, <1>16
  <2>2. ASSUME NEW j \in 1 .. z PROVE a < n.keys[j] /\ n.keys[j] <= b
    <3>1. a < n.keys[j]
      BY <1>15, <2>1
    <3>2. CASE j \in 1 .. w
      <4>1. n.keys[j] = l.keys[j] /\ l.keys[j] <= m /\ l.keys[j] \in Int
        BY <1>2, <1>3, <2>1, <3>2
      <4> QED
        BY <1>8, <1>16, <3>1, <4>1
    <3>3. CASE \E y \in 1 .. v : j = w + y /\ n.keys[j] = r.keys[y]
      BY <2>1, <3>1, <3>3
    <3> QED
      BY <1>15, <2>1, <3>2, <3>3
  <2>3. b # Top => z > 0 /\ n.keys[z] = b
    <3>1. SUFFICES ASSUME b # Top PROVE z > 0 /\ n.keys[z] = b
      OBVIOUS
    <3>2. v \in 1 .. v /\ w + v = z /\ z > 0
      BY <1>1, <2>1, <3>1
    <3>3. n.keys[w + v] = r.keys[v]
      BY <1>2, <3>2
    <3> QED
      BY <2>1, <3>1, <3>2, <3>3
  <2> QED
    BY <1>4, <2>2, <2>3
<1>17. ASSUME KeysOK(l, a, m), OddKeysOK(r, m, b, k) PROVE OddKeysOK(n, a, b, k)
  <2>1. /\ \A j \in 1 .. w : a < l.keys[j]
        /\ \A j \in 1 .. v : m < r.keys[j]
        /\ v > 1 /\ b < k /\ r.keys[v] = k /\ r.keys[v - 1] = b
    BY <1>4, <1>5, <1>17
  <2>2. \A j \in 1 .. z : a < n.keys[j]
    BY <1>15, <2>1
  <2> QED
    BY <1>5, <1>13, <2>1, <2>2
<1>18. KeysOK(n, a, b) \/ OddKeysOK(n, a, b, k) => KeysOK(l, a, m)
  BY <1>4, <1>5, <1>11
<1> QED
  BY <1>12, <1>14, <1>16, <1>17, <1>18 DEF HalvesKeys, v

(* The odd leaf is the upper half of the one it was.  *)
Heir(odd, l, r) == IF odd = l THEN r ELSE odd

(* Leaves that are divided stay sound. *)
LEMMA CutLeaves ==
  ASSUME NEW small, NEW big, NEW p, NEW i, NEW l, NEW r, NEW m, Divides(small, big, p, i, l, r, m),
         NEW lo, NEW hi, NEW h, Skeleton(small, lo, hi, h), NEW lo2, NEW hi2, NEW h2,
         DividesLabels(DOMAIN small, lo, hi, h, lo2, hi2, h2, l, r, m),
         m \in Int, lo[l] < m, m < hi[l],
         NEW odd, NEW k \in Int, Leaves(small, lo, hi, h, odd, k), OddOK(small, hi, odd, k),
         ~small[l].inner => Len(big[r].keys) > IF odd = l THEN 1 ELSE 0
  PROVE  Leaves(big, lo2, hi2, h2, Heir(odd, l, r), k) /\ OddOK(big, hi2, Heir(odd, l, r), k)
<1> DEFINE D == DOMAIN small
           E == DOMAIN big
           odd2 == Heir(odd, l, r)
<1>1. /\ p \in D /\ l \in D /\ l # p /\ r \in PageIds /\ r \notin D /\ E = D \cup {r}
      /\ small[p].inner /\ big[p].inner
      /\ \A x \in D : x # l /\ x # p => big[x] = small[x]
      /\ Shapes(big) /\ Shapes(small) /\ (~big[l].inner => big[l].next_lef_id = r)
  BY DEF Divides
<1>2. /\ \A x \in D : x # l => Same(lo, hi, h, lo2, hi2, h2, x)
      /\ lo2[l] = lo[l] /\ hi2[l] = m /\ h2[l] = h[l]
      /\ lo2[r] = m /\ hi2[r] = hi[l] /\ h2[r] = h[l]
  BY DEF DividesLabels
<1>3. small[l].inner = big[l].inner /\ small[l].inner = big[r].inner /\ Len(big[r].keys) \in Nat
  BY DividesFacts DEF Skeleton
<1>4. lo[l] \in Int /\ hi[l] \in Int /\ lo[l] < hi[l]
  BY <1>1 DEF Skeleton, Labels, Spans
<1>5. odd2 = IF odd = l THEN r ELSE odd
  BY DEF Heir
<1>6. 0 \notin PageIds /\ D \subseteq PageIds
  BY MaxPagesAssumption DEF PageIds, Skeleton
<1> HIDE DEF odd2
<1>7. ASSUME NEW x \in D, x # l, ~big[x].inner
      PROVE  x # p /\ big[x] = small[x] /\ ~small[x].inner /\ (x = odd2 <=> x = odd)
  <2>1. x # p
    BY <1>1, <1>7
  <2> QED
    BY <1>1, <1>5, <1>7, <2>1
<1>8. ASSUME ~small[l].inner
      PROVE  /\ LeafJoin(small[l], big[l], m, big[r]) /\ h[l] = 0
             /\ KeysOK(big[l], lo[l], m)
             /\ odd # l => KeysOK(big[r], m, hi[l])
             /\ odd = l => OddKeysOK(big[r], m, hi[l], k)
             /\ NextOK(D, lo, h, big[r].next_lef_id, hi[l])
             /\ odd # l => KeysOK(small[l], lo[l], hi[l])
  <2> DEFINE n == small[l]
             ln == big[l]
             rn == big[r]
             a == lo[l]
             b == hi[l]
  <2>1. LeafJoin(n, ln, m, rn)
    BY <1>8 DEF Divides, InnerJoin
  <2>2. IsOuter(n, Keys, Values, PageIds) /\ IsOuter(ln, Keys, Values, PageIds) /\ IsOuter(rn, Keys, Values, PageIds)
    BY <1>1, <1>3, <1>8 DEF Shapes, ShapeOK
  <2>3. LeafOK(D, lo, h, n, a, b, h[l], l = odd, k)
    BY <1>1, <1>8 DEF Leaves
  <2>4. a \in Int /\ b \in Int
    BY <1>4
  <2>5. n.next_lef_id = rn.next_lef_id
    BY <2>1 DEF LeafJoin
  <2> HIDE DEF n, ln, rn, a, b
  <2>6. HalvesKeys(n, ln, m, rn, a, b, k)
    BY <2>1, <2>2, <2>4, HalvesOfLeaf
  <2>7. h[l] = 0 /\ (l # odd => KeysOK(n, a, b)) /\ (l = odd => OddKeysOK(n, a, b, k)) /\ NextOK(D, lo, h, rn.next_lef_id, b)
    BY <2>3, <2>5 DEF LeafOK
  <2>8. Len(rn.keys) > IF odd = l THEN 1 ELSE 0
    BY <1>8 DEF rn
  <2>9. /\ KeysOK(ln, a, m) /\ (odd # l => KeysOK(rn, m, b)) /\ (odd = l => OddKeysOK(rn, m, b, k))
    BY <2>6, <2>7, <2>8 DEF HalvesKeys
  <2> QED
    BY <2>1, <2>7, <2>9 DEF n, ln, rn, a, b
<1>9. ASSUME NEW x \in E, ~big[x].inner
      PROVE  LeafOK(E, lo2, h2, big[x], lo2[x], hi2[x], h2[x], x = odd2, k)
  <2>1. CASE x = l
    <3>1. x # odd2
      BY <1>1, <1>5, <2>1
    <3>2. h[l] = 0 /\ KeysOK(big[l], lo[l], m)
      BY <1>3, <1>8, <1>9, <2>1
    <3>3. NextOK(E, lo2, h2, big[l].next_lef_id, m)
      <4>1. big[l].next_lef_id = r /\ r # 0 /\ r \in E /\ h2[r] = 0 /\ lo2[r] = m
        BY <1>1, <1>2, <1>6, <1>9, <2>1, <3>2
      <4> HIDE DEF E
      <4> QED
        BY <4>1 DEF NextOK
    <3> HIDE DEF E
    <3> QED
      BY <1>2, <2>1, <3>1, <3>2, <3>3 DEF LeafOK
  <2>2. CASE x = r
    <3>1. x = odd2 <=> odd = l
      <4>1. odd # r
        BY <1>1, <1>6 DEF OddOK
      <4> QED
        BY <1>1, <1>5, <2>2, <4>1
    <3>2. ~small[l].inner
      BY <1>3, <1>9, <2>2
    <3>3. /\ h[l] = 0 /\ NextOK(D, lo, h, big[r].next_lef_id, hi[l])
          /\ odd # l => KeysOK(big[r], m, hi[l])
          /\ odd = l => OddKeysOK(big[r], m, hi[l], k)
      BY <1>8, <3>2
    <3>4. NextOK(E, lo2, h2, big[r].next_lef_id, hi[l])
      <4> DEFINE z == big[r].next_lef_id
      <4>1. CASE z = 0
        BY <3>3, <4>1 DEF NextOK
      <4>2. CASE z # 0
        <5>1. z \in D /\ h[z] = 0 /\ lo[z] = hi[l]
          BY <3>3, <4>2 DEF NextOK
        <5> HIDE DEF z
        <5>2. z # l
          BY <1>4, <5>1
        <5>3. z \in E /\ h2[z] = 0 /\ lo2[z] = hi[l]
          BY <1>1, <1>2, <5>1, <5>2 DEF Same
        <5> HIDE DEF E
        <5>4. NextOK(E, lo2, h2, z, hi[l])
          BY <4>2, <5>3 DEF NextOK
        <5> QED
          BY <5>4 DEF z
      <4> QED
        BY <4>1, <4>2
    <3> HIDE DEF E
    <3> QED
      BY <1>2, <2>2, <3>1, <3>3, <3>4 DEF LeafOK
  <2>3. CASE x \in D /\ x # l
    <3>1. big[x] = small[x] /\ ~small[x].inner /\ (x = odd2 <=> x = odd)
      BY <1>7, <1>9, <2>3
    <3>2. LeafOK(D, lo, h, small[x], lo[x], hi[x], h[x], x = odd, k)
      BY <2>3, <3>1 DEF Leaves
    <3>3. Same(lo, hi, h, lo2, hi2, h2, x)
      BY <1>2, <2>3
    <3>4. NextOK(E, lo2, h2, small[x].next_lef_id, hi2[x])
      <4> DEFINE Ch == {l}
                 next == small[x].next_lef_id
      <4>1. /\ Elsewhere(D, lo, hi, h, E, lo2, hi2, h2, Ch) /\ BeforeToo(D, lo, hi, h, E, lo2, h2, Ch)
            /\ x \in D \ Ch
        BY <1>1, <1>2, <2>3 DEF Elsewhere, BeforeToo
      <4>2. h[x] = 0 /\ NextOK(D, lo, h, next, hi[x])
        BY <3>2 DEF LeafOK
      <4> HIDE DEF Ch, E, next
      <4>3. NextOK(E, lo2, h2, next, hi2[x])
        BY <4>1, <4>2, OthersKeepNext
      <4> QED
        BY <4>3 DEF next
    <3> HIDE DEF E, D
    <3> QED
      BY <3>1, <3>2, <3>3, <3>4 DEF LeafOK, Same
  <2> QED
    BY <1>1, <2>1, <2>2, <2>3
<1>10. ASSUME odd2 # 0
       PROVE  /\ odd2 \in E /\ ~big[odd2].inner
              /\ \A x \in E : ~big[x].inner /\ x # odd2 =>
                   \A j \in 1 .. Len(big[x].keys) : big[x].keys[j] <= hi2[odd2] \/ k < big[x].keys[j]
  <2>1. odd # 0
    BY <1>1, <1>5, <1>6, <1>10
  <2>2. /\ odd \in D /\ ~small[odd].inner
        /\ \A x \in D : ~small[x].inner /\ x # odd =>
             \A j \in 1 .. Len(small[x].keys) : small[x].keys[j] <= hi[odd] \/ k < small[x].keys[j]
    BY <2>1 DEF OddOK
  <2>3. odd2 \in E /\ ~big[odd2].inner /\ hi2[odd2] = hi[odd]
    <3>1. CASE odd = l
      BY <1>1, <1>2, <1>3, <1>5, <2>2, <3>1
    <3>2. CASE odd # l
      <4>1. odd # p /\ big[odd] = small[odd] /\ Same(lo, hi, h, lo2, hi2, h2, odd)
        BY <1>1, <1>2, <2>2, <3>2
      <4> QED
        BY <1>1, <1>5, <2>2, <3>2, <4>1 DEF Same
    <3> QED
      BY <3>1, <3>2
  <2>4. ASSUME NEW x \in E, ~big[x].inner, x # odd2, NEW j \in 1 .. Len(big[x].keys)
        PROVE  big[x].keys[j] <= hi[odd] \/ k < big[x].keys[j]
    <3>1. CASE x \in D /\ x # l
      BY <1>7, <2>2, <2>4, <3>1
    <3>2. CASE x = l /\ odd = l
      <4>1. KeysOK(big[l], lo[l], m)
        BY <1>3, <1>8, <2>4, <3>2
      <4>2. big[l].keys[j] <= m /\ big[l].keys[j] \in Int
        <5>1. big[l].keys[j] <= m
          BY <2>4, <3>2, <4>1 DEF KeysOK
        <5>2. IsOuter(big[l], Keys, Values, PageIds)
          BY <1>1, <2>4, <3>2 DEF Shapes, ShapeOK
        <5> QED
          BY <2>4, <3>2, <5>1, <5>2, LeafFacts
      <4>3. big[l].keys[j] <= hi[l]
        BY <1>4, <4>2
      <4> QED
        BY <3>2, <4>3
    <3>3. CASE odd # l /\ (x = l \/ x = r)
      <4>1. ~small[l].inner
        BY <1>3, <2>4, <3>3
      <4>2. LeafJoin(small[l], big[l], m, big[r])
        BY <1>8, <4>1
      <4>3. \E y \in 1 .. Len(small[l].keys) : small[l].keys[y] = big[x].keys[j]
        <5> DEFINE n == small[l]
                   ln == big[l]
                   rn == big[r]
        <5>1. LeafJoin(n, ln, m, rn) /\ Len(ln.keys) \in Nat /\ Len(rn.keys) \in Nat
          BY <1>3, <4>2, DividesFacts DEF Skeleton
        <5> HIDE DEF n, ln, rn
        <5> DEFINE w == Len(ln.keys)
                   v == Len(rn.keys)
                   z == Len(n.keys)
        <5>2. /\ z = w + v /\ w \in Nat /\ v \in Nat
              /\ \A y \in 1 .. w : n.keys[y] = ln.keys[y]
              /\ \A y \in 1 .. v : n.keys[w + y] = rn.keys[y]
          BY <5>1 DEF LeafJoin
        <5> HIDE DEF w, v, z
        <5>3. ASSUME NEW y \in 1 .. w PROVE y \in 1 .. z /\ n.keys[y] = ln.keys[y]
          BY <5>2
        <5>4. ASSUME NEW y \in 1 .. v PROVE w + y \in 1 .. z /\ n.keys[w + y] = rn.keys[y]
          <6>1. w + y \in 1 .. z
            BY <5>2
          <6> QED
            BY <5>2, <6>1
        <5> USE DEF w, v, z
        <5>5. CASE x = l
          BY <2>4, <5>3, <5>5 DEF n, ln
        <5>6. CASE x = r
          BY <2>4, <5>4, <5>6 DEF n, rn
        <5> QED
          BY <3>3, <5>5, <5>6
      <4> QED
        BY <1>1, <2>2, <3>3, <4>1, <4>3
    <3>4. x = l \/ x = r \/ (x \in D /\ x # l)
      BY <1>1, <2>4
    <3>5. ~(x = r /\ odd = l)
      BY <1>5, <2>4
    <3> QED
      BY <3>1, <3>2, <3>3, <3>4, <3>5
  <2> QED
    BY <2>3, <2>4
<1>11. Leaves(big, lo2, hi2, h2, odd2, k)
  BY <1>9 DEF Leaves
<1>12. OddOK(big, hi2, odd2, k)
  BY <1>10 DEF OddOK
<1> QED
  BY <1>11, <1>12 DEF odd2

(* A page is cut in two: the tree is sound. *)
LEMMA CutTree ==
  ASSUME NEW small, NEW big, NEW p, NEW i, NEW l, NEW r, NEW m, Divides(small, big, p, i, l, r, m),
         NEW root, NEW lo, NEW hi, NEW h, NEW odd, NEW k \in Int, Tree(small, root, lo, hi, h, odd, k),
         NEW lo2, NEW hi2, NEW h2,
         DividesLabels(DOMAIN small, lo, hi, h, lo2, hi2, h2, l, r, m),
         ~small[l].inner => Len(big[r].keys) > IF odd = l THEN 1 ELSE 0
  PROVE  Tree(big, root, lo2, hi2, h2, Heir(odd, l, r), k)
<1>1. Skeleton(small, lo, hi, h) /\ Leaves(small, lo, hi, h, odd, k) /\ OddOK(small, hi, odd, k)
      /\ RootOK(DOMAIN small, root, lo, hi, h)
  BY DEF Tree
<1>2. m \in Int /\ lo[l] < m /\ m < hi[l] /\ NoStraddle(DOMAIN small, lo, hi, h, h[l], m)
  BY <1>1, DividesInside
<1>3. Skeleton(big, lo2, hi2, h2)
  BY <1>1, <1>2, CutSkeleton
<1>4. Leaves(big, lo2, hi2, h2, Heir(odd, l, r), k) /\ OddOK(big, hi2, Heir(odd, l, r), k)
  BY <1>1, <1>2, CutLeaves
<1>5. RootOK(DOMAIN big, root, lo2, hi2, h2)
  <2>1. /\ \A x \in DOMAIN small : x # l => Same(lo, hi, h, lo2, hi2, h2, x)
        /\ h2[l] = h[l] /\ h2[r] = h[l]
    BY DEF DividesLabels
  <2>2. /\ DOMAIN big = DOMAIN small \cup {r} /\ p \in DOMAIN small /\ l \in DOMAIN small /\ small[p].inner
        /\ i \in 1 .. Len(small[p].keys) + 1 /\ ChildAt(small, p, i) = l
    BY DEF Divides
  <2>3. h[p] = h[l] + 1
    BY <1>1, <2>2, ChildIsBelow
  <2>4. root # l
    <3>1. h[p] <= h[root] /\ h[l] \in Nat
      BY <1>1, <2>2 DEF RootOK, Skeleton, Labels
    <3> QED
      BY <2>3, <3>1
  <2>5. /\ root \in DOMAIN small /\ lo[root] = -1 /\ hi[root] = Top /\ \A x \in DOMAIN small : h[x] <= h[root]
    BY <1>1 DEF RootOK
  <2>6. Same(lo, hi, h, lo2, hi2, h2, root)
    BY <2>1, <2>4, <2>5
  <2>7. \A x \in DOMAIN big : h2[x] <= h2[root]
    BY <2>1, <2>2, <2>5, <2>6 DEF Same
  <2> QED
    BY <2>2, <2>5, <2>6, <2>7 DEF RootOK, Same
<1> QED
  BY <1>3, <1>4, <1>5 DEF Tree

-----------------------------------------------------------------------------
(* The other way: two siblings become one page.  *)

LEMMA ParentOfOne ==
  ASSUME NEW small, NEW big, NEW p, NEW i, NEW l, NEW r, NEW m, Divides(small, big, p, i, l, r, m),
         NEW lo, NEW hi, NEW h, NEW lo2, NEW hi2, NEW h2, Skeleton(big, lo2, hi2, h2),
         DividesLabels(DOMAIN small, lo, hi, h, lo2, hi2, h2, l, r, m)
  PROVE  /\ LinksOK(DOMAIN small, lo, hi, h, small[p], lo[p], hi[p], h[p])
         /\ ChildAt(big, p, i) = l /\ ChildAt(big, p, i + 1) = r
         /\ i \in 1 .. Len(big[p].keys) + 1 /\ i + 1 \in 1 .. Len(big[p].keys) + 1
<1> DEFINE n == small[p]
           q == big[p]
           w == Len(n.keys)
           a == lo[p]
           b == hi[p]
<1>1. /\ w \in Nat /\ Len(q.keys) = w + 1 /\ i \in 1 .. w + 1 /\ p \in DOMAIN small /\ q.inner
      /\ l \in DOMAIN small /\ l # p /\ DOMAIN big = DOMAIN small \cup {r} /\ r \notin DOMAIN small
      /\ ChildAt(small, p, i) = l
  <2>1. DOMAIN small \subseteq PageIds
    BY DEF Skeleton, Divides
  <2>2. w \in Nat /\ Len(q.keys) = w + 1
    BY <2>1, DividesFacts
  <2>3. /\ i \in 1 .. w + 1 /\ p \in DOMAIN small /\ q.inner
        /\ l \in DOMAIN small /\ l # p /\ DOMAIN big = DOMAIN small \cup {r} /\ r \notin DOMAIN small
        /\ ChildAt(small, p, i) = l
    BY DEF Divides
  <2> QED
    BY <2>2, <2>3
<1>2. lo2[p] = a /\ hi2[p] = b /\ h2[p] = h[p]
  BY <1>1 DEF DividesLabels, Same
<1>3. \A j \in 1 .. w + 2 :
        q.child_ids[j] = IF j < i + 1 THEN n.child_ids[j] ELSE IF j = i + 1 THEN r ELSE n.child_ids[j - 1]
  <2>1. IsInner(n, Keys, PageIds)
    BY <1>1 DEF Divides, Shapes, ShapeOK
  <2>2. Len(n.child_ids) + 1 = w + 2
    BY <1>1, <2>1 DEF IsInner
  <2> QED
    BY <2>2 DEF Divides, IsWith
<1>4. \A j \in 0 .. w + 2 :
        Cut(q, a, b, j) = IF j < i THEN Cut(n, a, b, j) ELSE IF j = i THEN m ELSE Cut(n, a, b, j - 1)
  <2>1. KeysWith(q, n, i, m)
    BY DEF Divides
  <2>2. Len(n.keys) \in Nat /\ i \in 1 .. Len(n.keys) + 1
    BY <1>1
  <2> HIDE DEF q, n, a, b
  <2>3. SUFFICES ASSUME NEW j \in 0 .. Len(n.keys) + 2
                 PROVE  Cut(q, a, b, j) = IF j < i THEN Cut(n, a, b, j) ELSE IF j = i THEN m ELSE Cut(n, a, b, j - 1)
    OBVIOUS
  <2> QED
    BY ONLY <2>1, <2>2, <2>3, CutsWith
<1>5. \A j \in 1 .. w + 2 :
        Link(DOMAIN big, lo2, hi2, h2, q.child_ids[j], Cut(q, a, b, j - 1), Cut(q, a, b, j), h[p])
  <2>1. p \in DOMAIN big
    BY <1>1
  <2>2. LinksOK(DOMAIN big, lo2, hi2, h2, q, a, b, h[p])
    BY <1>1, <1>2, <2>1 DEF Skeleton, Links
  <2>3. Len(q.keys) + 1 = w + 2
    BY <1>1
  <2> QED
    BY <2>2, <2>3 DEF LinksOK
<1>7. n.child_ids[i] = l
  BY <1>1 DEF ChildAt
<1>6. /\ i \in 1 .. w + 2 /\ i + 1 \in 1 .. w + 2 /\ q.child_ids[i] = l /\ q.child_ids[i + 1] = r
  <2> HIDE DEF n, q, w, a, b
  <2>1. i \in 1 .. w + 2 /\ i + 1 \in 1 .. w + 2 /\ i < i + 1 /\ ~(i + 1 < i + 1)
    BY <1>1
  <2> QED
    BY <1>3, <1>7, <2>1
<1>8. \A j \in 1 .. w + 2 : /\ q.child_ids[j] \in DOMAIN big
                            /\ j # i => q.child_ids[j] # l
                            /\ j # i + 1 => q.child_ids[j] # r
  <2>1. SUFFICES ASSUME NEW j \in 1 .. w + 2
                 PROVE  /\ q.child_ids[j] \in DOMAIN big
                        /\ j # i => q.child_ids[j] # l
                        /\ j # i + 1 => q.child_ids[j] # r
    OBVIOUS
  <2>2. j \in 1 .. Len(q.keys) + 1 /\ i \in 1 .. Len(q.keys) + 1 /\ i + 1 \in 1 .. Len(q.keys) + 1 /\ p \in DOMAIN big
    <3>1. Len(q.keys) + 1 = w + 2
      BY <1>1
    <3> QED
      BY <1>1, <1>6, <2>1, <3>1
  <2>3. ChildAt(big, p, j) = q.child_ids[j] /\ ChildAt(big, p, i) = l /\ ChildAt(big, p, i + 1) = r
    BY <1>6 DEF ChildAt
  <2>4. ChildAt(big, p, j) \in DOMAIN big
    BY <1>1, <2>2, ChildIsBelow
  <2>5. ASSUME ChildAt(big, p, j) = ChildAt(big, p, i) PROVE j = i
    BY <1>1, <2>2, <2>5, OnlyParent
  <2>6. ASSUME ChildAt(big, p, j) = ChildAt(big, p, i + 1) PROVE j = i + 1
    BY <1>1, <2>2, <2>6, OnlyParent
  <2> QED
    BY <2>3, <2>4, <2>5, <2>6
<1>9. /\ \A x \in DOMAIN small : x # l => Same(lo, hi, h, lo2, hi2, h2, x)
      /\ lo2[l] = lo[l] /\ hi2[l] = m /\ h2[l] = h[l]
      /\ lo2[r] = m /\ hi2[r] = hi[l] /\ h2[r] = h[l]
  BY DEF DividesLabels
<1>10. ChildAt(big, p, i) = l /\ ChildAt(big, p, i + 1) = r
       /\ i \in 1 .. Len(big[p].keys) + 1 /\ i + 1 \in 1 .. Len(big[p].keys) + 1
  <2>1. Len(q.keys) + 1 = w + 2
    BY <1>1
  <2> QED
    BY <1>6, <2>1 DEF ChildAt
<1> HIDE DEF n, q, w, a, b
<1>11. ASSUME NEW j \in 1 .. w + 1
       PROVE  Link(DOMAIN small, lo, hi, h, n.child_ids[j], Cut(n, a, b, j - 1), Cut(n, a, b, j), h[p])
  <2>1. CASE j < i
    <3>1. j \in 1 .. w + 2 /\ j \in 0 .. w + 2 /\ j - 1 \in 0 .. w + 2 /\ j - 1 < i /\ j < i + 1 /\ j # i /\ j # i + 1
      BY <1>1, <1>11, <2>1
    <3>2. q.child_ids[j] = n.child_ids[j] /\ Cut(q, a, b, j - 1) = Cut(n, a, b, j - 1) /\ Cut(q, a, b, j) = Cut(n, a, b, j)
      BY <1>3, <1>4, <2>1, <3>1
    <3>3. n.child_ids[j] \in DOMAIN small /\ n.child_ids[j] # l
      BY <1>1, <1>8, <3>1, <3>2
    <3>4. Link(DOMAIN big, lo2, hi2, h2, n.child_ids[j], Cut(n, a, b, j - 1), Cut(n, a, b, j), h[p])
      BY <1>5, <3>1, <3>2
    <3> QED
      BY <1>9, <3>3, <3>4 DEF Link, Same
  <2>2. CASE j = i
    <3>1. i \in 1 .. w + 2 /\ i \in 0 .. w + 2 /\ i - 1 \in 0 .. w + 2 /\ i - 1 < i /\ ~(i < i)
      BY <1>1
    <3>2. Cut(q, a, b, i - 1) = Cut(n, a, b, i - 1) /\ Cut(q, a, b, i) = m
      BY <1>4, <3>1
    <3>3. lo2[l] = Cut(n, a, b, i - 1) /\ h[p] = h2[l] + 1
      <4>1. Link(DOMAIN big, lo2, hi2, h2, q.child_ids[i], Cut(q, a, b, i - 1), Cut(q, a, b, i), h[p])
        BY <1>5, <3>1
      <4> QED
        BY <1>6, <3>2, <4>1 DEF Link
    <3>4. hi2[r] = Cut(n, a, b, i)
      <4>1. i + 1 \in 1 .. w + 2 /\ i + 1 \in 0 .. w + 2 /\ ~(i + 1 < i) /\ i + 1 # i /\ (i + 1) - 1 = i
        BY <1>1
      <4>2. Link(DOMAIN big, lo2, hi2, h2, q.child_ids[i + 1], Cut(q, a, b, (i + 1) - 1), Cut(q, a, b, i + 1), h[p])
        BY <1>5, <4>1
      <4>3. Cut(q, a, b, i + 1) = Cut(n, a, b, (i + 1) - 1)
        BY <1>4, <4>1
      <4>4. hi2[r] = Cut(q, a, b, i + 1)
        BY <1>6, <4>2 DEF Link
      <4> QED
        BY <4>1, <4>3, <4>4
    <3> QED
      BY <1>1, <1>7, <1>9, <2>2, <3>3, <3>4 DEF Link
  <2>3. CASE j > i
    <3> DEFINE e == j + 1
    <3>1. /\ e \in 1 .. w + 2 /\ e \in 0 .. w + 2 /\ j \in 0 .. w + 2 /\ ~(j < i) /\ j # i /\ e - 1 = j
          /\ ~(e < i) /\ e # i /\ ~(e < i + 1) /\ e # i + 1
      BY <1>1, <1>11, <2>3
    <3> HIDE DEF e
    <3>2. q.child_ids[e] = n.child_ids[j] /\ Cut(q, a, b, j) = Cut(n, a, b, j - 1) /\ Cut(q, a, b, e) = Cut(n, a, b, j)
      <4>1. q.child_ids[e] = n.child_ids[e - 1]
        BY <1>3, <3>1
      <4>2. Cut(q, a, b, e) = Cut(n, a, b, e - 1)
        BY <1>4, <3>1
      <4>3. Cut(q, a, b, j) = Cut(n, a, b, j - 1)
        BY <1>4, <3>1
      <4> QED
        BY <3>1, <4>1, <4>2, <4>3
    <3>3. n.child_ids[j] \in DOMAIN small /\ n.child_ids[j] # l
      BY <1>1, <1>8, <3>1, <3>2
    <3>4. Link(DOMAIN big, lo2, hi2, h2, n.child_ids[j], Cut(n, a, b, j - 1), Cut(n, a, b, j), h[p])
      <4>1. Link(DOMAIN big, lo2, hi2, h2, q.child_ids[e], Cut(q, a, b, e - 1), Cut(q, a, b, e), h[p])
        BY <1>5, <3>1
      <4> QED
        BY <3>1, <3>2, <4>1
    <3> QED
      BY <1>9, <3>3, <3>4 DEF Link, Same
  <2> QED
    BY <1>1, <1>11, <2>1, <2>2, <2>3
<1>12. LinksOK(DOMAIN small, lo, hi, h, small[p], lo[p], hi[p], h[p])
  BY <1>11 DEF LinksOK, n, w, a, b
<1> QED
  BY <1>10, <1>12

(* The inner nodes of a tree of which two siblings are joined. *)
LEMMA JoinSkeleton ==
  ASSUME NEW small, NEW big, NEW p, NEW i, NEW l, NEW r, NEW m, Divides(small, big, p, i, l, r, m),
         NEW lo, NEW hi, NEW h, NEW lo2, NEW hi2, NEW h2, Skeleton(big, lo2, hi2, h2),
         DividesLabels(DOMAIN small, lo, hi, h, lo2, hi2, h2, l, r, m)
  PROVE  /\ Skeleton(small, lo, hi, h) /\ h[p] = h[l] + 1
         /\ lo[l] \in Int /\ m \in Int /\ hi[l] \in Int /\ lo[l] < m /\ m < hi[l]
<1> DEFINE D == DOMAIN small
           E == DOMAIN big
<1>1. /\ p \in D /\ l \in D /\ l # p /\ r \in PageIds \ D /\ E = D \cup {r} /\ big[p].inner
      /\ \A x \in D : x # l /\ x # p => big[x] = small[x]
      /\ Shapes(small)
  BY DEF Divides
<1>2. /\ E \subseteq PageIds /\ Labels(lo2, hi2, h2) /\ Spans(E, lo2, hi2) /\ Laminar(E, lo2, hi2, h2)
  BY DEF Skeleton
<1>3. /\ \A x \in D : x # l => Same(lo, hi, h, lo2, hi2, h2, x)
      /\ lo2[l] = lo[l] /\ hi2[l] = m /\ h2[l] = h[l]
      /\ lo2[r] = m /\ hi2[r] = hi[l] /\ h2[r] = h[l] /\ Labels(lo, hi, h)
  BY DEF DividesLabels
<1>4. /\ LinksOK(D, lo, hi, h, small[p], lo[p], hi[p], h[p])
      /\ ChildAt(big, p, i) = l /\ ChildAt(big, p, i + 1) = r
      /\ i \in 1 .. Len(big[p].keys) + 1 /\ i + 1 \in 1 .. Len(big[p].keys) + 1
  BY ParentOfOne
<1>5. /\ h2[p] = h2[l] + 1 /\ lo2[p] <= lo2[l] /\ h2[p] = h2[r] + 1 /\ hi2[r] <= hi2[p]
      /\ lo2[l] < hi2[l] /\ lo2[r] < hi2[r]
  <2>1. p \in E
    BY <1>1
  <2>2. h2[p] = h2[l] + 1 /\ lo2[p] <= lo2[l] /\ lo2[l] < hi2[l]
    BY <1>1, <1>4, <2>1, ChildIsBelow
  <2>3. h2[p] = h2[r] + 1 /\ hi2[r] <= hi2[p] /\ lo2[r] < hi2[r]
    BY <1>1, <1>4, <2>1, ChildIsBelow
  <2> QED
    BY <2>2, <2>3
<1>6. lo[l] \in Int /\ m \in Int /\ hi[l] \in Int /\ lo[l] < m /\ m < hi[l] /\ h[l] \in Nat
  BY <1>1, <1>2, <1>3, <1>5 DEF Labels
<1>7. Spans(D, lo, hi)
  <2>1. ASSUME NEW x \in D PROVE -1 <= lo[x] /\ lo[x] < hi[x] /\ hi[x] <= Top
    <3>1. CASE x = l
      <4>1. -1 <= lo2[l] /\ hi2[r] <= Top
        BY <1>1, <1>2 DEF Spans
      <4> QED
        BY <1>3, <1>6, <3>1, <4>1
    <3>2. CASE x # l
      BY <1>1, <1>2, <1>3, <3>2 DEF Same, Spans
    <3> QED
      BY <3>1, <3>2
  <2> QED
    BY <2>1 DEF Spans
<1>8. Laminar(D, lo, hi, h)
  <2>1. /\ l \in E /\ r \in E /\ l # r /\ p \in E /\ h2[l] = h2[r] /\ hi2[l] = lo2[r]
        /\ lo[l] = lo2[l] /\ hi[l] = hi2[r] /\ h[l] = h2[l]
        /\ \A x \in E : x # l /\ x # r => Same(lo2, hi2, h2, lo, hi, h, x)
    BY <1>1, <1>3 DEF Same
  <2>2. E \ {r} = D
    BY <1>1
  <2> HIDE DEF E, D
  <2>3. Laminar(E \ {r}, lo, hi, h)
    BY <1>2, <1>3, <1>5, <2>1, LaminarJoin
  <2> QED
    BY <2>2, <2>3
<1>9. Links(small, lo, hi, h)
  <2>1. SUFFICES ASSUME NEW x \in D, small[x].inner
                 PROVE  LinksOK(D, lo, hi, h, small[x], lo[x], hi[x], h[x])
    BY DEF Links
  <2>2. CASE x = p
    BY <1>4, <2>2
  <2>3. CASE x # p /\ x # l
    <3> DEFINE Ch == {l, r}
    <3>1. big[x] = small[x] /\ x \in E \ Ch /\ p \in E
      BY <1>1, <2>3
    <3>2. ChildrenOf(big, p, Ch)
      BY <1>4 DEF ChildrenOf
    <3>3. Elsewhere(E, lo2, hi2, h2, D, lo, hi, h, Ch)
      BY <1>1, <1>3 DEF Elsewhere, Same
    <3>4. big[x].inner
      BY <2>1, <3>1
    <3> HIDE DEF Ch, D
    <3>5. LinksOK(D, lo, hi, h, big[x], lo[x], hi[x], h[x])
      BY <1>1, <2>3, <3>1, <3>2, <3>3, <3>4, OthersKeepLinks
    <3> QED
      BY <3>1, <3>5
  <2>4. CASE x = l
    <3>1. /\ small[l].inner = big[l].inner /\ small[l].inner = big[r].inner
          /\ Len(big[l].keys) \in Nat /\ Len(big[r].keys) \in Nat
      <4>1. D \subseteq PageIds
        BY <1>1, <1>2
      <4> QED
        BY <4>1, DividesFacts
    <3>2. big[l].inner /\ big[r].inner /\ InnerJoin(small[l], big[l], m, big[r])
      BY <2>1, <2>4, <3>1 DEF Divides, LeafJoin
    <3>3. LinksOK(E, lo2, hi2, h2, big[l], lo[l], m, h[l]) /\ LinksOK(E, lo2, hi2, h2, big[r], m, hi[l], h[l])
      <4>1. l \in E /\ r \in E
        BY <1>1
      <4>2. LinksOK(E, lo2, hi2, h2, big[l], lo2[l], hi2[l], h2[l])
            /\ LinksOK(E, lo2, hi2, h2, big[r], lo2[r], hi2[r], h2[r])
        BY <3>2, <4>1 DEF Skeleton, Links
      <4> QED
        BY <1>3, <4>2
    <3>4. LinksOK(E, lo2, hi2, h2, small[l], lo[l], hi[l], h[l])
      <4> DEFINE n == small[l]
                 ln == big[l]
                 rn == big[r]
                 a == lo[l]
                 b == hi[l]
                 t == h[l]
      <4>1. InnerJoin(n, ln, m, rn) /\ Len(ln.keys) \in Nat /\ Len(rn.keys) \in Nat
            /\ LinksOK(E, lo2, hi2, h2, ln, a, m, t) /\ LinksOK(E, lo2, hi2, h2, rn, m, b, t)
        BY <3>1, <3>2, <3>3
      <4> HIDE DEF n, ln, rn, a, b, t, E
      <4>2. HalvesAgree(E, lo2, hi2, h2, n, ln, m, rn, a, b, t)
        BY <4>1, HalvesLinks
      <4> QED
        BY <4>1, <4>2 DEF HalvesAgree, n, a, b, t
    <3>5. LinksOK(D, lo, hi, h, small[l], lo[l], hi[l], h[l])
      <4>1. SUFFICES ASSUME NEW j \in 1 .. Len(small[l].keys) + 1
                     PROVE  Link(D, lo, hi, h, small[l].child_ids[j], Cut(small[l], lo[l], hi[l], j - 1),
                                 Cut(small[l], lo[l], hi[l], j), h[l])
        BY DEF LinksOK
      <4>2. Link(E, lo2, hi2, h2, small[l].child_ids[j], Cut(small[l], lo[l], hi[l], j - 1),
                 Cut(small[l], lo[l], hi[l], j), h[l])
        BY <3>4 DEF LinksOK
      <4> DEFINE z == small[l].child_ids[j]
      <4>3. z \in E /\ h[l] = h2[z] + 1
        BY <4>2 DEF Link
      <4>4. z # l /\ z # r
        <5> HIDE DEF z
        <5> QED
          BY <1>3, <1>6, <4>3
      <4> HIDE DEF z
      <4>5. z \in D /\ Same(lo, hi, h, lo2, hi2, h2, z)
        BY <1>1, <1>3, <4>3, <4>4
      <4> QED
        BY <4>2, <4>5 DEF Link, Same, z
    <3> QED
      BY <2>4, <3>5
  <2> QED
    BY <2>2, <2>3, <2>4
<1> QED
  BY <1>1, <1>2, <1>3, <1>5, <1>6, <1>7, <1>8, <1>9 DEF Skeleton, Same

(* The leaves of such a tree. *)
LEMMA JoinLeaves ==
  ASSUME NEW small, NEW big, NEW p, NEW i, NEW l, NEW r, NEW m, Divides(small, big, p, i, l, r, m),
         NEW lo, NEW hi, NEW h, NEW lo2, NEW hi2, NEW h2, Skeleton(big, lo2, hi2, h2),
         DividesLabels(DOMAIN small, lo, hi, h, lo2, hi2, h2, l, r, m),
         NEW odd, NEW k \in Int, Leaves(big, lo2, hi2, h2, odd, k), OddOK(big, hi2, odd, k), odd # l
  PROVE  Leaves(small, lo, hi, h, Heir(odd, r, l), k) /\ OddOK(small, hi, Heir(odd, r, l), k)
<1> DEFINE D == DOMAIN small
           E == DOMAIN big
           odd2 == Heir(odd, r, l)
<1>1. /\ p \in D /\ l \in D /\ l # p /\ r \in PageIds /\ r \notin D /\ E = D \cup {r}
      /\ small[p].inner /\ big[p].inner
      /\ \A x \in D : x # l /\ x # p => big[x] = small[x]
      /\ Shapes(big) /\ Shapes(small)
  BY DEF Divides
<1>2. /\ \A x \in D : x # l => Same(lo, hi, h, lo2, hi2, h2, x)
      /\ lo2[l] = lo[l] /\ hi2[l] = m /\ h2[l] = h[l]
      /\ lo2[r] = m /\ hi2[r] = hi[l] /\ h2[r] = h[l]
  BY DEF DividesLabels
<1>6. 0 \notin PageIds /\ E \subseteq PageIds /\ D \subseteq PageIds
  BY <1>1, MaxPagesAssumption DEF PageIds, Skeleton
<1>3. /\ small[l].inner = big[l].inner /\ small[l].inner = big[r].inner
      /\ Len(big[r].keys) \in Nat /\ Len(big[l].keys) \in Nat
  BY <1>6, DividesFacts
<1>4. lo[l] \in Int /\ hi[l] \in Int /\ m \in Int /\ lo[l] < m /\ m < hi[l]
  BY JoinSkeleton
<1>5. odd2 = IF odd = r THEN l ELSE odd
  BY DEF Heir
<1> HIDE DEF odd2
<1>7. ASSUME NEW x \in D, x # l, ~small[x].inner
      PROVE  x # p /\ big[x] = small[x] /\ ~big[x].inner /\ (x = odd2 <=> x = odd) /\ x # r
  BY <1>1, <1>5, <1>7
<1>8. ASSUME ~small[l].inner
      PROVE  LeafOK(D, lo, h, small[l], lo[l], hi[l], h[l], l = odd2, k) /\ LeafJoin(small[l], big[l], m, big[r])
  <2> DEFINE n == small[l]
             ln == big[l]
             rn == big[r]
             a == lo[l]
             b == hi[l]
  <2>1. LeafJoin(n, ln, m, rn)
    BY <1>8 DEF Divides, InnerJoin
  <2>2. IsOuter(n, Keys, Values, PageIds) /\ IsOuter(ln, Keys, Values, PageIds) /\ IsOuter(rn, Keys, Values, PageIds)
    BY <1>1, <1>3, <1>8 DEF Shapes, ShapeOK
  <2>3. LeafOK(E, lo2, h2, ln, a, m, h[l], l = odd, k) /\ LeafOK(E, lo2, h2, rn, m, b, h[l], r = odd, k)
    <3>1. l \in E /\ r \in E /\ ~big[l].inner /\ ~big[r].inner
      BY <1>1, <1>3, <1>8
    <3> QED
      BY <1>2, <3>1 DEF Leaves
  <2>4. a \in Int /\ b \in Int /\ m < b
    BY <1>4
  <2>5. n.next_lef_id = rn.next_lef_id
    BY <2>1 DEF LeafJoin
  <2>10. l = odd2 <=> r = odd
    BY <1>1, <1>5
  <2> DEFINE z == n.next_lef_id
  <2>11. NextOK(D, lo, h, z, b)
    <3>1. NextOK(E, lo2, h2, z, b)
      BY <2>3, <2>5 DEF LeafOK
    <3>2. CASE z = 0
      BY <3>1, <3>2 DEF NextOK
    <3>3. CASE z # 0
      <4>1. z \in E /\ h2[z] = 0 /\ lo2[z] = hi[l]
        BY <3>1, <3>3 DEF NextOK
      <4> HIDE DEF z
      <4>2. z # l /\ z # r
        BY <1>2, <1>4, <4>1
      <4>3. z \in D /\ h[z] = 0 /\ lo[z] = b
        BY <1>1, <1>2, <4>1, <4>2 DEF Same
      <4> HIDE DEF D
      <4> QED
        BY <3>3, <4>3 DEF NextOK
    <3> QED
      BY <3>2, <3>3
  <2> HIDE DEF n, ln, rn, a, b
  <2>6. HalvesKeys(n, ln, m, rn, a, b, k)
    BY <2>1, <2>2, <2>4, HalvesOfLeaf
  <2>7. h[l] = 0 /\ KeysOK(ln, a, m) /\ (r # odd => KeysOK(rn, m, b)) /\ (r = odd => OddKeysOK(rn, m, b, k))
    BY <2>3 DEF LeafOK
  <2>9. /\ (l # odd2 => KeysOK(n, a, b)) /\ (l = odd2 => OddKeysOK(n, a, b, k))
    BY <2>4, <2>6, <2>7, <2>10 DEF HalvesKeys
  <2>12. LeafOK(D, lo, h, n, a, b, h[l], l = odd2, k)
    BY <2>7, <2>9, <2>11 DEF LeafOK
  <2> QED
    BY <2>1, <2>12 DEF n, ln, rn, a, b
<1>9. ASSUME NEW x \in D, ~small[x].inner
      PROVE  LeafOK(D, lo, h, small[x], lo[x], hi[x], h[x], x = odd2, k)
  <2>1. CASE x = l
    BY <1>8, <1>9, <2>1
  <2>3. CASE x # l
    <3>1. big[x] = small[x] /\ ~big[x].inner /\ (x = odd2 <=> x = odd) /\ x # r /\ x \in E
      BY <1>1, <1>7, <1>9, <2>3
    <3>2. LeafOK(E, lo2, h2, small[x], lo2[x], hi2[x], h2[x], x = odd, k)
      BY <3>1 DEF Leaves
    <3>3. Same(lo, hi, h, lo2, hi2, h2, x)
      BY <1>2, <2>3
    <3>4. NextOK(D, lo, h, small[x].next_lef_id, hi[x])
      <4> DEFINE Ch == {l, r}
                 next == small[x].next_lef_id
      <4>1. Elsewhere(E, lo2, hi2, h2, D, lo, hi, h, Ch)
        BY <1>1, <1>2 DEF Elsewhere, Same
      <4>4. BeforeToo(E, lo2, hi2, h2, D, lo, h, Ch)
        <5>1. l \in D /\ lo[l] = lo2[l] /\ h[l] = h2[l] /\ l \in Ch \cap E /\ h2[l] = h2[r] /\ hi2[l] = lo2[r]
          BY <1>1, <1>2
        <5> HIDE DEF D, E
        <5> QED
          BY <5>1 DEF BeforeToo
      <4>5. x \in E \ Ch
        BY <2>3, <3>1
      <4>2. h2[x] = 0 /\ NextOK(E, lo2, h2, next, hi2[x])
        BY <3>2 DEF LeafOK
      <4> HIDE DEF Ch, D, next
      <4>3. NextOK(D, lo, h, next, hi[x])
        BY <4>1, <4>2, <4>4, <4>5, OthersKeepNext
      <4> QED
        BY <4>3 DEF next
    <3> HIDE DEF E, D
    <3> QED
      BY <3>1, <3>2, <3>3, <3>4 DEF LeafOK, Same
  <2> QED
    BY <2>1, <2>3
<1>10. ASSUME odd2 # 0
       PROVE  /\ odd2 \in D /\ ~small[odd2].inner
              /\ \A x \in D : ~small[x].inner /\ x # odd2 =>
                   \A j \in 1 .. Len(small[x].keys) : small[x].keys[j] <= hi[odd2] \/ k < small[x].keys[j]
  <2>1. odd # 0
    BY <1>1, <1>5, <1>6, <1>10
  <2>2. /\ odd \in E /\ ~big[odd].inner
        /\ \A x \in E : ~big[x].inner /\ x # odd =>
             \A j \in 1 .. Len(big[x].keys) : big[x].keys[j] <= hi2[odd] \/ k < big[x].keys[j]
    BY <2>1 DEF OddOK
  <2>3. odd2 \in D /\ ~small[odd2].inner /\ hi[odd2] = hi2[odd]
    <3>1. CASE odd = r
      BY <1>1, <1>2, <1>3, <1>5, <2>2, <3>1
    <3>2. CASE odd # r
      <4>1. odd # p /\ odd # l /\ big[odd] = small[odd] /\ Same(lo, hi, h, lo2, hi2, h2, odd)
        BY <1>1, <1>2, <2>2, <3>2
      <4> QED
        BY <1>1, <1>5, <2>2, <3>2, <4>1 DEF Same
    <3> QED
      BY <3>1, <3>2
  <2>4. ASSUME NEW x \in D, ~small[x].inner, x # odd2, NEW j \in 1 .. Len(small[x].keys)
        PROVE  small[x].keys[j] <= hi2[odd] \/ k < small[x].keys[j]
    <3>1. CASE x # l
      BY <1>1, <1>7, <2>2, <2>4, <3>1
    <3>3. CASE x = l
      <4>0. odd # l /\ odd # r
        BY <1>5, <2>4, <3>3
      <4>1. l \in E /\ r \in E /\ ~big[l].inner /\ ~big[r].inner
        BY <1>1, <1>3, <2>4, <3>3
      <4>2. LeafJoin(small[l], big[l], m, big[r])
        BY <1>8, <2>4, <3>3
      <4>3. \/ \E y \in 1 .. Len(big[l].keys) : small[l].keys[j] = big[l].keys[y]
            \/ \E y \in 1 .. Len(big[r].keys) : small[l].keys[j] = big[r].keys[y]
        <5> DEFINE n == small[l]
                   ln == big[l]
                   rn == big[r]
                   w == Len(ln.keys)
                   v == Len(rn.keys)
                   z == Len(n.keys)
        <5>2. /\ z = w + v /\ w \in Nat /\ v \in Nat
              /\ \A y \in 1 .. w : n.keys[y] = ln.keys[y]
              /\ \A y \in 1 .. v : n.keys[w + y] = rn.keys[y]
          BY <1>3, <4>2 DEF LeafJoin
        <5>3. j \in 1 .. z
          BY <2>4, <3>3
        <5> HIDE DEF n, ln, rn, w, v, z
        <5>4. CASE j <= w
          BY <5>2, <5>3, <5>4 DEF n, ln, w
        <5>5. CASE j > w
          <6> DEFINE y == j - w
          <6>1. y \in 1 .. v /\ w + y = j
            BY <5>2, <5>3, <5>5
          <6> HIDE DEF y
          <6>2. n.keys[j] = rn.keys[y]
            BY <5>2, <6>1
          <6> QED
            BY <6>1, <6>2 DEF n, rn, v
        <5> QED
          BY <5>2, <5>3, <5>4, <5>5
      <4> QED
        BY <2>2, <3>3, <4>0, <4>1, <4>3
    <3> QED
      BY <3>1, <3>3
  <2> QED
    BY <2>3, <2>4
<1>11. Leaves(small, lo, hi, h, odd2, k)
  BY <1>9 DEF Leaves
<1>12. OddOK(small, hi, odd2, k)
  BY <1>10 DEF OddOK
<1> QED
  BY <1>11, <1>12 DEF odd2

(* Two siblings become one page: the tree is sound. *)
LEMMA JoinTree ==
  ASSUME NEW small, NEW big, NEW p, NEW i, NEW l, NEW r, NEW m, Divides(small, big, p, i, l, r, m),
         NEW root, NEW lo2, NEW hi2, NEW h2, NEW odd, NEW k \in Int, Tree(big, root, lo2, hi2, h2, odd, k),
         odd # l, NEW lo, NEW hi, NEW h,
         DividesLabels(DOMAIN small, lo, hi, h, lo2, hi2, h2, l, r, m)
  PROVE  Tree(small, root, lo, hi, h, Heir(odd, r, l), k)
<1>1. Skeleton(big, lo2, hi2, h2) /\ Leaves(big, lo2, hi2, h2, odd, k) /\ OddOK(big, hi2, odd, k)
      /\ RootOK(DOMAIN big, root, lo2, hi2, h2)
  BY DEF Tree
<1>3. Skeleton(small, lo, hi, h) /\ h[p] = h[l] + 1
  BY <1>1, JoinSkeleton
<1>4. Leaves(small, lo, hi, h, Heir(odd, r, l), k) /\ OddOK(small, hi, Heir(odd, r, l), k)
  BY <1>1, JoinLeaves
<1>5. RootOK(DOMAIN small, root, lo, hi, h)
  <2>1. /\ \A x \in DOMAIN small : x # l => Same(lo, hi, h, lo2, hi2, h2, x)
        /\ h2[l] = h[l] /\ h2[r] = h[l]
    BY DEF DividesLabels
  <2>2. /\ DOMAIN big = DOMAIN small \cup {r} /\ p \in DOMAIN small /\ l \in DOMAIN small /\ l # p
    BY DEF Divides
  <2>3. h2[p] = h2[l] + 1 /\ h2[p] = h2[r] + 1 /\ h[l] \in Nat
    <3>1. Same(lo, hi, h, lo2, hi2, h2, p)
      BY <2>1, <2>2
    <3> QED
      BY <1>3, <2>1, <2>2, <3>1 DEF Same, Skeleton, Labels
  <2>5. /\ root \in DOMAIN big /\ lo2[root] = -1 /\ hi2[root] = Top /\ \A x \in DOMAIN big : h2[x] <= h2[root]
    BY <1>1 DEF RootOK
  <2>4. root # l /\ root # r
    <3>1. h2[p] <= h2[root]
      BY <2>2, <2>5
    <3> QED
      BY <2>1, <2>3, <3>1
  <2>6. Same(lo, hi, h, lo2, hi2, h2, root) /\ root \in DOMAIN small
    BY <2>1, <2>2, <2>4, <2>5
  <2>7. \A x \in DOMAIN small : h[x] <= h[root]
    BY <2>1, <2>2, <2>5, <2>6 DEF Same
  <2> QED
    BY <2>5, <2>6, <2>7 DEF RootOK, Same
<1> QED
  BY <1>3, <1>4, <1>5 DEF Tree

-----------------------------------------------------------------------------
(* The places of two parts in the whole. *)
LEMMA PlacesOfHalves ==
  ASSUME NEW w \in Nat, NEW u \in Nat, NEW v \in Nat, w = u + v
  PROVE  (\A j \in 1 .. u : j \in 1 .. w) /\ (\A j \in 1 .. v : u + j \in 1 .. w)
  OBVIOUS

(* The entries in the leaves. *)
HasEntry(n, q, v) == \E j \in 1 .. Len(n.keys) : n.keys[j] = q /\ n.values[j] = v
Held(pg, q, v) == \E x \in DOMAIN pg : ~pg[x].inner /\ HasEntry(pg[x], q, v)
SameHeld(pg, pg2) == \A q, v : Held(pg, q, v) <=> Held(pg2, q, v)

(* An entry of one of two leaves is an entry of the leaf they make, and    *)
(* the other way round.                                                    *)
LEMMA HeldByHalves ==
  ASSUME NEW n, NEW l, NEW m, NEW r, LeafJoin(n, l, m, r), Len(l.keys) \in Nat, Len(r.keys) \in Nat,
         NEW q, NEW v
  PROVE  HasEntry(n, q, v) <=> HasEntry(l, q, v) \/ HasEntry(r, q, v)
<1> DEFINE w == Len(l.keys)
           u == Len(r.keys)
<1>1. /\ Len(n.keys) = w + u /\ w \in Nat /\ u \in Nat
      /\ \A i \in 1 .. w : n.keys[i] = l.keys[i] /\ n.values[i] = l.values[i]
      /\ \A i \in 1 .. u : n.keys[w + i] = r.keys[i] /\ n.values[w + i] = r.values[i]
  BY DEF LeafJoin
<1> HIDE DEF w, u
<1>2. ASSUME NEW j \in 1 .. w + u, n.keys[j] = q, n.values[j] = v
      PROVE  \/ \E i \in 1 .. w : l.keys[i] = q /\ l.values[i] = v
             \/ \E i \in 1 .. u : r.keys[i] = q /\ r.values[i] = v
  <2>1. CASE j \in 1 .. w
    BY <1>1, <1>2, <2>1
  <2>2. CASE j \notin 1 .. w
    <3>1. j - w \in 1 .. u /\ w + (j - w) = j
      BY <1>1, <1>2, <2>2
    <3>2. r.keys[j - w] = q /\ r.values[j - w] = v
      BY <1>1, <1>2, <3>1
    <3> QED
      BY <3>1, <3>2
  <2> QED
    BY <2>1, <2>2
<1>3. ASSUME NEW i \in 1 .. w, l.keys[i] = q, l.values[i] = v
      PROVE  \E j \in 1 .. w + u : n.keys[j] = q /\ n.values[j] = v
  <2>1. i \in 1 .. w + u /\ n.keys[i] = q /\ n.values[i] = v
    BY <1>1, <1>3
  <2> QED
    BY <2>1
<1>4. ASSUME NEW i \in 1 .. u, r.keys[i] = q, r.values[i] = v
      PROVE  \E j \in 1 .. w + u : n.keys[j] = q /\ n.values[j] = v
  <2>1. w + i \in 1 .. w + u /\ n.keys[w + i] = q /\ n.values[w + i] = v
    BY <1>1, <1>4
  <2> QED
    BY <2>1
<1> QED
  BY <1>1, <1>2, <1>3, <1>4 DEF w, u, HasEntry

(* Neither a split nor a merge adds, changes or loses an entry. *)
LEMMA DivisionKeepsHeld ==
  ASSUME NEW small, NEW big, NEW p, NEW i, NEW l, NEW r, NEW m, Divides(small, big, p, i, l, r, m),
         DOMAIN small \subseteq PageIds
  PROVE  SameHeld(small, big)
<1>1. /\ Len(small[l].keys) \in Nat /\ Len(big[l].keys) \in Nat /\ Len(big[r].keys) \in Nat
      /\ small[l].inner = big[l].inner /\ small[l].inner = big[r].inner
  BY DividesFacts
<1>2. /\ l \in DOMAIN small /\ DOMAIN big = DOMAIN small \cup {r} /\ big[p].inner /\ small[p].inner
      /\ \A x \in DOMAIN small : x # l /\ x # p => big[x] = small[x]
      /\ InnerJoin(small[l], big[l], m, big[r]) \/ LeafJoin(small[l], big[l], m, big[r])
  BY DEF Divides
<1>3. SUFFICES ASSUME NEW q, NEW v PROVE Held(small, q, v) <=> Held(big, q, v)
  BY DEF SameHeld
<1> DEFINE On(n) == ~n.inner /\ HasEntry(n, q, v)
           n == small[l]
           a == big[l]
           b == big[r]
<1>4. On(n) <=> On(a) \/ On(b)
  <2>1. /\ Len(n.keys) \in Nat /\ Len(a.keys) \in Nat /\ Len(b.keys) \in Nat
        /\ n.inner = a.inner /\ n.inner = b.inner
        /\ InnerJoin(n, a, m, b) \/ LeafJoin(n, a, m, b)
    BY <1>1, <1>2
  <2> HIDE DEF n, a, b
  <2>2. CASE n.inner
    BY <2>1, <2>2
  <2>3. CASE ~n.inner
    <3>1. LeafJoin(n, a, m, b)
      BY <2>1, <2>3 DEF InnerJoin
    <3>2. HasEntry(n, q, v) <=> HasEntry(a, q, v) \/ HasEntry(b, q, v)
      BY <2>1, <3>1, HeldByHalves
    <3> QED
      BY <2>1, <2>3, <3>2
  <2> QED
    BY <2>2, <2>3
<1>5. /\ Held(small, q, v) <=> \E x \in DOMAIN small : On(small[x])
      /\ Held(big, q, v) <=> \E x \in DOMAIN big : On(big[x])
  BY DEF Held
<1>6. ~On(small[p]) /\ ~On(big[p])
  BY <1>2
<1> HIDE DEF On
<1>7. \A x \in DOMAIN small : x # l => (On(small[x]) <=> On(big[x]))
  BY <1>2, <1>6
<1>8. (\E x \in DOMAIN small : On(small[x])) => \E x \in DOMAIN big : On(big[x])
  BY <1>2, <1>4, <1>7
<1>9. (\E x \in DOMAIN big : On(big[x])) => \E x \in DOMAIN small : On(small[x])
  BY <1>2, <1>4, <1>7
<1> QED
  BY <1>5, <1>8, <1>9

(* A change of inner nodes only leaves the entries as they are. *)
LEMMA SameLeavesHold ==
  ASSUME NEW pg, NEW pg2,
         \A x \in DOMAIN pg : ~pg[x].inner => x \in DOMAIN pg2 /\ pg2[x] = pg[x],
         \A x \in DOMAIN pg2 : ~pg2[x].inner => x \in DOMAIN pg /\ pg2[x] = pg[x]
  PROVE  SameHeld(pg, pg2)
<1>1. SUFFICES ASSUME NEW q, NEW v PROVE Held(pg, q, v) <=> Held(pg2, q, v)
  BY DEF SameHeld
<1> DEFINE On(n) == HasEntry(n, q, v)
<1>2. /\ Held(pg, q, v) <=> \E x \in DOMAIN pg : ~pg[x].inner /\ On(pg[x])
      /\ Held(pg2, q, v) <=> \E x \in DOMAIN pg2 : ~pg2[x].inner /\ On(pg2[x])
  BY DEF Held
<1> HIDE DEF On
<1> QED
  BY <1>2

-----------------------------------------------------------------------------
(* The steps that write pages: each leads from a sound tree to a sound     *)
(* tree.                                                                   *)

(* Leaves are the pages of height 0. *)
LEMMA LeavesAreLowest ==
  ASSUME NEW pg, NEW lo, NEW hi, NEW h, Skeleton(pg, lo, hi, h),
         NEW odd, NEW k, Leaves(pg, lo, hi, h, odd, k), NEW x \in DOMAIN pg
  PROVE  h[x] \in Nat /\ pg[x].inner \in BOOLEAN /\ (pg[x].inner <=> h[x] # 0)
<1>1. h[x] \in Nat /\ ShapeOK(pg[x])
  BY DEF Skeleton, Labels, Shapes
<1>2. CASE pg[x].inner
  <2>1. Len(pg[x].keys) \in Nat
    BY <1>1, <1>2, InnerFacts DEF ShapeOK
  <2>2. 1 \in 1 .. Len(pg[x].keys) + 1
    BY <2>1
  <2>3. ChildAt(pg, x, 1) \in DOMAIN pg /\ h[x] = h[ChildAt(pg, x, 1)] + 1
    BY <1>2, <2>2, ChildIsBelow
  <2>4. h[ChildAt(pg, x, 1)] \in Nat
    BY <2>3 DEF Skeleton, Labels
  <2> QED
    BY <1>1, <1>2, <2>3, <2>4 DEF ShapeOK
<1>3. CASE ~pg[x].inner
  BY <1>1, <1>3 DEF Leaves, LeafOK, ShapeOK
<1> QED
  BY <1>2, <1>3

(* Pages of one height are of one kind. *)
LEMMA SameKind ==
  ASSUME NEW pg, NEW lo, NEW hi, NEW h, Skeleton(pg, lo, hi, h),
         NEW odd, NEW k, Leaves(pg, lo, hi, h, odd, k), NEW x \in DOMAIN pg, NEW y \in DOMAIN pg,
         h[x] = h[y]
  PROVE  pg[x].inner = pg[y].inner
<1>1. h[x] \in Nat /\ pg[x].inner \in BOOLEAN /\ (pg[x].inner <=> h[x] # 0)
  BY LeavesAreLowest
<1>2. h[y] \in Nat /\ pg[y].inner \in BOOLEAN /\ (pg[y].inner <=> h[y] # 0)
  BY LeavesAreLowest
<1> QED
  BY <1>1, <1>2

(* Two siblings: one span ends where the other begins, and of leaves the   *)
(* right one is the next of the left one.                                  *)
LEMMA Siblings_ ==
  ASSUME NEW pg, NEW lo, NEW hi, NEW h, Skeleton(pg, lo, hi, h),
         NEW odd, NEW k, Leaves(pg, lo, hi, h, odd, k),
         NEW p \in DOMAIN pg, pg[p].inner, NEW i \in 1 .. Len(pg[p].keys)
  PROVE  LET l == ChildAt(pg, p, i)  r == ChildAt(pg, p, i + 1)  m == pg[p].keys[i] IN
         /\ l \in DOMAIN pg /\ r \in DOMAIN pg /\ l # r /\ l # p /\ r # p
         /\ h[p] = h[l] + 1 /\ h[p] = h[r] + 1 /\ h[l] = h[r]
         /\ m \in Int /\ m \in Keys /\ m < Top
         /\ hi[l] = m /\ lo[r] = m /\ lo[l] < m /\ m < hi[r] /\ lo[p] <= lo[l] /\ hi[r] <= hi[p]
         /\ pg[l].inner \in BOOLEAN /\ pg[l].inner = pg[r].inner
         /\ ~pg[l].inner => pg[l].next_lef_id = r
<1> DEFINE l == ChildAt(pg, p, i)
           r == ChildAt(pg, p, i + 1)
           m == pg[p].keys[i]
           w == Len(pg[p].keys)
<1>1. w \in Nat /\ m \in Int /\ m \in Keys
  BY InnerFacts DEF Skeleton, Shapes, ShapeOK
<1>2. m < Top
  BY <1>1, KeysAreInts
<1>3. i \in 1 .. w + 1 /\ i + 1 \in 1 .. w + 1 /\ i # 0 /\ i # w + 1 /\ (i + 1) - 1 = i
  BY <1>1
<1>4. Cut(pg[p], lo[p], hi[p], i) = m
  BY <1>3 DEF Cut
<1>5. l \in DOMAIN pg /\ h[p] = h[l] + 1 /\ hi[l] = m /\ lo[p] <= lo[l] /\ lo[l] < hi[l]
  BY <1>3, <1>4, ChildIsBelow
<1>6. r \in DOMAIN pg /\ h[p] = h[r] + 1 /\ lo[r] = m /\ hi[r] <= hi[p] /\ lo[r] < hi[r]
  BY <1>3, <1>4, ChildIsBelow
<1> HIDE DEF l, r, m, w
<1>7. \A x \in DOMAIN pg : h[x] \in Nat /\ lo[x] \in Int /\ hi[x] \in Int /\ hi[x] <= Top
  BY DEF Skeleton, Labels, Spans
<1>8. h[l] = h[r] /\ l # p /\ r # p /\ l # r
  BY <1>1, <1>5, <1>6, <1>7
<1>9. pg[l].inner = pg[r].inner /\ pg[l].inner \in BOOLEAN
  BY <1>5, <1>6, <1>8, SameKind DEF Skeleton, Shapes, ShapeOK
<1>10. ASSUME ~pg[l].inner PROVE pg[l].next_lef_id = r
  <2> DEFINE next == pg[l].next_lef_id
  <2>1. h[l] = 0 /\ NextOK(DOMAIN pg, lo, h, next, hi[l])
    BY <1>5, <1>10 DEF Leaves, LeafOK
  <2>2. hi[l] # Top
    BY <1>1, <1>2, <1>5
  <2>3. next \in DOMAIN pg /\ h[next] = 0 /\ lo[next] = hi[l]
    BY <2>1, <2>2 DEF NextOK
  <2> HIDE DEF next
  <2>4. h[next] = h[r] /\ lo[next] = lo[r]
    BY <1>5, <1>6, <1>8, <2>1, <2>3
  <2>5. next = r
    BY <1>6, <2>3, <2>4, OneEnd DEF Skeleton
  <2> QED
    BY <2>5 DEF next
<1> QED
  BY <1>1, <1>2, <1>5, <1>6, <1>8, <1>9, <1>10 DEF l, r, m

-----------------------------------------------------------------------------
(* A leaf's entries are changed: nothing but the leaf itself matters. *)
LEMMA LeafEdit ==
  ASSUME NEW pg, NEW root, NEW lo, NEW hi, NEW h, NEW odd, NEW k, Tree(pg, root, lo, hi, h, odd, k),
         NEW x \in DOMAIN pg, ~pg[x].inner, odd \in {0, x},
         NEW pg2, DOMAIN pg2 = DOMAIN pg, \A y \in DOMAIN pg : y # x => pg2[y] = pg[y],
         ShapeOK(pg2[x]), ~pg2[x].inner, pg2[x].next_lef_id = pg[x].next_lef_id,
         KeysOK(pg2[x], lo[x], hi[x]), NEW k2
  PROVE  Tree(pg2, root, lo, hi, h, 0, k2)
<1>1. /\ DOMAIN pg \subseteq PageIds /\ Shapes(pg) /\ Labels(lo, hi, h) /\ Spans(DOMAIN pg, lo, hi)
      /\ Laminar(DOMAIN pg, lo, hi, h) /\ Links(pg, lo, hi, h) /\ Leaves(pg, lo, hi, h, odd, k)
      /\ RootOK(DOMAIN pg, root, lo, hi, h)
  BY DEF Tree, Skeleton
<1>2. Shapes(pg2)
  BY <1>1 DEF Shapes
<1>3. Links(pg2, lo, hi, h)
  <2>1. SUFFICES ASSUME NEW y \in DOMAIN pg, pg2[y].inner
                 PROVE  LinksOK(DOMAIN pg, lo, hi, h, pg2[y], lo[y], hi[y], h[y])
    BY DEF Links
  <2>2. y # x /\ pg2[y] = pg[y]
    BY <2>1
  <2> QED
    BY <1>1, <2>1, <2>2 DEF Links
<1>4. Leaves(pg2, lo, hi, h, 0, k2)
  <2>1. SUFFICES ASSUME NEW y \in DOMAIN pg, ~pg2[y].inner
                 PROVE  LeafOK(DOMAIN pg, lo, h, pg2[y], lo[y], hi[y], h[y], y = 0, k2)
    BY DEF Leaves
  <2>2. y # 0
    BY <1>1 DEF PageIds
  <2>3. CASE y = x
    <3>1. h[x] = 0 /\ NextOK(DOMAIN pg, lo, h, pg[x].next_lef_id, hi[x])
      BY <1>1 DEF Leaves, LeafOK
    <3> QED
      BY <2>2, <2>3, <3>1 DEF LeafOK
  <2>4. CASE y # x
    <3>1. pg2[y] = pg[y] /\ y # odd
      BY <2>2, <2>4
    <3>2. LeafOK(DOMAIN pg, lo, h, pg[y], lo[y], hi[y], h[y], y = odd, k)
      BY <1>1, <2>1, <3>1 DEF Leaves
    <3> QED
      BY <2>2, <3>1, <3>2 DEF LeafOK
  <2> QED
    BY <2>3, <2>4
<1> QED
  BY <1>1, <1>2, <1>3, <1>4 DEF Tree, Skeleton, OddOK

-----------------------------------------------------------------------------
(* A new root above the old one, its only child. *)
LEMMA GrowRoot ==
  ASSUME NEW pg, NEW root, NEW lo, NEW hi, NEW h, NEW odd, NEW k, Tree(pg, root, lo, hi, h, odd, k),
         NEW new \in PageIds \ DOMAIN pg,
         NEW pg2, DOMAIN pg2 = DOMAIN pg \cup {new}, \A y \in DOMAIN pg : pg2[y] = pg[y],
         pg2[new] = InnerNode(<< >>, <<root>>),
         NEW lo2, NEW hi2, NEW h2, Labels(lo2, hi2, h2),
         \A y \in DOMAIN pg : Same(lo, hi, h, lo2, hi2, h2, y),
         lo2[new] = -1, hi2[new] = Top, h2[new] = h[root] + 1
  PROVE  Tree(pg2, new, lo2, hi2, h2, odd, k)
<1>1. /\ DOMAIN pg \subseteq PageIds /\ Shapes(pg) /\ Labels(lo, hi, h) /\ Spans(DOMAIN pg, lo, hi)
      /\ Laminar(DOMAIN pg, lo, hi, h) /\ Links(pg, lo, hi, h) /\ Leaves(pg, lo, hi, h, odd, k)
      /\ RootOK(DOMAIN pg, root, lo, hi, h) /\ OddOK(pg, hi, odd, k)
  BY DEF Tree, Skeleton
<1>2. \A y \in DOMAIN pg : lo2[y] = lo[y] /\ hi2[y] = hi[y] /\ h2[y] = h[y]
  BY DEF Same
<1>3. root \in DOMAIN pg /\ lo[root] = -1 /\ hi[root] = Top /\ \A y \in DOMAIN pg : h[y] <= h[root]
  BY <1>1 DEF RootOK
<1>4. Top \in Nat
  BY TopIsAbove
<1>5. \A y \in DOMAIN pg : lo[y] \in Int /\ hi[y] \in Int /\ h[y] \in Nat
                           /\ -1 <= lo[y] /\ lo[y] < hi[y] /\ hi[y] <= Top
  BY <1>1 DEF Labels, Spans
<1>6. pg2[new].inner /\ pg2[new].inner = TRUE /\ pg2[new].keys = << >> /\ pg2[new].child_ids = <<root>>
  BY DEF InnerNode
<1>7. IsInner(pg2[new], Keys, PageIds)
  <2>1. << >> \in Seq(Keys) /\ Len(<< >>) = 0
    OBVIOUS
  <2>2. <<root>> \in Seq(PageIds) /\ Len(<<root>>) = 1
    BY <1>1, <1>3
  <2>3. Ascending(<< >>)
    BY DEF Ascending
  <2>4. /\ pg2[new].keys \in Seq(Keys) /\ Len(pg2[new].keys) = 0 /\ Ascending(pg2[new].keys)
        /\ pg2[new].child_ids \in Seq(PageIds) /\ Len(pg2[new].child_ids) = 1
    BY <1>6, <2>1, <2>2, <2>3
  <2> DEFINE n == pg2[new]
  <2>5. /\ n.inner /\ n.keys \in Seq(Keys) /\ n.child_ids \in Seq(PageIds) /\ Ascending(n.keys)
        /\ Len(n.child_ids) = Len(n.keys) + 1
    <3>1. n.inner
      BY <1>6
    <3>2. n.keys \in Seq(Keys) /\ n.child_ids \in Seq(PageIds) /\ Ascending(n.keys)
      BY <2>4
    <3>3. Len(n.child_ids) = Len(n.keys) + 1
      <4>1. Len(n.keys) = 0 /\ Len(n.child_ids) = 1
        BY <2>4
      <4> QED
        BY ONLY <4>1
    <3> QED
      BY <3>1, <3>2, <3>3
  <2> HIDE DEF n
  <2>6. IsInner(n, Keys, PageIds)
    BY ONLY <2>5 DEF IsInner
  <2> QED
    BY <2>6 DEF n
<1>8. Shapes(pg2)
  <2>1. ShapeOK(pg2[new])
    BY <1>6, <1>7 DEF ShapeOK
  <2> QED
    BY <1>1, <2>1 DEF Shapes
<1>9. Spans(DOMAIN pg2, lo2, hi2)
  BY <1>2, <1>4, <1>5 DEF Spans
<1>10. Laminar(DOMAIN pg2, lo2, hi2, h2)
  <2>1. SUFFICES ASSUME NEW y \in DOMAIN pg2, NEW z \in DOMAIN pg2, y # z, h2[y] <= h2[z]
                 PROVE  Apart(lo2, hi2, y, z) \/ Below_(lo2, hi2, h2, y, z)
    BY DEF Laminar
  <2>2. y # new
    <3>1. SUFFICES ASSUME y = new PROVE FALSE
      OBVIOUS
    <3>2. z \in DOMAIN pg
      BY <2>1, <3>1
    <3> QED
      BY <1>2, <1>3, <1>5, <2>1, <3>1, <3>2
  <2>3. CASE z = new
    <3>1. y \in DOMAIN pg
      BY <2>2
    <3> QED
      BY <1>2, <1>3, <1>5, <2>3, <3>1 DEF Below_
  <2>4. CASE z # new
    <3>1. y \in DOMAIN pg /\ z \in DOMAIN pg
      BY <2>2, <2>4
    <3>2. Apart(lo, hi, y, z) \/ Below_(lo, hi, h, y, z)
      BY <1>1, <1>2, <2>1, <3>1 DEF Laminar
    <3> QED
      BY <1>2, <3>1, <3>2 DEF Apart, Below_
  <2> QED
    BY <2>3, <2>4
<1>11. Links(pg2, lo2, hi2, h2)
  <2>1. SUFFICES ASSUME NEW y \in DOMAIN pg2, pg2[y].inner
                 PROVE  LinksOK(DOMAIN pg2, lo2, hi2, h2, pg2[y], lo2[y], hi2[y], h2[y])
    BY DEF Links
  <2>2. CASE y = new
    <3>1. SUFFICES ASSUME NEW i \in 1 .. Len(pg2[y].keys) + 1
                   PROVE  Link(DOMAIN pg2, lo2, hi2, h2, pg2[y].child_ids[i],
                               Cut(pg2[y], lo2[y], hi2[y], i - 1), Cut(pg2[y], lo2[y], hi2[y], i), h2[y])
      BY DEF LinksOK
    <3>2. i = 1 /\ pg2[y].child_ids[i] = root /\ Len(pg2[y].keys) = 0
      BY <1>6, <2>2
    <3>3. Cut(pg2[y], lo2[y], hi2[y], i - 1) = -1 /\ Cut(pg2[y], lo2[y], hi2[y], i) = Top
      BY <2>2, <3>2 DEF Cut
    <3> QED
      BY <1>2, <1>3, <2>2, <3>2, <3>3 DEF Link
  <2>3. CASE y # new
    <3>1. y \in DOMAIN pg /\ pg2[y] = pg[y] /\ lo2[y] = lo[y] /\ hi2[y] = hi[y] /\ h2[y] = h[y]
      BY <1>2, <2>3
    <3>2. LinksOK(DOMAIN pg, lo, hi, h, pg[y], lo[y], hi[y], h[y])
      BY <1>1, <2>1, <3>1 DEF Links
    <3> QED
      BY <1>2, <3>1, <3>2 DEF LinksOK, Link
  <2> QED
    BY <2>2, <2>3
<1>12. Leaves(pg2, lo2, hi2, h2, odd, k)
  <2>1. SUFFICES ASSUME NEW y \in DOMAIN pg2, ~pg2[y].inner
                 PROVE  LeafOK(DOMAIN pg2, lo2, h2, pg2[y], lo2[y], hi2[y], h2[y], y = odd, k)
    BY DEF Leaves
  <2>2. y \in DOMAIN pg /\ pg2[y] = pg[y] /\ lo2[y] = lo[y] /\ hi2[y] = hi[y] /\ h2[y] = h[y]
    BY <1>2, <1>6, <2>1
  <2>3. LeafOK(DOMAIN pg, lo, h, pg[y], lo[y], hi[y], h[y], y = odd, k)
    BY <1>1, <2>1, <2>2 DEF Leaves
  <2>4. ASSUME NEW next, NEW b, NextOK(DOMAIN pg, lo, h, next, b) PROVE NextOK(DOMAIN pg2, lo2, h2, next, b)
    BY <1>2, <2>4 DEF NextOK
  <2> QED
    BY <2>2, <2>3, <2>4 DEF LeafOK
<1>13. OddOK(pg2, hi2, odd, k)
  BY <1>1, <1>2, <1>6 DEF OddOK
<1>14. RootOK(DOMAIN pg2, new, lo2, hi2, h2)
  <2>1. \A y \in DOMAIN pg2 : h2[y] <= h2[new]
    BY <1>2, <1>3, <1>5
  <2> QED
    BY <2>1 DEF RootOK
<1> QED
  BY <1>1, <1>8, <1>9, <1>10, <1>11, <1>12, <1>13, <1>14 DEF Tree, Skeleton

(* A root without keys is removed, its only child is the root now. *)
RootGone(pg, root, pg2, c) ==
  /\ pg[root].inner /\ pg[root].keys = << >> /\ c = pg[root].child_ids[1]
  /\ DOMAIN pg2 = DOMAIN pg \ {root} /\ \A y \in DOMAIN pg2 : pg2[y] = pg[y]
(* The only child of a root without keys becomes the root. *)
LEMMA ShrinksRoot ==
  ASSUME NEW pg, NEW root, NEW lo, NEW hi, NEW h, NEW odd, NEW k, Tree(pg, root, lo, hi, h, odd, k),
         NEW c, NEW pg2, RootGone(pg, root, pg2, c)
  PROVE  Tree(pg2, c, lo, hi, h, odd, k) /\ c \in DOMAIN pg2 /\ lo[c] = lo[root] /\ hi[c] = hi[root]
<1>0. /\ pg[root].inner /\ pg[root].keys = << >> /\ c = pg[root].child_ids[1]
      /\ DOMAIN pg2 = DOMAIN pg \ {root} /\ \A y \in DOMAIN pg2 : pg2[y] = pg[y]
  BY DEF RootGone
<1> USE <1>0
<1>1. /\ DOMAIN pg \subseteq PageIds /\ Shapes(pg) /\ Labels(lo, hi, h) /\ Spans(DOMAIN pg, lo, hi)
      /\ Laminar(DOMAIN pg, lo, hi, h) /\ Links(pg, lo, hi, h) /\ Leaves(pg, lo, hi, h, odd, k)
      /\ RootOK(DOMAIN pg, root, lo, hi, h) /\ OddOK(pg, hi, odd, k) /\ Skeleton(pg, lo, hi, h)
  BY DEF Tree, Skeleton
<1>2. root \in DOMAIN pg /\ lo[root] = -1 /\ hi[root] = Top /\ \A y \in DOMAIN pg : h[y] <= h[root]
  BY <1>1 DEF RootOK
<1>3. \A y \in DOMAIN pg : lo[y] \in Int /\ hi[y] \in Int /\ h[y] \in Nat
                           /\ -1 <= lo[y] /\ lo[y] < hi[y] /\ hi[y] <= Top
  BY <1>1 DEF Labels, Spans
<1>4. c \in DOMAIN pg /\ h[root] = h[c] + 1 /\ lo[c] = lo[root] /\ hi[c] = hi[root]
  <2>1. LinksOK(DOMAIN pg, lo, hi, h, pg[root], lo[root], hi[root], h[root])
    BY <1>1, <1>2 DEF Links
  <2>2. Len(pg[root].keys) = 0 /\ 1 \in 1 .. Len(pg[root].keys) + 1
    OBVIOUS
  <2>3. Link(DOMAIN pg, lo, hi, h, c, Cut(pg[root], lo[root], hi[root], 1 - 1),
             Cut(pg[root], lo[root], hi[root], 1), h[root])
    BY <2>1, <2>2 DEF LinksOK
  <2>4. Cut(pg[root], lo[root], hi[root], 1 - 1) = lo[root] /\ Cut(pg[root], lo[root], hi[root], 1) = hi[root]
    BY <2>2 DEF Cut
  <2> QED
    BY <2>3, <2>4 DEF Link
<1>5. c # root /\ h[root] # 0
  BY <1>3, <1>4
<1>6. \A y \in DOMAIN pg : y # root => h[y] <= h[c]
  <2>1. SUFFICES ASSUME NEW y \in DOMAIN pg, y # root, h[y] > h[c] PROVE FALSE
    BY <1>3, <1>4
  <2>2. h[y] = h[root]
    BY <1>2, <1>3, <1>4, <2>1
  <2>3. Apart(lo, hi, y, root) \/ Below_(lo, hi, h, y, root)
    BY <1>1, <1>2, <2>1 DEF Laminar
  <2>4. FALSE
    BY <1>2, <1>3, <2>2, <2>3 DEF Apart, Below_
  <2> QED
    BY <2>4
<1>7. Shapes(pg2) /\ Spans(DOMAIN pg2, lo, hi) /\ Laminar(DOMAIN pg2, lo, hi, h)
  BY <1>1 DEF Shapes, Spans, Laminar
<1>8. Links(pg2, lo, hi, h)
  <2>1. SUFFICES ASSUME NEW y \in DOMAIN pg2, pg2[y].inner
                 PROVE  LinksOK(DOMAIN pg2, lo, hi, h, pg2[y], lo[y], hi[y], h[y])
    BY DEF Links
  <2>2. y \in DOMAIN pg /\ pg2[y] = pg[y]
    OBVIOUS
  <2>3. LinksOK(DOMAIN pg, lo, hi, h, pg[y], lo[y], hi[y], h[y])
    BY <1>1, <2>1, <2>2 DEF Links
  <2>4. ASSUME NEW i \in 1 .. Len(pg[y].keys) + 1
        PROVE  Link(DOMAIN pg2, lo, hi, h, pg[y].child_ids[i], Cut(pg[y], lo[y], hi[y], i - 1),
                    Cut(pg[y], lo[y], hi[y], i), h[y])
    <3>1. Link(DOMAIN pg, lo, hi, h, pg[y].child_ids[i], Cut(pg[y], lo[y], hi[y], i - 1),
               Cut(pg[y], lo[y], hi[y], i), h[y])
      BY <2>3 DEF LinksOK
    <3> DEFINE d == pg[y].child_ids[i]
    <3>2. d \in DOMAIN pg /\ h[y] = h[d] + 1
      BY <3>1 DEF Link
    <3>3. d # root
      <4>1. h[y] <= h[root] /\ h[d] \in Nat
        BY <1>2, <1>3, <2>2, <3>2
      <4> QED
        BY <3>2, <4>1
    <3>4. d \in DOMAIN pg2
      BY <3>2, <3>3
    <3> QED
      BY <3>1, <3>4 DEF Link
  <2> QED
    BY <2>2, <2>4 DEF LinksOK
<1>9. Leaves(pg2, lo, hi, h, odd, k)
  <2>1. SUFFICES ASSUME NEW y \in DOMAIN pg2, ~pg2[y].inner
                 PROVE  LeafOK(DOMAIN pg2, lo, h, pg2[y], lo[y], hi[y], h[y], y = odd, k)
    BY DEF Leaves
  <2>2. y \in DOMAIN pg /\ pg2[y] = pg[y]
    OBVIOUS
  <2>3. LeafOK(DOMAIN pg, lo, h, pg[y], lo[y], hi[y], h[y], y = odd, k)
    BY <1>1, <2>1, <2>2 DEF Leaves
  <2>4. ASSUME NEW next, NEW b, NextOK(DOMAIN pg, lo, h, next, b) PROVE NextOK(DOMAIN pg2, lo, h, next, b)
    BY <1>5, <2>4 DEF NextOK
  <2> QED
    BY <2>2, <2>3, <2>4 DEF LeafOK
<1>10. OddOK(pg2, hi, odd, k)
  BY <1>1, <1>2 DEF OddOK
<1>11. RootOK(DOMAIN pg2, c, lo, hi, h)
  BY <1>2, <1>4, <1>5, <1>6 DEF RootOK
<1> QED
  BY <1>1, <1>4, <1>5, <1>7, <1>8, <1>9, <1>10, <1>11 DEF Tree, Skeleton

-----------------------------------------------------------------------------
(* A key is a separator in one node at most. *)
LEMMA LowerNodeLacksKey ==
  ASSUME NEW pg, NEW lo, NEW hi, NEW h, Skeleton(pg, lo, hi, h),
         NEW x \in DOMAIN pg, pg[x].inner, NEW i \in 1 .. Len(pg[x].keys),
         NEW y \in DOMAIN pg, pg[y].inner, NEW j \in 1 .. Len(pg[y].keys),
         pg[x].keys[i] = pg[y].keys[j], h[x] <= h[y]
  PROVE  x = y /\ i = j
<1> DEFINE c == ChildAt(pg, x, i)
           d == ChildAt(pg, y, j)
           m == pg[x].keys[i]
<1>1. Len(pg[x].keys) \in Nat /\ Len(pg[y].keys) \in Nat /\ m \in Int
  BY InnerFacts DEF Skeleton, Shapes, ShapeOK
<1>2. /\ i \in 1 .. Len(pg[x].keys) + 1 /\ j \in 1 .. Len(pg[y].keys) + 1
      /\ i + 1 \in 1 .. Len(pg[x].keys) + 1 /\ (i + 1) - 1 = i
      /\ i # 0 /\ i # Len(pg[x].keys) + 1 /\ j # 0 /\ j # Len(pg[y].keys) + 1
  BY <1>1
<1>3. Cut(pg[x], lo[x], hi[x], i) = m /\ Cut(pg[y], lo[y], hi[y], j) = m
  BY <1>2 DEF Cut
<1>4. c \in DOMAIN pg /\ h[x] = h[c] + 1 /\ hi[c] = m /\ lo[x] < m
  <2>1. c \in DOMAIN pg /\ h[x] = h[c] + 1 /\ hi[c] = m /\ lo[x] <= lo[c] /\ lo[c] < hi[c]
    BY <1>2, <1>3, ChildIsBelow
  <2>2. lo[x] \in Int /\ lo[c] \in Int /\ hi[c] \in Int
    BY <2>1 DEF Skeleton, Labels
  <2> QED
    BY <2>1, <2>2
<1>5. m < hi[x]
  <2>1. Cut(pg[x], lo[x], hi[x], (i + 1) - 1) < Cut(pg[x], lo[x], hi[x], i + 1)
        /\ Cut(pg[x], lo[x], hi[x], i + 1) <= hi[x] /\ hi[ChildAt(pg, x, i + 1)] = Cut(pg[x], lo[x], hi[x], i + 1)
        /\ ChildAt(pg, x, i + 1) \in DOMAIN pg
    BY SMTT(30), <1>2, ChildIsBelow
  <2> DEFINE u == Cut(pg[x], lo[x], hi[x], i + 1)
  <2>2. u \in Int /\ hi[x] \in Int
    BY <2>1 DEF Skeleton, Labels
  <2>3. m < u /\ u <= hi[x]
    BY <1>2, <1>3, <2>1
  <2> HIDE DEF u, m
  <2> QED
    BY <1>1, <2>2, <2>3
<1>6. d \in DOMAIN pg /\ h[y] = h[d] + 1 /\ hi[d] = m
  BY <1>2, <1>3, ChildIsBelow
<1> HIDE DEF c, d, m
<1>7. \A z \in DOMAIN pg : h[z] \in Nat /\ lo[z] \in Int /\ hi[z] \in Int
  BY DEF Skeleton, Labels
<1>8. h[x] = h[y]
  <2>1. SUFFICES ASSUME h[x] # h[y] PROVE FALSE
    OBVIOUS
  <2>2. h[x] < h[d] + 1
    BY <1>6, <1>7, <2>1
  <2>3. NoStraddle(DOMAIN pg, lo, hi, h, h[d] + 1, hi[d])
    BY <1>6, EndsDoNotStraddle DEF Skeleton
  <2>4. ~(lo[x] < hi[d] /\ hi[d] < hi[x])
    <3>1. hi[x] <= hi[d] \/ hi[d] <= lo[x]
      BY <2>2, <2>3 DEF NoStraddle
    <3> QED
      BY <1>6, <1>7, <3>1
  <2> QED
    BY <1>4, <1>5, <1>6, <2>4
<1>9. c = d
  <2>1. h[c] = h[d] /\ hi[c] = hi[d]
    BY <1>4, <1>6, <1>7, <1>8
  <2> QED
    BY <1>4, <1>6, <2>1, OneEnd DEF Skeleton
<1> QED
  BY <1>2, <1>9, OnlyParent DEF c, d
(* A key is a separator in one place only. *)
LEMMA KeyInOneNode ==
  ASSUME NEW pg, NEW lo, NEW hi, NEW h, Skeleton(pg, lo, hi, h),
         NEW x \in DOMAIN pg, pg[x].inner, NEW i \in 1 .. Len(pg[x].keys),
         NEW y \in DOMAIN pg, pg[y].inner, NEW j \in 1 .. Len(pg[y].keys),
         pg[x].keys[i] = pg[y].keys[j]
  PROVE  x = y /\ i = j
<1>1. h[x] \in Nat /\ h[y] \in Nat
  BY DEF Skeleton, Labels
<1>2. CASE h[x] <= h[y]
  BY <1>2, LowerNodeLacksKey
<1>3. CASE h[y] <= h[x]
  BY <1>3, LowerNodeLacksKey
<1> QED
  BY <1>1, <1>2, <1>3

(* Every end of a span that is k becomes b.  No span ends in between or    *)
(* below b as far as the leaf before k begins.                             *)
Moved(v, k, b) == IF v = k THEN b ELSE v
MovedLabels(lo, hi, h, lo2, hi2, h2, k, b) ==
  /\ Labels(lo2, hi2, h2)
  /\ \A x \in PageIds : lo2[x] = Moved(lo[x], k, b) /\ hi2[x] = Moved(hi[x], k, b) /\ h2[x] = h[x]
(* An end of a span is not between a and k. *)
Outside(v, a, k) == v \in Int /\ (v <= a \/ k <= v)
(* Moving one end keeps the order of all ends. *)
LEMMA MovedAscend ==
  ASSUME NEW u, NEW v, NEW a \in Int, NEW b \in Int, NEW k \in Int, a < b, b < k,
         Outside(u, a, k), Outside(v, a, k)
  PROVE  /\ Moved(u, k, b) \in Int /\ Moved(v, k, b) \in Int
         /\ u < v => Moved(u, k, b) < Moved(v, k, b)
         /\ u <= v => Moved(u, k, b) <= Moved(v, k, b)
         /\ u = v <=> Moved(u, k, b) = Moved(v, k, b)
  BY DEF Moved, Outside

(* Where the span of a leaf ends, no other span ends inside it. *)
LEMMA EndsAreOutside ==
  ASSUME NEW pg, NEW lo, NEW hi, NEW h, Skeleton(pg, lo, hi, h),
         NEW odd, NEW k, Leaves(pg, lo, hi, h, odd, k),
         NEW z \in DOMAIN pg, ~pg[z].inner, NEW x \in DOMAIN pg
  PROVE  Outside(lo[x], lo[z], hi[z]) /\ Outside(hi[x], lo[z], hi[z])
<1>1. lo[x] \in Int /\ hi[x] \in Int /\ h[x] \in Nat /\ lo[z] \in Int /\ hi[z] \in Int
      /\ lo[x] < hi[x] /\ lo[z] < hi[z]
  BY DEF Skeleton, Labels, Spans
<1>2. h[z] = 0
  BY DEF Leaves, LeafOK
<1>3. CASE x = z
  BY <1>1, <1>3 DEF Outside
<1>4. CASE x # z
  <2>1. Apart(lo, hi, z, x) \/ Below_(lo, hi, h, z, x)
    BY <1>1, <1>2, <1>4 DEF Skeleton, Laminar
  <2> QED
    BY <1>1, <2>1 DEF Apart, Below_, Outside
<1> QED
  BY <1>3, <1>4

(* ExchangeKey puts the last but one key of leaf z, b, in the place of its *)
(* last, k, in inner node x.                                               *)
KeyReplaced(pg, hi, x, p, k, z, b, pg2) ==
  /\ x \in DOMAIN pg /\ pg[x].inner /\ p \in 1 .. Len(pg[x].keys) /\ k = pg[x].keys[p]
  /\ z \in DOMAIN pg /\ ~pg[z].inner /\ hi[z] = k /\ Len(pg[z].keys) > 1
  /\ b = pg[z].keys[Len(pg[z].keys) - 1]
  /\ DOMAIN pg2 = DOMAIN pg /\ pg2[x] = WithKey(pg[x], p, b)
  /\ \A y \in DOMAIN pg : y # x => pg2[y] = pg[y]

(* The key k of an inner node becomes b, the last key but one of the leaf  *)
(* whose span ended with k: that leaf is odd now.                          *)
LEMMA Exchanges ==
  ASSUME NEW pg, NEW root, NEW lo, NEW hi, NEW h, NEW k0, Tree(pg, root, lo, hi, h, 0, k0),
         NEW x, NEW p, NEW k, NEW z, NEW b, NEW pg2, KeyReplaced(pg, hi, x, p, k, z, b, pg2),
         NEW lo2, NEW hi2, NEW h2, MovedLabels(lo, hi, h, lo2, hi2, h2, k, b)
  PROVE  Tree(pg2, root, lo2, hi2, h2, z, k) /\ b \in Int /\ b < k /\ lo[z] < b
<1>0. /\ x \in DOMAIN pg /\ pg[x].inner /\ p \in 1 .. Len(pg[x].keys) /\ k = pg[x].keys[p]
      /\ z \in DOMAIN pg /\ ~pg[z].inner /\ hi[z] = k /\ Len(pg[z].keys) > 1
      /\ b = pg[z].keys[Len(pg[z].keys) - 1]
      /\ DOMAIN pg2 = DOMAIN pg /\ pg2[x] = WithKey(pg[x], p, b)
      /\ \A y \in DOMAIN pg : y # x => pg2[y] = pg[y]
  BY DEF KeyReplaced
<1> USE <1>0
<1> DEFINE a == lo[z]
           D == DOMAIN pg
<1>1. /\ D \subseteq PageIds /\ Shapes(pg) /\ Labels(lo, hi, h) /\ Spans(D, lo, hi)
      /\ Laminar(D, lo, hi, h) /\ Links(pg, lo, hi, h) /\ Leaves(pg, lo, hi, h, 0, k0)
      /\ RootOK(D, root, lo, hi, h) /\ Skeleton(pg, lo, hi, h)
  BY DEF Tree, Skeleton
<1>2. k \in Int /\ k \in Keys /\ k < Top /\ -1 < k /\ IsInner(pg[x], Keys, PageIds)
  BY <1>1, InnerFacts, KeysAreInts DEF Shapes, ShapeOK
<1>3. IsOuter(pg[z], Keys, Values, PageIds) /\ h[z] = 0 /\ KeysOK(pg[z], lo[z], hi[z])
  <2>1. z # 0
    BY <1>1 DEF PageIds
  <2> QED
    BY <1>1, <2>1 DEF Leaves, LeafOK, Shapes, ShapeOK
<1>4. /\ b \in Int /\ b \in Keys /\ a \in Int /\ a < b /\ b < k
      /\ Len(pg[z].keys) \in Nat /\ pg[z].keys[Len(pg[z].keys)] = k
  <2> DEFINE w == Len(pg[z].keys)
  <2>1. w \in Nat /\ w > 1
    BY <1>3, LeafFacts
  <2>2. w \in 1 .. w /\ w - 1 \in 1 .. w /\ w - 1 < w /\ w > 0
    BY <2>1
  <2>3. pg[z].keys[w] = k
    BY <1>2, <1>3 DEF KeysOK
  <2>4. pg[z].keys[w - 1] < pg[z].keys[w] /\ b \in Int /\ b \in Keys
    BY <1>3, <2>2, LeafFacts DEF Ascending
  <2>5. a < b
    BY <1>3, <2>2 DEF KeysOK
  <2>6. a \in Int
    BY <1>1 DEF Labels
  <2> QED
    BY <2>1, <2>3, <2>4, <2>5, <2>6
<1>5. \A y \in D : Outside(lo[y], a, k) /\ Outside(hi[y], a, k)
  BY <1>1, EndsAreOutside
<1> HIDE DEF a
<1>6. \A y \in D : lo2[y] = Moved(lo[y], k, b) /\ hi2[y] = Moved(hi[y], k, b) /\ h2[y] = h[y]
  BY <1>1 DEF MovedLabels
<1>7. ASSUME NEW u, NEW v, Outside(u, a, k), Outside(v, a, k)
      PROVE  /\ u < v => Moved(u, k, b) < Moved(v, k, b)
             /\ u <= v => Moved(u, k, b) <= Moved(v, k, b)
  <2>1. a \in Int /\ b \in Int /\ k \in Int /\ a < b /\ b < k
    BY <1>2, <1>4
  <2> QED
    BY <1>7, <2>1, MovedAscend
<1>8. Labels(lo2, hi2, h2)
  BY DEF MovedLabels
<1>9. \A y \in D : lo[y] \in Int /\ hi[y] \in Int /\ h[y] \in Nat
                   /\ -1 <= lo[y] /\ lo[y] < hi[y] /\ hi[y] <= Top
  BY <1>1 DEF Labels, Spans
<1>10. Spans(D, lo2, hi2)
  <2>1. SUFFICES ASSUME NEW y \in D PROVE -1 <= lo2[y] /\ lo2[y] < hi2[y] /\ hi2[y] <= Top
    BY DEF Spans
  <2>2. lo2[y] < hi2[y]
    BY <1>5, <1>6, <1>7, <1>9
  <2>3. -1 <= lo2[y]
    <3>1. -1 <= a
      BY <1>9 DEF a
    <3>2. -1 <= b /\ -1 <= lo[y]
      BY <1>4, <1>9, <3>1
    <3> QED
      BY <1>6, <3>2 DEF Moved
  <2>4. hi2[y] <= Top
    <3>1. Top \in Nat
      BY TopIsAbove
    <3>2. hi[y] <= Top
      BY <1>9, <2>1
    <3>3. b <= Top
      BY ONLY <1>2, <1>4, <3>1
    <3> QED
      BY <1>6, <3>2, <3>3 DEF Moved
  <2> QED
    BY <2>2, <2>3, <2>4
<1>11. Laminar(D, lo2, hi2, h2)
  <2>1. SUFFICES ASSUME NEW y \in D, NEW u \in D, y # u, h2[y] <= h2[u]
                 PROVE  Apart(lo2, hi2, y, u) \/ Below_(lo2, hi2, h2, y, u)
    BY DEF Laminar
  <2>2. Apart(lo, hi, y, u) \/ Below_(lo, hi, h, y, u)
    BY <1>1, <1>6, <2>1 DEF Laminar
  <2>3. /\ Outside(lo[y], a, k) /\ Outside(hi[y], a, k) /\ Outside(lo[u], a, k) /\ Outside(hi[u], a, k)
    BY <1>5
  <2>4. /\ hi[y] <= lo[u] => hi2[y] <= lo2[u]
        /\ hi[u] <= lo[y] => hi2[u] <= lo2[y]
        /\ lo[u] <= lo[y] => lo2[u] <= lo2[y]
        /\ hi[y] <= hi[u] => hi2[y] <= hi2[u]
    BY <1>6, <1>7, <2>3
  <2> QED
    BY <1>6, <2>2, <2>4 DEF Apart, Below_
<1>12. ASSUME NEW i \in 1 .. Len(pg[x].keys), i # p PROVE pg[x].keys[i] # k
  <2>1. SUFFICES ASSUME pg[x].keys[i] = k PROVE FALSE
    OBVIOUS
  <2> QED
    BY <1>1, <1>12, <2>1, KeyInOneNode
<1>13. ASSUME NEW y \in D, y # x, pg[y].inner, NEW i \in 1 .. Len(pg[y].keys) PROVE pg[y].keys[i] # k
  <2>1. SUFFICES ASSUME pg[y].keys[i] = k PROVE FALSE
    OBVIOUS
  <2> QED
    BY <1>1, <1>13, <2>1, KeyInOneNode
<1>14. ASSUME NEW i \in 1 .. Len(pg[x].keys) PROVE Outside(pg[x].keys[i], a, k)
  <2>1. hi[ChildAt(pg, x, i)] = pg[x].keys[i] /\ ChildAt(pg, x, i) \in D
    BY <1>1, Siblings_
  <2> QED
    BY <1>5, <2>1
<1>15. ShapeOK(pg2[x]) /\ pg2[x].inner /\ IsAltered(pg2[x].keys, pg[x].keys, p, b)
       /\ pg2[x].child_ids = pg[x].child_ids /\ Len(pg[x].keys) \in Nat
  <2> DEFINE w == Len(pg[x].keys)
             n == pg[x]
  <2>1. w \in Nat /\ Ascending(pg[x].keys) /\ \A i \in 1 .. w : pg[x].keys[i] \in Int
    BY <1>2, InnerFacts
  <2> HIDE DEF w
  <2>0. k \in Int /\ b \in Int /\ p \in 1 .. w /\ k = pg[x].keys[p] /\ b < k
    BY <1>2, <1>4 DEF w
  <2>2. ASSUME p > 1 PROVE pg[x].keys[p - 1] < b
    <3>1. p - 1 \in 1 .. w /\ p - 1 < p
      BY ONLY <2>0, <2>1, <2>2
    <3>2. pg[x].keys[p - 1] < k
      BY <2>0, <2>1, <3>1 DEF Ascending, w
    <3>3. Outside(pg[x].keys[p - 1], a, k)
      BY <1>14, <3>1 DEF w
    <3>4. pg[x].keys[p - 1] \in Int /\ pg[x].keys[p - 1] <= a
      BY ONLY <2>0, <3>2, <3>3 DEF Outside
    <3> QED
      BY ONLY <1>4, <3>4
  <2>3. ASSUME p < w PROVE b < pg[x].keys[p + 1]
    <3>1. p + 1 \in 1 .. w /\ p < p + 1
      BY ONLY <2>0, <2>1, <2>3
    <3>2. k < pg[x].keys[p + 1] /\ pg[x].keys[p + 1] \in Int
      BY <2>0, <2>1, <3>1 DEF Ascending, w
    <3> QED
      BY ONLY <2>0, <3>2, LessThanLess
  <2>4. IsInner(n, Keys, PageIds) /\ p \in 1 .. Len(n.keys) /\ Keys \in SUBSET Int /\ b \in Keys
        /\ (p > 1 => n.keys[p - 1] < b) /\ (p < Len(n.keys) => b < n.keys[p + 1])
    BY <1>2, <1>4, <2>0, <2>2, <2>3, KeysAreInts DEF w
  <2> HIDE DEF n
  <2>5. LET r == WithKey(n, p, b) IN
        IsInner(r, Keys, PageIds) /\ IsAltered(r.keys, n.keys, p, b) /\ r.child_ids = n.child_ids
    BY ONLY <2>4, WithKeyIs
  <2>6. WithKey(n, p, b).inner = TRUE
    BY DEF WithKey, InnerNode
  <2>7. pg2[x] = WithKey(n, p, b)
    BY DEF n
  <2>8. /\ ShapeOK(pg2[x]) /\ pg2[x].inner /\ IsAltered(pg2[x].keys, n.keys, p, b)
        /\ pg2[x].child_ids = n.child_ids
    BY ONLY <2>5, <2>6, <2>7 DEF ShapeOK
  <2> QED
    BY ONLY <2>1, <2>8 DEF n, w
<1>16. Shapes(pg2)
  BY <1>1, <1>15 DEF Shapes
<1>17. ASSUME NEW y \in D, pg[y].inner
       PROVE  /\ pg2[y].inner /\ Len(pg2[y].keys) = Len(pg[y].keys) /\ Len(pg[y].keys) \in Nat
              /\ pg2[y].child_ids = pg[y].child_ids
              /\ \A i \in 1 .. Len(pg[y].keys) : pg2[y].keys[i] = Moved(pg[y].keys[i], k, b)
  <2>1. CASE y = x
    BY <1>12, <1>15, <2>1 DEF IsAltered, Moved
  <2>2. CASE y # x
    <3>1. Len(pg[y].keys) \in Nat
      BY <1>1, <1>17, InnerFacts DEF Shapes, ShapeOK
    <3> QED
      BY <1>13, <1>17, <2>2, <3>1 DEF Moved
  <2> QED
    BY <2>1, <2>2
<1>18. ASSUME NEW y \in D, pg[y].inner, NEW i \in 0 .. Len(pg[y].keys) + 1
       PROVE  Cut(pg2[y], lo2[y], hi2[y], i) = Moved(Cut(pg[y], lo[y], hi[y], i), k, b)
  <2>1. CASE i = 0
    BY <1>6, <2>1 DEF Cut
  <2>2. CASE i = Len(pg[y].keys) + 1
    <3>1. i # 0 /\ i = Len(pg2[y].keys) + 1
      BY <1>17, <1>18, <2>2
    <3> QED
      BY <1>6, <2>2, <3>1 DEF Cut
  <2>3. CASE i \in 1 .. Len(pg[y].keys)
    <3>1. i # 0 /\ i # Len(pg[y].keys) + 1 /\ i # Len(pg2[y].keys) + 1
      BY <1>17, <1>18, <2>3
    <3>2. pg2[y].keys[i] = Moved(pg[y].keys[i], k, b)
      BY <1>17, <1>18, <2>3
    <3> QED
      BY <3>1, <3>2 DEF Cut
  <2> QED
    BY <1>17, <1>18, <2>1, <2>2, <2>3
<1>19. Links(pg2, lo2, hi2, h2)
  <2>1. SUFFICES ASSUME NEW y \in D, pg2[y].inner
                 PROVE  LinksOK(D, lo2, hi2, h2, pg2[y], lo2[y], hi2[y], h2[y])
    BY DEF Links
  <2>2. pg[y].inner
    BY <2>1
  <2>3. LinksOK(D, lo, hi, h, pg[y], lo[y], hi[y], h[y])
    BY <1>1, <2>2 DEF Links
  <2>4. ASSUME NEW i \in 1 .. Len(pg[y].keys) + 1
        PROVE  Link(D, lo2, hi2, h2, pg2[y].child_ids[i], Cut(pg2[y], lo2[y], hi2[y], i - 1),
                    Cut(pg2[y], lo2[y], hi2[y], i), h2[y])
    <3> DEFINE d == pg[y].child_ids[i]
               u == Cut(pg[y], lo[y], hi[y], i - 1)
               v == Cut(pg[y], lo[y], hi[y], i)
    <3>1. Link(D, lo, hi, h, d, u, v, h[y])
      BY <2>3 DEF LinksOK
    <3>2. i - 1 \in 0 .. Len(pg[y].keys) + 1 /\ i \in 0 .. Len(pg[y].keys) + 1 /\ pg2[y].child_ids[i] = d
      BY <1>17, <2>2
    <3>3. Cut(pg2[y], lo2[y], hi2[y], i - 1) = Moved(u, k, b) /\ Cut(pg2[y], lo2[y], hi2[y], i) = Moved(v, k, b)
      BY <1>18, <2>2, <3>2
    <3> HIDE DEF d, u, v
    <3> QED
      BY <1>6, <3>1, <3>2, <3>3 DEF Link
  <2>5. Len(pg2[y].keys) = Len(pg[y].keys)
    BY <1>17, <2>2
  <2> QED
    BY <2>4, <2>5 DEF LinksOK
<1>20. ASSUME NEW y \in D, ~pg[y].inner
       PROVE  /\ pg2[y] = pg[y] /\ h[y] = 0 /\ KeysOK(pg[y], lo[y], hi[y])
              /\ NextOK(D, lo, h, pg[y].next_lef_id, hi[y])
  <2>1. y # 0 /\ y # x
    BY <1>1, <1>20 DEF PageIds
  <2> QED
    BY <1>1, <1>20, <2>1 DEF Leaves, LeafOK
<1>21. ASSUME NEW y \in D, ~pg[y].inner PROVE NextOK(D, lo2, h2, pg[y].next_lef_id, hi2[y])
  <2> DEFINE next == pg[y].next_lef_id
  <2>1. NextOK(D, lo, h, next, hi[y])
    BY <1>20, <1>21
  <2>4. hi2[y] = Moved(hi[y], k, b)
    BY <1>6
  <2> SUFFICES NextOK(D, lo2, h2, next, hi2[y])
    OBVIOUS
  <2> HIDE DEF next
  <2>2. CASE next = 0
    BY <1>2, <2>1, <2>2, <2>4 DEF NextOK, Moved
  <2>3. CASE next # 0
    BY <1>6, <2>1, <2>3, <2>4 DEF NextOK
  <2> QED
    BY <2>2, <2>3
<1>22. ASSUME NEW y \in D, ~pg[y].inner, y # z
       PROVE  hi[y] # k /\ (hi[y] <= a \/ k <= lo[y])
  <2>1. h[y] = h[z] /\ h[z] <= h[y]
    BY <1>3, <1>20, <1>22
  <2>2. hi[y] # hi[z]
    BY <1>1, <1>22, <2>1, OneEnd
  <2>3. Apart(lo, hi, z, y) \/ Below_(lo, hi, h, z, y)
    BY <1>1, <1>22, <2>1 DEF Laminar
  <2>4. Apart(lo, hi, z, y)
    BY <1>9, <2>1, <2>3 DEF Below_
  <2> QED
    BY <2>2, <2>4 DEF Apart, a
<1>23. lo2[z] = lo[z] /\ hi2[z] = b
  BY <1>2, <1>4, <1>6 DEF Moved, a
<1>24. OddKeysOK(pg[z], lo2[z], hi2[z], k)
  BY <1>3, <1>4, <1>23 DEF OddKeysOK, KeysOK
<1>25. ASSUME NEW y \in D, ~pg[y].inner, y # z PROVE KeysOK(pg[y], lo2[y], hi2[y])
  <2>1. hi2[y] = hi[y] /\ lo2[y] <= lo[y] /\ lo2[y] \in Int /\ lo[y] \in Int
    BY <1>2, <1>4, <1>6, <1>9, <1>22, <1>25 DEF Moved
  <2>2. KeysOK(pg[y], lo[y], hi[y])
    BY <1>20, <1>25
  <2>3. \A i \in 1 .. Len(pg[y].keys) : pg[y].keys[i] \in Int
    BY <1>1, <1>25, LeafFacts DEF Shapes, ShapeOK
  <2> QED
    BY <2>1, <2>2, <2>3 DEF KeysOK
<1>26. Leaves(pg2, lo2, hi2, h2, z, k)
  <2>1. SUFFICES ASSUME NEW y \in D, ~pg2[y].inner
                 PROVE  LeafOK(D, lo2, h2, pg2[y], lo2[y], hi2[y], h2[y], y = z, k)
    BY DEF Leaves
  <2>2. ~pg[y].inner
    BY <1>17, <2>1
  <2>3. pg2[y] = pg[y] /\ h2[y] = 0 /\ NextOK(D, lo2, h2, pg[y].next_lef_id, hi2[y])
    BY <1>6, <1>20, <1>21, <2>2
  <2> QED
    BY <1>24, <1>25, <2>2, <2>3 DEF LeafOK
<1>27. OddOK(pg2, hi2, z, k)
  <2>1. pg2[z] = pg[z] /\ ~pg2[z].inner
    BY <1>20
  <2>2. ASSUME NEW y \in D, ~pg2[y].inner, y # z, NEW i \in 1 .. Len(pg2[y].keys)
        PROVE  pg2[y].keys[i] <= hi2[z] \/ k < pg2[y].keys[i]
    <3>1. ~pg[y].inner
      BY <1>17, <2>2
    <3>2. pg2[y] = pg[y] /\ KeysOK(pg[y], lo[y], hi[y])
      BY <1>20, <3>1
    <3>3. pg[y].keys[i] \in Int /\ lo[y] < pg[y].keys[i] /\ pg[y].keys[i] <= hi[y]
      BY <1>1, <2>2, <3>1, <3>2, LeafFacts DEF Shapes, ShapeOK, KeysOK
    <3>4. hi[y] <= a \/ k <= lo[y]
      BY <1>22, <2>2, <3>1
    <3> DEFINE v == pg[y].keys[i]
    <3>5. v \in Int /\ lo[y] < v /\ v <= hi[y] /\ lo[y] \in Int /\ hi[y] \in Int
      BY <1>9, <3>3
    <3> HIDE DEF v
    <3>6. v <= b \/ k < v
      <4>1. a \in Int /\ b \in Int /\ k \in Int /\ a < b
        BY <1>2, <1>4
      <4> QED
        BY ONLY <3>4, <3>5, <4>1
    <3> QED
      BY <1>23, <3>2, <3>6 DEF v
  <2> QED
    BY <2>1, <2>2 DEF OddOK
<1>28. RootOK(D, root, lo2, hi2, h2)
  BY <1>1, <1>2, <1>6 DEF RootOK, Moved
<1> QED
  BY <1>1, <1>4, <1>8, <1>10, <1>11, <1>16, <1>19, <1>26, <1>27, <1>28 DEF Tree, Skeleton, a

-----------------------------------------------------------------------------
(* Two siblings made one, as merge does it. *)
LEMMA JoinOfInner ==
  ASSUME NEW l, IsInner(l, Keys, PageIds), NEW r, IsInner(r, Keys, PageIds), NEW m \in Keys,
         \A j \in 1 .. Len(l.keys) : l.keys[j] < m, \A j \in 1 .. Len(r.keys) : m < r.keys[j]
  PROVE  LET n == Joined(l, r, m) IN ShapeOK(n) /\ InnerJoin(n, l, m, r)
<1> DEFINE n == Joined(l, r, m)
           s == l.keys
           t == r.keys
           c == l.child_ids
           d == r.child_ids
           w == Len(s)
           v == Len(t)
           a == s \o <<m>>
<1>1. /\ s \in Seq(Keys) /\ t \in Seq(Keys) /\ c \in Seq(PageIds) /\ d \in Seq(PageIds)
      /\ Len(c) = w + 1 /\ Len(d) = v + 1 /\ Ascending(s) /\ Ascending(t) /\ l.inner /\ r.inner
  BY DEF IsInner
<1>2. n.inner /\ n.inner = TRUE /\ n.keys = a \o t /\ n.child_ids = c \o d
  BY <1>1 DEF Joined, InnerNode
<1>3. w \in Nat /\ v \in Nat /\ <<m>> \in Seq(Keys) /\ Len(<<m>>) = 1
  BY <1>1
<1>4. \A j \in 1 .. w : s[j] \in Int /\ s[j] < m
  BY <1>1, KeysAreInts, SeqOfNumbers
<1>5. \A j \in 1 .. v : t[j] \in Int /\ m < t[j]
  BY <1>1, KeysAreInts, SeqOfNumbers
<1>6. m \in Int
  BY KeysAreInts
<1> HIDE DEF s, t, c, d, n
<1>7. /\ a \in Seq(Keys) /\ Len(a) = w + 1
      /\ \A j \in 1 .. w + 1 : a[j] = IF j <= w THEN s[j] ELSE m
  <2>1. /\ a \in Seq(Keys) /\ Len(a) = w + 1
        /\ \A j \in 1 .. w + 1 : a[j] = IF j <= w THEN s[j] ELSE <<m>>[j - w]
    BY <1>1, <1>3, ConcatIsPointwise
  <2>2. ASSUME NEW j \in 1 .. w + 1, ~(j <= w) PROVE <<m>>[j - w] = m
    <3>1. j - w = 1
      BY <1>3, <2>2
    <3> QED
      BY <3>1
  <2> QED
    BY <2>1, <2>2
<1> HIDE DEF a
<1>8. /\ n.keys \in Seq(Keys) /\ Len(n.keys) = w + 1 + v
      /\ \A j \in 1 .. w + 1 + v : n.keys[j] = IF j <= w + 1 THEN a[j] ELSE t[j - (w + 1)]
  <2>1. /\ a \o t \in Seq(Keys) /\ Len(a \o t) = Len(a) + Len(t)
        /\ \A j \in 1 .. Len(a) + Len(t) : (a \o t)[j] = IF j <= Len(a) THEN a[j] ELSE t[j - Len(a)]
    <3>1. a \in Seq(Keys) /\ t \in Seq(Keys)
      BY <1>1, <1>7
    <3> QED
      BY ONLY <3>1, ConcatIsPointwise
  <2> QED
    BY <1>2, <1>7, <2>1
<1>9. /\ n.child_ids \in Seq(PageIds) /\ Len(n.child_ids) = (w + 1) + (v + 1)
      /\ \A j \in 1 .. (w + 1) + (v + 1) :
            n.child_ids[j] = IF j <= w + 1 THEN c[j] ELSE d[j - (w + 1)]
  <2>1. /\ c \o d \in Seq(PageIds) /\ Len(c \o d) = Len(c) + Len(d)
        /\ \A j \in 1 .. Len(c) + Len(d) : (c \o d)[j] = IF j <= Len(c) THEN c[j] ELSE d[j - Len(c)]
    <3>1. c \in Seq(PageIds) /\ d \in Seq(PageIds)
      BY <1>1
    <3> QED
      BY ONLY <3>1, ConcatIsPointwise
  <2> QED
    BY <1>1, <1>2, <2>1
<1> HIDE DEF w, v
<1>10. /\ \A j \in 1 .. w : n.keys[j] = s[j]
       /\ n.keys[w + 1] = m
       /\ \A j \in 1 .. v : n.keys[w + 1 + j] = t[j]
  <2>1. ASSUME NEW j \in 1 .. w PROVE n.keys[j] = s[j]
    <3>1. j \in 1 .. w + 1 + v /\ j \in 1 .. w + 1 /\ j <= w + 1 /\ j <= w
      BY <1>3
    <3> QED
      BY <1>7, <1>8, <3>1
  <2>2. n.keys[w + 1] = m
    <3>1. w + 1 \in 1 .. w + 1 + v /\ w + 1 \in 1 .. w + 1 /\ w + 1 <= w + 1 /\ ~(w + 1 <= w)
      BY <1>3
    <3> QED
      BY <1>7, <1>8, <3>1
  <2>3. ASSUME NEW j \in 1 .. v PROVE n.keys[w + 1 + j] = t[j]
    <3>1. w + 1 + j \in 1 .. w + 1 + v /\ ~(w + 1 + j <= w + 1) /\ (w + 1 + j) - (w + 1) = j
      BY <1>3
    <3> QED
      BY <1>8, <3>1
  <2> QED
    BY <2>1, <2>2, <2>3
<1>11. /\ \A j \in 1 .. w + 1 : n.child_ids[j] = c[j]
       /\ \A j \in 1 .. v + 1 : n.child_ids[w + 1 + j] = d[j]
  <2>1. ASSUME NEW j \in 1 .. w + 1 PROVE n.child_ids[j] = c[j]
    <3>1. j \in 1 .. (w + 1) + (v + 1) /\ j <= w + 1
      BY <1>3
    <3> QED
      BY <1>9, <3>1
  <2>2. ASSUME NEW j \in 1 .. v + 1 PROVE n.child_ids[w + 1 + j] = d[j]
    <3>1. w + 1 + j \in 1 .. (w + 1) + (v + 1) /\ ~(w + 1 + j <= w + 1) /\ (w + 1 + j) - (w + 1) = j
      BY <1>3
    <3> QED
      BY <1>9, <3>1
  <2> QED
    BY <2>1, <2>2
<1>12. Ascending(n.keys)
  <2>1. SUFFICES ASSUME NEW i \in 1 .. w + 1 + v, NEW j \in 1 .. w + 1 + v, i < j
                 PROVE  n.keys[i] < n.keys[j]
    BY <1>8 DEF Ascending
  <2>2. CASE j <= w
    <3>1. i \in 1 .. w /\ j \in 1 .. w
      BY <1>3, <2>1, <2>2
    <3> QED
      BY <1>1, <1>10, <2>1, <3>1 DEF Ascending, w
  <2>3. CASE j = w + 1
    <3>1. i \in 1 .. w
      BY <1>3, <2>1, <2>3
    <3> QED
      BY <1>4, <1>10, <2>3, <3>1
  <2>4. CASE j > w + 1
    <3> DEFINE y == j - (w + 1)
    <3>1. y \in 1 .. v /\ w + 1 + y = j
      BY <1>3, <2>4
    <3>2. n.keys[j] = t[y] /\ t[y] \in Int /\ m < t[y]
      <4> HIDE DEF y
      <4> QED
        BY <1>5, <1>10, <3>1
    <3>3. CASE i <= w
      <4>1. i \in 1 .. w
        BY <1>3, <3>3
      <4> QED
        BY <1>4, <1>6, <1>10, <3>2, <4>1
    <3>4. CASE i = w + 1
      BY <1>10, <3>2, <3>4
    <3>5. CASE i > w + 1
      <4> DEFINE x == i - (w + 1)
      <4>1. x \in 1 .. v /\ w + 1 + x = i /\ x < y
        BY <1>3, <2>1, <3>5
      <4>2. n.keys[i] = t[x]
        <5> HIDE DEF x
        <5> QED
          BY <1>10, <4>1
      <4> HIDE DEF x, y
      <4>3. t[x] < t[y]
        BY <1>1, <3>1, <4>1 DEF Ascending, v
      <4> QED
        BY <3>2, <4>2, <4>3
    <3> QED
      BY <1>3, <3>3, <3>4, <3>5
  <2> QED
    BY <1>3, <2>2, <2>3, <2>4
<1>13. IsInner(n, Keys, PageIds)
  <2>1. Len(n.child_ids) = Len(n.keys) + 1
    BY <1>3, <1>8, <1>9
  <2> QED
    BY <1>2, <1>8, <1>9, <1>12, <2>1 DEF IsInner
<1>14. InnerJoin(n, l, m, r)
  BY <1>1, <1>2, <1>8, <1>10, <1>11 DEF InnerJoin, s, t, c, d, w, v
<1> QED
  BY <1>2, <1>13, <1>14 DEF ShapeOK, n

(* Two leaves joined. *)
LEMMA JoinOfLeaves ==
  ASSUME NEW l, IsOuter(l, Keys, Values, PageIds), NEW r, IsOuter(r, Keys, Values, PageIds),
         Len(l.keys) > 0, NEW m, m = l.keys[Len(l.keys)],
         \A j \in 1 .. Len(r.keys) : m < r.keys[j], NEW q
  PROVE  LET n == Joined(l, r, q) IN ShapeOK(n) /\ LeafJoin(n, l, m, r)
<1> DEFINE n == Joined(l, r, q)
           s == l.keys
           t == r.keys
           c == l.values
           d == r.values
           w == Len(s)
           v == Len(t)
<1>1. /\ s \in Seq(Keys) /\ t \in Seq(Keys) /\ c \in Seq(Values) /\ d \in Seq(Values)
      /\ Len(c) = w /\ Len(d) = v /\ Ascending(s) /\ Ascending(t) /\ ~l.inner /\ ~r.inner
      /\ r.next_lef_id \in PageIds \cup {0} /\ s \in Seq(Int)
  BY LeafFacts DEF IsOuter
<1>2. /\ n.inner = FALSE /\ n.keys = s \o t /\ n.values = c \o d /\ n.next_lef_id = r.next_lef_id
  BY <1>1 DEF Joined, OuterNode
<1>3. w \in Nat /\ v \in Nat /\ w > 0 /\ m = s[w]
  BY <1>1
<1>4. \A j \in 1 .. w : s[j] \in Int /\ s[j] <= m
  <2>1. SUFFICES ASSUME NEW j \in 1 .. w PROVE s[j] \in Int /\ s[j] <= m
    OBVIOUS
  <2>2. w \in 1 .. w /\ j <= w
    BY <1>3
  <2> QED
    BY <1>1, <1>3, <2>2, AscendingWeakly
<1>5. \A j \in 1 .. v : t[j] \in Int /\ m < t[j]
  BY <1>1, KeysAreInts, SeqOfNumbers
<1> HIDE DEF s, t, c, d, n
<1>8. /\ n.keys \in Seq(Keys) /\ Len(n.keys) = w + v
      /\ \A j \in 1 .. w + v : n.keys[j] = IF j <= w THEN s[j] ELSE t[j - w]
  BY <1>1, <1>2, ConcatIsPointwise
<1>9. /\ n.values \in Seq(Values) /\ Len(n.values) = w + v
      /\ \A j \in 1 .. w + v : n.values[j] = IF j <= w THEN c[j] ELSE d[j - w]
  <2>1. /\ c \o d \in Seq(Values) /\ Len(c \o d) = Len(c) + Len(d)
        /\ \A j \in 1 .. Len(c) + Len(d) : (c \o d)[j] = IF j <= Len(c) THEN c[j] ELSE d[j - Len(c)]
    <3>1. c \in Seq(Values) /\ d \in Seq(Values)
      BY <1>1
    <3> QED
      BY ONLY <3>1, ConcatIsPointwise
  <2> QED
    BY <1>1, <1>2, <2>1
<1> HIDE DEF w, v
<1>10. \A j \in 1 .. w : n.keys[j] = s[j] /\ n.values[j] = c[j]
  <2>1. ASSUME NEW j \in 1 .. w PROVE n.keys[j] = s[j] /\ n.values[j] = c[j]
    <3>1. j \in 1 .. w + v /\ j <= w
      BY <1>3
    <3> QED
      BY <1>8, <1>9, <3>1
  <2> QED
    BY <2>1
<1>11. \A j \in 1 .. v : n.keys[w + j] = t[j] /\ n.values[w + j] = d[j]
  <2>1. ASSUME NEW j \in 1 .. v PROVE n.keys[w + j] = t[j] /\ n.values[w + j] = d[j]
    <3>1. w + j \in 1 .. w + v /\ ~(w + j <= w) /\ (w + j) - w = j
      BY <1>3
    <3> QED
      BY <1>8, <1>9, <3>1
  <2> QED
    BY <2>1
<1>12. Ascending(n.keys)
  <2>1. SUFFICES ASSUME NEW i \in 1 .. w + v, NEW j \in 1 .. w + v, i < j
                 PROVE  n.keys[i] < n.keys[j]
    BY <1>8 DEF Ascending
  <2>2. CASE j <= w
    <3>1. i \in 1 .. w /\ j \in 1 .. w
      BY <1>3, <2>1, <2>2
    <3> QED
      BY <1>1, <1>10, <2>1, <3>1 DEF Ascending, w
  <2>4. CASE j > w
    <3> DEFINE y == j - w
    <3>1. y \in 1 .. v /\ w + y = j
      BY <1>3, <2>4
    <3>2. n.keys[j] = t[y] /\ t[y] \in Int /\ m < t[y]
      <4> HIDE DEF y
      <4> QED
        BY <1>5, <1>11, <3>1
    <3>3. CASE i <= w
      <4>1. i \in 1 .. w
        BY <1>3, <3>3
      <4>2. n.keys[i] = s[i] /\ s[i] \in Int /\ s[i] <= m /\ m \in Int
        BY <1>3, <1>4, <1>10, <4>1
      <4> HIDE DEF y
      <4> QED
        BY <3>2, <4>2
    <3>5. CASE i > w
      <4> DEFINE x == i - w
      <4>1. x \in 1 .. v /\ w + x = i /\ x < y
        BY <1>3, <2>1, <3>5
      <4>2. n.keys[i] = t[x]
        <5> HIDE DEF x
        <5> QED
          BY <1>11, <4>1
      <4> HIDE DEF x, y
      <4>3. t[x] < t[y]
        BY <1>1, <3>1, <4>1 DEF Ascending, v
      <4> QED
        BY <3>2, <4>2, <4>3
    <3> QED
      BY <1>3, <3>3, <3>5
  <2> QED
    BY <1>3, <2>2, <2>4
<1>13. IsOuter(n, Keys, Values, PageIds)
  BY <1>1, <1>2, <1>8, <1>9, <1>12 DEF IsOuter
<1>14. LeafJoin(n, l, m, r)
  BY <1>1, <1>2, <1>3, <1>8, <1>10, <1>11 DEF LeafJoin, s, t, c, d, w, v
<1> QED
  BY <1>2, <1>13, <1>14 DEF ShapeOK, n

(* The keys of a node are inside its span; those of a leaf may be its end, *)
(* and the odd leaf's go beyond.                                           *)
LEMMA KeysInside ==
  ASSUME NEW pg, NEW lo, NEW hi, NEW h, Skeleton(pg, lo, hi, h),
         NEW odd, NEW k, Leaves(pg, lo, hi, h, odd, k),
         NEW x \in DOMAIN pg, NEW j \in 1 .. Len(pg[x].keys)
  PROVE  /\ pg[x].keys[j] \in Int /\ lo[x] < pg[x].keys[j]
         /\ pg[x].inner => pg[x].keys[j] < hi[x]
         /\ ~pg[x].inner /\ x # odd => pg[x].keys[j] <= hi[x]
<1>1. ShapeOK(pg[x]) /\ pg[x].keys[j] \in Int
  BY InnerFacts, LeafFacts DEF Skeleton, Shapes, ShapeOK
<1>2. CASE pg[x].inner
  <2> DEFINE l == ChildAt(pg, x, j)
             r == ChildAt(pg, x, j + 1)
             m == pg[x].keys[j]
  <2>1. l \in DOMAIN pg /\ r \in DOMAIN pg /\ lo[l] < m /\ m < hi[r] /\ lo[x] <= lo[l] /\ hi[r] <= hi[x]
    BY <1>2, Siblings_
  <2>2. lo[l] \in Int /\ hi[r] \in Int /\ lo[x] \in Int /\ hi[x] \in Int
    BY <2>1 DEF Skeleton, Labels
  <2> HIDE DEF l, r, m
  <2>3. lo[x] < m /\ m < hi[x]
    BY <1>1, <2>1, <2>2 DEF m
  <2> QED
    BY <1>1, <1>2, <2>3 DEF m
<1>3. CASE ~pg[x].inner
  <2>1. LeafOK(DOMAIN pg, lo, h, pg[x], lo[x], hi[x], h[x], x = odd, k)
    BY <1>3 DEF Leaves
  <2>2. CASE x = odd
    BY <1>1, <1>3, <2>1, <2>2 DEF LeafOK, OddKeysOK
  <2>3. CASE x # odd
    BY <1>1, <1>3, <2>1, <2>3 DEF LeafOK, KeysOK
  <2> QED
    BY <2>2, <2>3
<1> QED
  BY <1>2, <1>3

(* Of two sibling leaves the left one ends with the key between them. *)
LEMMA LeftLeafEnds ==
  ASSUME NEW pg, NEW lo, NEW hi, NEW h, Skeleton(pg, lo, hi, h),
         NEW odd, NEW k, Leaves(pg, lo, hi, h, odd, k),
         NEW l \in DOMAIN pg, ~pg[l].inner, l # odd, hi[l] < Top
  PROVE  Len(pg[l].keys) > 0 /\ pg[l].keys[Len(pg[l].keys)] = hi[l]
<1>1. hi[l] \in Int /\ Top \in Nat
  BY TopIsAbove DEF Skeleton, Labels
<1> QED
  BY <1>1 DEF Leaves, LeafOK, KeysOK

(* What was taken out of a sequence can be put back. *)
LEMMA WithoutIsWith ==
  ASSUME NEW s, NEW t, Len(s) \in Nat, NEW p \in 1 .. Len(s), IsWithout(t, s, p)
  PROVE  IsWith(s, t, p, s[p])
<1> DEFINE w == Len(s)
<1>1. w \in Nat /\ p \in 1 .. w /\ Len(t) = w - 1
      /\ \A j \in 1 .. w - 1 : t[j] = IF j < p THEN s[j] ELSE s[j + 1]
  BY DEF IsWithout
<1>2. w = Len(t) + 1
  BY <1>1
<1> HIDE DEF w
<1>3. ASSUME NEW j \in 1 .. w PROVE s[j] = IF j < p THEN t[j] ELSE IF j = p THEN s[p] ELSE t[j - 1]
  <2>1. CASE j < p
    <3>1. j \in 1 .. w - 1
      BY <1>1, <2>1
    <3> QED
      BY <1>1, <2>1, <3>1
  <2>2. CASE j = p
    BY <1>1, <2>2
  <2>3. CASE j > p
    <3>1. j - 1 \in 1 .. w - 1 /\ ~(j - 1 < p) /\ (j - 1) + 1 = j
      BY <1>1, <2>3
    <3> QED
      BY <1>1, <2>3, <3>1
  <2> QED
    BY <1>1, <2>1, <2>2, <2>3
<1> QED
  BY <1>2, <1>3 DEF IsWith, w

(* What merge makes of two siblings and their parent. *)
Merged(big, small, p, i, l, r, m) ==
  /\ DOMAIN small = DOMAIN big \ {r}
  /\ small[l] = Joined(big[l], big[r], m) /\ small[p] = InnerDelete(big[p], m)
  /\ \A x \in DOMAIN small : x # l /\ x # p => small[x] = big[x]
SiblingsAt(big, p, i, l, r, m) ==
  /\ p \in DOMAIN big /\ big[p].inner /\ i \in 1 .. Len(big[p].keys)
  /\ l = ChildAt(big, p, i) /\ r = ChildAt(big, p, i + 1) /\ m = big[p].keys[i]
(* A merge is a division read backwards. *)
LEMMA MergedDivides ==
  ASSUME NEW big, NEW lo, NEW hi, NEW h, Skeleton(big, lo, hi, h),
         NEW odd, NEW k, Leaves(big, lo, hi, h, odd, k),
         NEW p, NEW i, NEW l, NEW r, NEW m, SiblingsAt(big, p, i, l, r, m), odd # l,
         NEW small, Merged(big, small, p, i, l, r, m)
  PROVE  Divides(small, big, p, i, l, r, m)
<1>1. /\ p \in DOMAIN big /\ big[p].inner /\ i \in 1 .. Len(big[p].keys)
      /\ l = ChildAt(big, p, i) /\ r = ChildAt(big, p, i + 1) /\ m = big[p].keys[i]
  BY DEF SiblingsAt
<1>2. /\ l \in DOMAIN big /\ r \in DOMAIN big /\ l # r /\ l # p /\ r # p
      /\ m \in Int /\ m \in Keys /\ m < Top /\ hi[l] = m /\ lo[r] = m
      /\ big[l].inner \in BOOLEAN /\ big[l].inner = big[r].inner
      /\ ~big[l].inner => big[l].next_lef_id = r
  BY <1>1, Siblings_
<1>3. DOMAIN small = DOMAIN big \ {r} /\ DOMAIN big \subseteq PageIds /\ Shapes(big)
      /\ \A x \in DOMAIN small : x # l /\ x # p => small[x] = big[x]
  BY DEF Merged, Skeleton
<1>4. IsInner(big[p], Keys, PageIds) /\ ShapeOK(big[l]) /\ ShapeOK(big[r]) /\ Len(big[p].keys) \in Nat
  BY <1>1, <1>2, <1>3, InnerFacts DEF Shapes, ShapeOK
<1>5. \A j \in 1 .. Len(big[r].keys) : m < big[r].keys[j]
  BY <1>2, KeysInside
<1>6. ShapeOK(small[l]) /\ (InnerJoin(small[l], big[l], m, big[r]) \/ LeafJoin(small[l], big[l], m, big[r]))
  <2> DEFINE a == big[l]
             b == big[r]
  <2>1. small[l] = Joined(a, b, m)
    BY DEF Merged
  <2>2. CASE a.inner
    <3>1. IsInner(a, Keys, PageIds) /\ IsInner(b, Keys, PageIds) /\ m \in Keys
      BY <1>2, <1>4, <2>2 DEF ShapeOK
    <3>2. \A j \in 1 .. Len(a.keys) : a.keys[j] < m
      BY <1>2, <2>2, KeysInside
    <3>3. \A j \in 1 .. Len(b.keys) : m < b.keys[j]
      BY <1>5
    <3> HIDE DEF a, b
    <3>4. ShapeOK(Joined(a, b, m)) /\ InnerJoin(Joined(a, b, m), a, m, b)
      BY ONLY <3>1, <3>2, <3>3, JoinOfInner
    <3> QED
      BY <2>1, <3>4 DEF a, b
  <2>3. CASE ~a.inner
    <3>1. IsOuter(a, Keys, Values, PageIds) /\ IsOuter(b, Keys, Values, PageIds)
      BY <1>2, <1>4, <2>3 DEF ShapeOK
    <3>2. Len(a.keys) > 0 /\ m = a.keys[Len(a.keys)]
      BY <1>2, <2>3, LeftLeafEnds
    <3>3. \A j \in 1 .. Len(b.keys) : m < b.keys[j]
      BY <1>5
    <3> HIDE DEF a, b
    <3>4. ShapeOK(Joined(a, b, m)) /\ LeafJoin(Joined(a, b, m), a, m, b)
      BY ONLY <3>1, <3>2, <3>3, JoinOfLeaves
    <3> QED
      BY <2>1, <3>4 DEF a, b
  <2> QED
    BY <1>2, <2>2, <2>3
<1>7. /\ ShapeOK(small[p]) /\ small[p].inner
      /\ IsWithout(small[p].keys, big[p].keys, i) /\ IsWithout(small[p].child_ids, big[p].child_ids, i + 1)
  <2> DEFINE n == big[p]
             q == InnerDelete(n, n.keys[i])
  <2>1. IsInner(n, Keys, PageIds) /\ i \in 1 .. Len(n.keys) /\ Keys \in SUBSET Int
    BY <1>1, <1>4, KeysAreInts
  <2> HIDE DEF n
  <2>2. /\ IsInner(q, Keys, PageIds)
        /\ IsWithout(q.keys, n.keys, i) /\ IsWithout(q.child_ids, n.child_ids, i + 1)
    BY ONLY <2>1, InnerDeleteIs
  <2>3. q.inner \in BOOLEAN
    <3>1. n.inner \in BOOLEAN
      BY <1>1, <1>3 DEF Shapes, ShapeOK, n
    <3> QED
      BY <3>1 DEF InnerDelete, InnerNode
  <2>4. small[p] = q
    BY <1>1 DEF Merged, n
  <2> HIDE DEF q
  <2>5. ShapeOK(q) /\ q.inner
    BY <2>2, <2>3 DEF ShapeOK, IsInner, IsOuter
  <2> QED
    BY <2>2, <2>4, <2>5 DEF n
<1>8. Shapes(small)
  BY <1>3, <1>6, <1>7 DEF Shapes
<1>9. i \in 1 .. Len(small[p].keys) + 1 /\ ChildAt(small, p, i) = l
  <2>1. Len(big[p].child_ids) = Len(big[p].keys) + 1 /\ Len(small[p].keys) = Len(big[p].keys) - 1
    BY <1>4, <1>7 DEF IsInner, IsWithout
  <2>2. small[p].child_ids[i] = big[p].child_ids[i]
    <3> DEFINE w == Len(big[p].keys)
    <3>1. Len(big[p].child_ids) - 1 = w
      BY <1>4, <2>1
    <3>2. \A j \in 1 .. w : small[p].child_ids[j] = IF j < i + 1 THEN big[p].child_ids[j] ELSE big[p].child_ids[j + 1]
      BY <1>7, <3>1 DEF IsWithout
    <3>3. i \in 1 .. w /\ i < i + 1
      BY <1>1
    <3> QED
      BY <3>2, <3>3
  <2>3. i \in 1 .. Len(small[p].keys) + 1
    BY <1>1, <1>4, <2>1
  <2> QED
    BY <1>1, <2>2, <2>3 DEF ChildAt
<1>10. KeysWith(big[p], small[p], i, m)
  <2>1. Len(big[p].keys) \in Nat /\ IsWithout(small[p].keys, big[p].keys, i) /\ i \in 1 .. Len(big[p].keys)
    BY <1>1, <1>4, <1>7
  <2>2. IsWith(big[p].keys, small[p].keys, i, big[p].keys[i])
    BY ONLY <2>1, WithoutIsWith
  <2> QED
    BY <1>1, <2>2 DEF KeysWith
<1>11. IsWith(big[p].child_ids, small[p].child_ids, i + 1, r)
  <2> DEFINE s == big[p].child_ids
             t == small[p].child_ids
             e == i + 1
  <2>1. Len(s) \in Nat /\ IsWithout(t, s, e) /\ e \in 1 .. Len(s) /\ s[e] = r
    <3>1. Len(s) = Len(big[p].keys) + 1
      BY <1>4 DEF IsInner
    <3> QED
      BY <1>1, <1>4, <1>7, <3>1 DEF ChildAt
  <2> HIDE DEF s, t, e
  <2>2. IsWith(s, t, e, s[e])
    BY ONLY <2>1, WithoutIsWith
  <2>3. IsWith(s, t, e, r)
    BY <2>1, <2>2
  <2> QED
    BY <2>3 DEF s, t, e
<1>12. /\ p \in DOMAIN small /\ l \in DOMAIN small /\ l # p
       /\ r \in PageIds \ DOMAIN small /\ DOMAIN big = DOMAIN small \cup {r}
       /\ \A x \in DOMAIN small : x # l /\ x # p => big[x] = small[x]
  BY <1>1, <1>2, <1>3
<1> QED
  BY <1>1, <1>2, <1>3, <1>6, <1>7, <1>8, <1>9, <1>10, <1>11, <1>12 DEF Divides

(* Two siblings become one page: the tree is sound. *)
EndsJoined(hi, hi2, l, r) == hi2 = [hi EXCEPT ![l] = hi[r]]
(* The tree after a merge. *)
LEMMA MergeTree ==
  ASSUME NEW big, NEW root, NEW lo, NEW hi, NEW h, NEW odd, NEW k \in Int,
         Tree(big, root, lo, hi, h, odd, k),
         NEW p, NEW i, NEW l, NEW r, NEW m, SiblingsAt(big, p, i, l, r, m), odd # l,
         NEW small, Merged(big, small, p, i, l, r, m), NEW hi2, EndsJoined(hi, hi2, l, r)
  PROVE  /\ Divides(small, big, p, i, l, r, m) /\ DividesLabels(DOMAIN small, lo, hi2, h, lo, hi, h, l, r, m)
         /\ Tree(small, root, lo, hi2, h, Heir(odd, r, l), k)
<1>1. Skeleton(big, lo, hi, h) /\ Leaves(big, lo, hi, h, odd, k)
  BY DEF Tree
<1>2. Divides(small, big, p, i, l, r, m)
  BY <1>1, MergedDivides
<1>3. /\ p \in DOMAIN big /\ big[p].inner /\ i \in 1 .. Len(big[p].keys)
      /\ l = ChildAt(big, p, i) /\ r = ChildAt(big, p, i + 1) /\ m = big[p].keys[i]
  BY DEF SiblingsAt
<1>4. l \in DOMAIN big /\ r \in DOMAIN big /\ l # r /\ hi[l] = m /\ lo[r] = m /\ h[l] = h[r]
  BY <1>1, <1>3, Siblings_
<1>5. Labels(lo, hi, h) /\ DOMAIN big \subseteq PageIds /\ DOMAIN small = DOMAIN big \ {r}
  BY <1>1 DEF Skeleton, Merged
<1>6. hi2 \in [PageIds -> Int] /\ hi2[l] = hi[r] /\ \A x \in PageIds : x # l => hi2[x] = hi[x]
  BY <1>4, <1>5 DEF Labels, EndsJoined
<1>7. DividesLabels(DOMAIN small, lo, hi2, h, lo, hi, h, l, r, m)
  BY <1>4, <1>5, <1>6 DEF DividesLabels, Labels, Same
<1> QED
  BY <1>2, <1>7, JoinTree

-----------------------------------------------------------------------------
(* An entry moves from one half of a sequence to the other. *)
Cat(n, l, w, r, v) == (\A j \in 1 .. w : n[j] = l[j]) /\ (\A j \in 1 .. v : n[w + j] = r[j])
(* Two parts of a sequence, after the last element of the left part went   *)
(* to the right one.                                                       *)
LEMMA CatFromLeft ==
  ASSUME NEW n, NEW l, NEW r, NEW w \in Nat, NEW v \in Nat, Len(l) = w, Len(r) = v, w > 0,
         Cat(n, l, w, r, v), NEW l2, IsWithout(l2, l, w), NEW r2, NEW e, e = l[w], IsWith(r2, r, 1, e)
  PROVE  Cat(n, l2, w - 1, r2, v + 1)
<1>1. \A j \in 1 .. w - 1 : l2[j] = IF j < w THEN l[j] ELSE l[j + 1]
  BY DEF IsWithout
<1>2. \A j \in 1 .. v + 1 : r2[j] = IF j < 1 THEN r[j] ELSE IF j = 1 THEN l[w] ELSE r[j - 1]
  BY DEF IsWith
<1>3. ASSUME NEW j \in 1 .. w - 1 PROVE n[j] = l2[j]
  <2>1. j \in 1 .. w /\ j < w
    OBVIOUS
  <2> QED
    BY <1>1, <2>1 DEF Cat
<1>4. ASSUME NEW j \in 1 .. v + 1 PROVE n[(w - 1) + j] = r2[j]
  <2>1. CASE j = 1
    <3>1. (w - 1) + j = w /\ w \in 1 .. w
      BY <2>1
    <3> QED
      BY <1>2, <2>1, <3>1 DEF Cat
  <2>2. CASE j # 1
    <3>1. j - 1 \in 1 .. v /\ (w - 1) + j = w + (j - 1) /\ ~(j < 1)
      BY <2>2
    <3>2. n[w + (j - 1)] = r[j - 1]
      BY <3>1 DEF Cat
    <3> QED
      BY <1>2, <2>2, <3>1, <3>2
  <2> QED
    BY <2>1, <2>2
<1> QED
  BY <1>3, <1>4 DEF Cat
(* The same with the first element of the right part going to the left one. *)
LEMMA CatFromRight ==
  ASSUME NEW n, NEW l, NEW r, NEW w \in Nat, NEW v \in Nat, Len(l) = w, Len(r) = v, v > 0,
         Cat(n, l, w, r, v), NEW l2, NEW e, e = r[1], IsWith(l2, l, w + 1, e), NEW r2, IsWithout(r2, r, 1)
  PROVE  Cat(n, l2, w + 1, r2, v - 1)
<1>1. \A j \in 1 .. w + 1 : l2[j] = IF j < w + 1 THEN l[j] ELSE IF j = w + 1 THEN r[1] ELSE l[j - 1]
  BY DEF IsWith
<1>2. \A j \in 1 .. v - 1 : r2[j] = IF j < 1 THEN r[j] ELSE r[j + 1]
  BY DEF IsWithout
<1>3. ASSUME NEW j \in 1 .. w + 1 PROVE n[j] = l2[j]
  <2>1. CASE j = w + 1
    <3>1. 1 \in 1 .. v /\ ~(w + 1 < w + 1)
      OBVIOUS
    <3>2. n[w + 1] = r[1]
      BY <3>1 DEF Cat
    <3> QED
      BY <1>1, <2>1, <3>1, <3>2
  <2>2. CASE j # w + 1
    <3>1. j \in 1 .. w /\ j < w + 1
      BY <2>2
    <3> QED
      BY <1>1, <3>1 DEF Cat
  <2> QED
    BY <2>1, <2>2
<1>4. ASSUME NEW j \in 1 .. v - 1 PROVE n[(w + 1) + j] = r2[j]
  <2>1. j + 1 \in 1 .. v /\ (w + 1) + j = w + (j + 1) /\ ~(j < 1)
    OBVIOUS
  <2>2. n[w + (j + 1)] = r[j + 1]
    BY <2>1 DEF Cat
  <2> QED
    BY <1>2, <2>1, <2>2
<1> QED
  BY <1>3, <1>4 DEF Cat
(* The same with an entry m in the middle, which goes to the other half. *)
Mid(n, l, w, m, r, v) ==
  (\A j \in 1 .. w : n[j] = l[j]) /\ n[w + 1] = m /\ (\A j \in 1 .. v : n[w + 1 + j] = r[j])
(* The same with an element between the parts: it goes to the right and is *)
(* replaced.                                                               *)
LEMMA MidFromLeft ==
  ASSUME NEW n, NEW l, NEW r, NEW w \in Nat, NEW v \in Nat, Len(l) = w, Len(r) = v, w > 0, NEW m,
         Mid(n, l, w, m, r, v), NEW l2, IsWithout(l2, l, w), NEW r2, IsWith(r2, r, 1, m)
  PROVE  Mid(n, l2, w - 1, l[w], r2, v + 1)
<1>1. \A j \in 1 .. w - 1 : l2[j] = IF j < w THEN l[j] ELSE l[j + 1]
  BY DEF IsWithout
<1>2. \A j \in 1 .. v + 1 : r2[j] = IF j < 1 THEN r[j] ELSE IF j = 1 THEN m ELSE r[j - 1]
  BY DEF IsWith
<1>3. ASSUME NEW j \in 1 .. w - 1 PROVE n[j] = l2[j]
  <2>1. j \in 1 .. w /\ j < w
    OBVIOUS
  <2> QED
    BY <1>1, <2>1 DEF Mid
<1>4. n[(w - 1) + 1] = l[w]
  <2>1. (w - 1) + 1 = w /\ w \in 1 .. w
    OBVIOUS
  <2> QED
    BY <2>1 DEF Mid
<1>5. ASSUME NEW j \in 1 .. v + 1 PROVE n[(w - 1) + 1 + j] = r2[j]
  <2>1. CASE j = 1
    <3>1. (w - 1) + 1 + j = w + 1 /\ ~(j < 1)
      BY <2>1
    <3> QED
      BY <1>2, <2>1, <3>1 DEF Mid
  <2>2. CASE j # 1
    <3>1. j - 1 \in 1 .. v /\ (w - 1) + 1 + j = w + 1 + (j - 1) /\ ~(j < 1)
      BY <2>2
    <3>2. n[w + 1 + (j - 1)] = r[j - 1]
      BY <3>1 DEF Mid
    <3> QED
      BY <1>2, <2>2, <3>1, <3>2
  <2> QED
    BY <2>1, <2>2
<1> QED
  BY <1>3, <1>4, <1>5 DEF Mid
(* And to the left. *)
LEMMA MidFromRight ==
  ASSUME NEW n, NEW l, NEW r, NEW w \in Nat, NEW v \in Nat, Len(l) = w, Len(r) = v, v > 0, NEW m,
         Mid(n, l, w, m, r, v), NEW l2, IsWith(l2, l, w + 1, m), NEW r2, IsWithout(r2, r, 1)
  PROVE  Mid(n, l2, w + 1, r[1], r2, v - 1)
<1>1. \A j \in 1 .. w + 1 : l2[j] = IF j < w + 1 THEN l[j] ELSE IF j = w + 1 THEN m ELSE l[j - 1]
  BY DEF IsWith
<1>2. \A j \in 1 .. v - 1 : r2[j] = IF j < 1 THEN r[j] ELSE r[j + 1]
  BY DEF IsWithout
<1>3. ASSUME NEW j \in 1 .. w + 1 PROVE n[j] = l2[j]
  <2>1. CASE j = w + 1
    <3>1. ~(w + 1 < w + 1)
      OBVIOUS
    <3> QED
      BY <1>1, <2>1, <3>1 DEF Mid
  <2>2. CASE j # w + 1
    <3>1. j \in 1 .. w /\ j < w + 1
      BY <2>2
    <3> QED
      BY <1>1, <3>1 DEF Mid
  <2> QED
    BY <2>1, <2>2
<1>4. n[(w + 1) + 1] = r[1]
  <2>1. 1 \in 1 .. v
    OBVIOUS
  <2> QED
    BY <2>1 DEF Mid
<1>5. ASSUME NEW j \in 1 .. v - 1 PROVE n[(w + 1) + 1 + j] = r2[j]
  <2>1. j + 1 \in 1 .. v /\ (w + 1) + 1 + j = w + 1 + (j + 1) /\ ~(j < 1)
    OBVIOUS
  <2>2. n[w + 1 + (j + 1)] = r[j + 1]
    BY <2>1 DEF Mid
  <2> QED
    BY <1>2, <2>1, <2>2
<1> QED
  BY <1>3, <1>4, <1>5 DEF Mid
(* The two ways to say that a node is made of two. *)
LEMMA InnerJoinIs ==
  ASSUME NEW n, NEW l, NEW m, NEW r, NEW w, NEW v, Len(l.keys) = w, Len(r.keys) = v
  PROVE  InnerJoin(n, l, m, r) <=>
           /\ n.inner /\ l.inner /\ r.inner /\ Len(n.keys) = w + 1 + v
           /\ Mid(n.keys, l.keys, w, m, r.keys, v)
           /\ Cat(n.child_ids, l.child_ids, w + 1, r.child_ids, v + 1)
  BY DEF InnerJoin, Mid, Cat
(* A leaf joined from two, by the parts of its sequences. *)
LEMMA LeafJoinIs ==
  ASSUME NEW n, NEW l, NEW m, NEW r, NEW w, NEW v, Len(l.keys) = w, Len(r.keys) = v
  PROVE  LeafJoin(n, l, m, r) <=>
           /\ ~n.inner /\ ~l.inner /\ ~r.inner /\ Len(n.keys) = w + v
           /\ w > 0 /\ m = l.keys[w] /\ n.next_lef_id = r.next_lef_id
           /\ Cat(n.keys, l.keys, w, r.keys, v) /\ Cat(n.values, l.values, w, r.values, v)
  BY DEF LeafJoin, Cat

(* substitute between inner nodes: the entry turns through the parent. *)
LEMMA InnerFromLeft ==
  ASSUME NEW l, IsInner(l, Keys, PageIds), NEW r, IsInner(r, Keys, PageIds), NEW n, NEW m \in Keys,
         InnerJoin(n, l, m, r), Len(l.keys) > 0, \A j \in 1 .. Len(r.keys) : m < r.keys[j],
         NEW l2, l2 = InnerDelete(l, Last(l.keys)),
         NEW r2, r2 = InsertFirst(r, m, Last(l.child_ids)), NEW m2, m2 = Last(l.keys)
  PROVE  /\ ShapeOK(l2) /\ ShapeOK(r2) /\ InnerJoin(n, l2, m2, r2)
         /\ l2.inner /\ Len(l2.keys) = Len(l.keys) - 1 /\ Len(r2.keys) = Len(r.keys) + 1
<1> DEFINE w == Len(l.keys)
           v == Len(r.keys)
           c == Last(l.child_ids)
<1>1. w \in Nat /\ v \in Nat /\ w > 0 /\ w \in 1 .. w /\ Len(l.child_ids) = w + 1 /\ Len(r.child_ids) = v + 1
  BY InnerFacts DEF IsInner
<1>2. m2 = l.keys[w] /\ c = l.child_ids[w + 1] /\ c \in PageIds
  <2>1. m2 = l.keys[w] /\ c = l.child_ids[w + 1]
    BY <1>1 DEF Last
  <2>2. w + 1 \in 1 .. w + 1
    BY <1>1
  <2> QED
    BY <2>1, <2>2, InnerFacts
<1> HIDE DEF w, v, c
<1>3. IsInner(l2, Keys, PageIds) /\ IsWithout(l2.keys, l.keys, w) /\ IsWithout(l2.child_ids, l.child_ids, w + 1)
  <2>1. l2 = InnerDelete(l, l.keys[w]) /\ w \in 1 .. Len(l.keys) /\ Keys \in SUBSET Int
    BY <1>1, <1>2, KeysAreInts DEF w
  <2> QED
    BY <2>1, InnerDeleteIs
<1>4. IsInner(r2, Keys, PageIds) /\ IsWith(r2.keys, r.keys, 1, m) /\ IsWith(r2.child_ids, r.child_ids, 1, c)
  <2>1. r2 = InsertFirst(r, m, c) /\ Keys \in SUBSET Int
    BY KeysAreInts DEF c
  <2>2. r.keys # << >> => m < r.keys[1]
    <3>1. SUFFICES ASSUME r.keys # << >> PROVE m < r.keys[1]
      OBVIOUS
    <3>2. r.keys \in Seq(Int)
      BY InnerFacts
    <3>3. 1 \in 1 .. Len(r.keys)
      BY <3>1, <3>2
    <3> QED
      BY <3>3
  <2> QED
    BY <1>2, <2>1, <2>2, InsertFirstIs
<1>5. Mid(n.keys, l.keys, w, m, r.keys, v) /\ Cat(n.child_ids, l.child_ids, w + 1, r.child_ids, v + 1)
      /\ n.inner /\ l.inner /\ r.inner /\ Len(n.keys) = w + 1 + v
  BY DEF InnerJoin, Mid, Cat, w, v
<1>6. Mid(n.keys, l2.keys, w - 1, m2, r2.keys, v + 1)
  <2> DEFINE s == l.keys
             t == r.keys
             s2 == l2.keys
             t2 == r2.keys
             a == n.keys
  <2>1. Len(s) = w /\ Len(t) = v /\ Mid(a, s, w, m, t, v) /\ IsWithout(s2, s, w) /\ IsWith(t2, t, 1, m) /\ m2 = s[w]
    BY <1>2, <1>3, <1>4, <1>5 DEF w, v
  <2> HIDE DEF s, t, s2, t2, a
  <2>2. Mid(a, s2, w - 1, s[w], t2, v + 1)
    BY <1>1, <2>1, MidFromLeft
  <2> QED
    BY <2>1, <2>2 DEF a, s2, t2
<1>7. Cat(n.child_ids, l2.child_ids, w, r2.child_ids, v + 2)
  <2> DEFINE s == l.child_ids
             t == r.child_ids
             s2 == l2.child_ids
             t2 == r2.child_ids
             a == n.child_ids
             x == w + 1
             y == v + 1
  <2>1. Len(s) = x /\ Len(t) = y /\ Cat(a, s, x, t, y) /\ IsWithout(s2, s, x) /\ IsWith(t2, t, 1, c) /\ c = s[x]
        /\ x \in Nat /\ y \in Nat /\ x > 0 /\ x - 1 = w /\ y + 1 = v + 2
    BY <1>1, <1>2, <1>3, <1>4, <1>5
  <2> HIDE DEF s, t, s2, t2, a, x, y
  <2>2. Cat(a, s2, x - 1, t2, y + 1)
    BY <2>1, CatFromLeft
  <2> QED
    BY <2>1, <2>2 DEF a, s2, t2
<1>8. Len(l2.keys) = w - 1 /\ Len(r2.keys) = v + 1
  BY <1>3, <1>4 DEF IsWithout, IsWith, w, v
<1>9. l2.inner /\ r2.inner
  BY <1>3, <1>4 DEF IsInner
<1>10. InnerJoin(n, l2, m2, r2)
  <2> DEFINE x == w - 1
             y == v + 1
  <2>1. /\ Len(l2.keys) = x /\ Len(r2.keys) = y /\ Len(n.keys) = x + 1 + y /\ x + 1 = w /\ y + 1 = v + 2
    BY <1>1, <1>5, <1>8
  <2>2. Mid(n.keys, l2.keys, x, m2, r2.keys, y) /\ Cat(n.child_ids, l2.child_ids, x + 1, r2.child_ids, y + 1)
    <3>1. x + 1 = w /\ y + 1 = v + 2
      BY <2>1
    <3>2. Cat(n.child_ids, l2.child_ids, x + 1, r2.child_ids, y + 1)
      BY ONLY <1>7, <3>1
    <3> QED
      BY <1>6, <3>2
  <2> HIDE DEF x, y
  <2> QED
    BY <1>5, <1>9, <2>1, <2>2, InnerJoinIs
<1>11. ShapeOK(l2) /\ ShapeOK(r2)
  <2>1. r2.inner = TRUE
    BY DEF InsertFirst, InnerNode
  <2>2. l2.inner = TRUE
    <3>1. HasKey(l, l.keys[w])
      BY <1>1, InnerFacts, PositionOfKey DEF w
    <3> QED
      BY <1>2, <3>1 DEF InnerDelete, InnerNode
  <2> QED
    BY <1>3, <1>4, <2>1, <2>2 DEF ShapeOK
<1> QED
  BY <1>8, <1>9, <1>10, <1>11 DEF w, v
(* The first entry of the right inner node turns through the parent. *)
LEMMA InnerFromRight ==
  ASSUME NEW l, IsInner(l, Keys, PageIds), NEW r, IsInner(r, Keys, PageIds), NEW n, NEW m \in Keys,
         InnerJoin(n, l, m, r), Len(r.keys) > 0, \A j \in 1 .. Len(l.keys) : l.keys[j] < m,
         NEW l2, l2 = InnerInsert(l, m, Head(r.child_ids)),
         NEW r2, r2 = DeleteFirstPair(r), NEW m2, m2 = Head(r.keys)
  PROVE  /\ ShapeOK(l2) /\ ShapeOK(r2) /\ InnerJoin(n, l2, m2, r2)
         /\ l2.inner /\ Len(l2.keys) = Len(l.keys) + 1 /\ Len(r2.keys) = Len(r.keys) - 1
<1> DEFINE w == Len(l.keys)
           v == Len(r.keys)
           c == Head(r.child_ids)
<1>1. /\ w \in Nat /\ v \in Nat /\ v > 0 /\ 1 \in 1 .. v /\ 1 \in 1 .. v + 1
      /\ Len(l.child_ids) = w + 1 /\ Len(r.child_ids) = v + 1 /\ m \in Int
  BY InnerFacts, KeysAreInts DEF IsInner
<1>2. m2 = r.keys[1] /\ c = r.child_ids[1] /\ c \in PageIds /\ r.keys # << >>
  BY <1>1, InnerFacts
<1> HIDE DEF w, v, c
<1>3. Position(l, m) = w + 1
  <2>1. l.keys \in Seq(Int) /\ Ascending(l.keys) /\ m \in Int
    BY <1>1, InnerFacts
  <2>2. Position(l, m) \in 1 .. w + 1 /\ \A j \in 1 .. w : l.keys[j] < m <=> j < Position(l, m)
    BY <2>1, PositionSplits DEF w
  <2>3. \A j \in 1 .. w : j < Position(l, m)
    BY <2>2 DEF w
  <2> DEFINE p == Position(l, m)
  <2>4. p \in 1 .. w + 1 /\ \A j \in 1 .. w : j < p
    BY <2>2, <2>3
  <2> HIDE DEF p
  <2>5. p = w + 1
    BY <1>1, <2>4
  <2> QED
    BY <2>5 DEF p
<1>4. ~HasKey(l, m)
  <2>1. Position(l, m) = Len(l.keys) + 1 /\ Len(l.keys) \in Nat
    BY <1>1, <1>3 DEF w
  <2>2. ~(Position(l, m) <= Len(l.keys))
    BY <2>1
  <2> QED
    BY <2>2 DEF HasKey
<1>5. /\ IsInner(l2, Keys, PageIds) /\ IsWith(l2.keys, l.keys, w + 1, m)
      /\ IsWith(l2.child_ids, l.child_ids, w + 2, c)
  <2>1. l2 = InnerInsert(l, m, c) /\ Keys \in SUBSET Int
    BY KeysAreInts DEF c
  <2>2. /\ IsInner(l2, Keys, PageIds) /\ IsWith(l2.keys, l.keys, Position(l, m), m)
        /\ IsWith(l2.child_ids, l.child_ids, Position(l, m) + 1, c)
    BY <1>2, <1>4, <2>1, InnerInsertIs
  <2>3. Position(l, m) + 1 = w + 2
    BY <1>1, <1>3
  <2> QED
    BY <1>3, <2>2, <2>3
<1>6. IsInner(r2, Keys, PageIds) /\ IsWithout(r2.keys, r.keys, 1) /\ IsWithout(r2.child_ids, r.child_ids, 1)
  BY <1>2, KeysAreInts, DeleteFirstPairIs
<1>7. Mid(n.keys, l.keys, w, m, r.keys, v) /\ Cat(n.child_ids, l.child_ids, w + 1, r.child_ids, v + 1)
      /\ n.inner /\ l.inner /\ r.inner /\ Len(n.keys) = w + 1 + v
  BY DEF InnerJoin, Mid, Cat, w, v
<1>8. Mid(n.keys, l2.keys, w + 1, m2, r2.keys, v - 1)
  <2> DEFINE s == l.keys
             t == r.keys
             s2 == l2.keys
             t2 == r2.keys
             a == n.keys
  <2>1. /\ Len(s) = w /\ Len(t) = v /\ Mid(a, s, w, m, t, v) /\ IsWith(s2, s, w + 1, m)
        /\ IsWithout(t2, t, 1) /\ m2 = t[1]
    BY <1>2, <1>5, <1>6, <1>7 DEF w, v
  <2> HIDE DEF s, t, s2, t2, a
  <2>2. Mid(a, s2, w + 1, t[1], t2, v - 1)
    BY <1>1, <2>1, MidFromRight
  <2> QED
    BY <2>1, <2>2 DEF a, s2, t2
<1>9. Cat(n.child_ids, l2.child_ids, w + 2, r2.child_ids, v)
  <2> DEFINE s == l.child_ids
             t == r.child_ids
             s2 == l2.child_ids
             t2 == r2.child_ids
             a == n.child_ids
             x == w + 1
             y == v + 1
  <2>1. Len(s) = x /\ Len(t) = y /\ Cat(a, s, x, t, y) /\ IsWith(s2, s, x + 1, c) /\ IsWithout(t2, t, 1) /\ c = t[1]
        /\ x \in Nat /\ y \in Nat /\ y > 0 /\ x + 1 = w + 2 /\ y - 1 = v
    BY <1>1, <1>2, <1>5, <1>6, <1>7
  <2> HIDE DEF s, t, s2, t2, a, x, y
  <2>2. Cat(a, s2, x + 1, t2, y - 1)
    BY <2>1, CatFromRight
  <2> QED
    BY <2>1, <2>2 DEF a, s2, t2
<1>10. Len(l2.keys) = w + 1 /\ Len(r2.keys) = v - 1
  BY <1>5, <1>6 DEF IsWithout, IsWith, w, v
<1>11. l2.inner /\ r2.inner
  BY <1>5, <1>6 DEF IsInner
<1>12. InnerJoin(n, l2, m2, r2)
  <2> DEFINE x == w + 1
             y == v - 1
  <2>1. /\ Len(l2.keys) = x /\ Len(r2.keys) = y /\ Len(n.keys) = x + 1 + y
    BY <1>1, <1>7, <1>10
  <2>2. Mid(n.keys, l2.keys, x, m2, r2.keys, y) /\ Cat(n.child_ids, l2.child_ids, x + 1, r2.child_ids, y + 1)
    <3>1. x + 1 = w + 2 /\ y + 1 = v
      BY <1>1
    <3>2. Cat(n.child_ids, l2.child_ids, x + 1, r2.child_ids, y + 1)
      BY ONLY <1>9, <3>1
    <3> QED
      BY <1>8, <3>2
  <2> HIDE DEF x, y
  <2> QED
    BY <1>7, <1>11, <2>1, <2>2, InnerJoinIs
<1>13. ShapeOK(l2) /\ ShapeOK(r2)
  <2>1. l2.inner = TRUE /\ r2.inner = TRUE
    BY DEF InnerInsert, DeleteFirstPair, InnerNode
  <2> QED
    BY <1>5, <1>6, <2>1 DEF ShapeOK
<1> QED
  BY <1>10, <1>11, <1>12, <1>13 DEF w, v

(* substitute between leaves: the entry moves. *)
LEMMA LeafFromLeft ==
  ASSUME NEW l, IsOuter(l, Keys, Values, PageIds), l.inner \in BOOLEAN,
         NEW r, IsOuter(r, Keys, Values, PageIds), NEW n, NEW m,
         LeafJoin(n, l, m, r), Len(l.keys) > 1, \A j \in 1 .. Len(r.keys) : m < r.keys[j],
         NEW l2, l2 = OuterDelete(l, Last(l.keys)),
         NEW r2, r2 = OuterInsert(r, Last(l.keys), Last(l.values)), NEW m2, m2 = Last(l2.keys)
  PROVE  /\ ShapeOK(l2) /\ ShapeOK(r2) /\ LeafJoin(n, l2, m2, r2) /\ m2 = l.keys[Len(l.keys) - 1]
         /\ ~l2.inner /\ Len(l2.keys) = Len(l.keys) - 1 /\ Len(r2.keys) = Len(r.keys) + 1
         /\ l2.next_lef_id = l.next_lef_id
<1> DEFINE w == Len(l.keys)
           v == Len(r.keys)
           c == Last(l.values)
<1>1. /\ w \in Nat /\ v \in Nat /\ w > 1 /\ w \in 1 .. w /\ Len(l.values) = w /\ Len(r.values) = v
      /\ ~l.inner /\ ~r.inner
  BY LeafFacts DEF IsOuter
<1>2. Last(l.keys) = m /\ m = l.keys[w] /\ m \in Int /\ m \in Keys /\ c = l.values[w] /\ c \in Values
  <2>1. Last(l.keys) = l.keys[w] /\ c = l.values[w] /\ m = l.keys[w]
    BY <1>1 DEF Last, LeafJoin
  <2>2. l.keys[w] \in Int /\ l.keys[w] \in Keys
    BY <1>1, LeafFacts
  <2>3. l.values[w] \in Values
    <3>1. l.values \in Seq(Values) /\ w \in 1 .. Len(l.values)
      BY <1>1 DEF IsOuter
    <3> QED
      BY <3>1, ElementOfSeq
  <2> QED
    BY <2>1, <2>2, <2>3
<1> HIDE DEF w, v, c
<1>3. /\ IsOuter(l2, Keys, Values, PageIds) /\ l2.next_lef_id = l.next_lef_id
      /\ IsWithout(l2.keys, l.keys, w) /\ IsWithout(l2.values, l.values, w)
  <2>1. l.keys \in Seq(Int) /\ Ascending(l.keys) /\ w \in 1 .. Len(l.keys) /\ Keys \in SUBSET Int
    BY <1>1, LeafFacts, KeysAreInts DEF w
  <2>2. Position(l, l.keys[w]) = w /\ HasKey(l, l.keys[w])
    BY <2>1, PositionOfKey
  <2>3. Position(l, m) = w /\ HasKey(l, m) /\ m \in Keys /\ l2 = OuterDelete(l, m)
    BY <1>2, <2>2
  <2>4. /\ IsOuter(l2, Keys, Values, PageIds) /\ l2.next_lef_id = l.next_lef_id
        /\ IsWithout(l2.keys, l.keys, Position(l, m)) /\ IsWithout(l2.values, l.values, Position(l, m))
    BY <2>1, <2>3, OuterDeleteIs
  <2> QED
    BY <2>3, <2>4
<1>4. Position(r, m) = 1 /\ ~HasKey(r, m)
  <2>1. r.keys \in Seq(Int) /\ Ascending(r.keys) /\ m \in Int /\ \A j \in 1 .. v : r.keys[j] \in Int
    BY <1>2, LeafFacts DEF v
  <2>2. 1 \in 1 .. v + 1 /\ 1 \in 1 .. Len(r.keys) + 1
    BY <1>1 DEF v
  <2>3. 1 <= Len(r.keys) => m < r.keys[1]
    BY <1>1 DEF v
  <2>4. Position(r, m) = 1
    <3>1. 1 <= Len(r.keys) => m <= r.keys[1]
      <4>1. SUFFICES ASSUME 1 <= Len(r.keys) PROVE m <= r.keys[1]
        OBVIOUS
      <4>2. 1 \in 1 .. v
        BY <1>1, <4>1 DEF v
      <4> QED
        BY <2>1, <2>3, <4>1, <4>2
    <3> DEFINE p == 1
    <3>2. p \in 1 .. Len(r.keys) + 1 /\ ~(p > 1) /\ (p <= Len(r.keys) => m <= r.keys[p])
      BY <2>2, <3>1
    <3> HIDE DEF p
    <3>3. Position(r, m) = p
      BY <2>1, <3>2, PositionIs
    <3> QED
      BY <3>3 DEF p
  <2>5. ~HasKey(r, m)
    <3>1. SUFFICES ASSUME HasKey(r, m) PROVE FALSE
      OBVIOUS
    <3>2. 1 <= Len(r.keys) /\ r.keys[1] = m
      BY <2>4, <3>1 DEF HasKey
    <3> QED
      BY <2>1, <2>3, <3>2
  <2> QED
    BY <2>4, <2>5
<1>5. /\ IsOuter(r2, Keys, Values, PageIds) /\ r2.next_lef_id = r.next_lef_id
      /\ IsWith(r2.keys, r.keys, 1, m) /\ IsWith(r2.values, r.values, 1, c)
  <2>1. r2 = OuterInsert(r, m, c) /\ Keys \in SUBSET Int
    BY <1>2, KeysAreInts DEF c
  <2>2. /\ IsOuter(r2, Keys, Values, PageIds) /\ r2.next_lef_id = r.next_lef_id
        /\ IsWith(r2.keys, r.keys, Position(r, m), m) /\ IsWith(r2.values, r.values, Position(r, m), c)
    BY <1>2, <1>4, <2>1, OuterInsertIs
  <2> QED
    BY <1>4, <2>2
<1>6. /\ Cat(n.keys, l.keys, w, r.keys, v) /\ Cat(n.values, l.values, w, r.values, v)
      /\ ~n.inner /\ Len(n.keys) = w + v /\ n.next_lef_id = r.next_lef_id
  BY DEF LeafJoin, Cat, w, v
<1>7. Cat(n.keys, l2.keys, w - 1, r2.keys, v + 1)
  <2> DEFINE s == l.keys
             t == r.keys
             s2 == l2.keys
             t2 == r2.keys
             a == n.keys
  <2>1. Len(s) = w /\ Len(t) = v /\ Cat(a, s, w, t, v) /\ IsWithout(s2, s, w) /\ IsWith(t2, t, 1, m) /\ m = s[w]
        /\ w > 0
    BY <1>1, <1>2, <1>3, <1>5, <1>6 DEF w, v
  <2> HIDE DEF s, t, s2, t2, a
  <2>2. Cat(a, s2, w - 1, t2, v + 1)
    BY <1>1, <2>1, CatFromLeft
  <2> QED
    BY <2>2 DEF a, s2, t2
<1>8. Cat(n.values, l2.values, w - 1, r2.values, v + 1)
  <2> DEFINE s == l.values
             t == r.values
             s2 == l2.values
             t2 == r2.values
             a == n.values
  <2>1. Len(s) = w /\ Len(t) = v /\ Cat(a, s, w, t, v) /\ IsWithout(s2, s, w) /\ IsWith(t2, t, 1, c) /\ c = s[w]
        /\ w > 0
    BY <1>1, <1>2, <1>3, <1>5, <1>6
  <2> HIDE DEF s, t, s2, t2, a
  <2>2. Cat(a, s2, w - 1, t2, v + 1)
    BY <1>1, <2>1, CatFromLeft
  <2> QED
    BY <2>2 DEF a, s2, t2
<1>9. Len(l2.keys) = w - 1 /\ Len(r2.keys) = v + 1
  BY <1>3, <1>5 DEF IsWithout, IsWith, w, v
<1>10. ~l2.inner /\ ~r2.inner
  BY <1>3, <1>5 DEF IsOuter
<1>11. m2 = l2.keys[w - 1] /\ m2 = l.keys[w - 1]
  <2>1. w - 1 \in 1 .. w - 1 /\ w - 1 < w
    BY <1>1
  <2>2. \A j \in 1 .. Len(l.keys) - 1 : l2.keys[j] = IF j < w THEN l.keys[j] ELSE l.keys[j + 1]
    BY <1>3 DEF IsWithout
  <2>3. l2.keys[w - 1] = l.keys[w - 1]
    BY <2>1, <2>2 DEF w
  <2> QED
    BY <1>9, <2>3 DEF Last
<1>12. LeafJoin(n, l2, m2, r2)
  <2> DEFINE x == w - 1
             y == v + 1
  <2>1. /\ Len(l2.keys) = x /\ Len(r2.keys) = y /\ Len(n.keys) = x + y /\ x > 0 /\ m2 = l2.keys[x]
        /\ Cat(n.keys, l2.keys, x, r2.keys, y) /\ Cat(n.values, l2.values, x, r2.values, y)
    BY <1>1, <1>6, <1>7, <1>8, <1>9, <1>11
  <2> HIDE DEF x, y
  <2> QED
    BY <1>5, <1>6, <1>10, <2>1, LeafJoinIs
<1>13. ShapeOK(l2) /\ ShapeOK(r2)
  <2>1. l2.inner \in BOOLEAN /\ r2.inner = FALSE
    BY DEF OuterInsert, OuterDelete, OuterNode
  <2> QED
    BY <1>3, <1>5, <1>10, <2>1 DEF ShapeOK
<1> QED
  BY <1>3, <1>9, <1>10, <1>11, <1>12, <1>13 DEF w, v

(* The first entry of the right leaf goes to the left one. *)
LEMMA LeafFromRight ==
  ASSUME NEW l, IsOuter(l, Keys, Values, PageIds), NEW r, IsOuter(r, Keys, Values, PageIds),
         r.inner \in BOOLEAN, NEW n, NEW m,
         LeafJoin(n, l, m, r), Len(r.keys) > 0, \A j \in 1 .. Len(r.keys) : m < r.keys[j],
         NEW l2, l2 = OuterInsert(l, Head(r.keys), Head(r.values)),
         NEW r2, r2 = OuterDelete(r, Head(r.keys)), NEW m2, m2 = Head(r.keys)
  PROVE  /\ ShapeOK(l2) /\ ShapeOK(r2) /\ LeafJoin(n, l2, m2, r2)
         /\ ~l2.inner /\ Len(l2.keys) = Len(l.keys) + 1 /\ Len(r2.keys) = Len(r.keys) - 1
         /\ l2.next_lef_id = l.next_lef_id
<1> DEFINE w == Len(l.keys)
           v == Len(r.keys)
           c == Head(r.values)
<1>1. /\ w \in Nat /\ v \in Nat /\ v > 0 /\ 1 \in 1 .. v /\ Len(l.values) = w /\ Len(r.values) = v
      /\ ~l.inner /\ ~r.inner
  BY LeafFacts DEF IsOuter
<1>2. m2 = r.keys[1] /\ m2 \in Int /\ m2 \in Keys /\ c = r.values[1] /\ c \in Values /\ m < m2
  <2>1. r.values \in Seq(Values) /\ r.keys \in Seq(Int) /\ 1 \in 1 .. Len(r.values) /\ 1 \in 1 .. Len(r.keys)
    BY <1>1, LeafFacts DEF IsOuter
  <2>2. m2 = r.keys[1] /\ c = r.values[1]
    BY <2>1
  <2>3. r.keys[1] \in Int /\ r.keys[1] \in Keys
    BY <2>1, LeafFacts
  <2>4. r.values[1] \in Values
    BY <2>1, ElementOfSeq
  <2> QED
    BY <2>1, <2>2, <2>3, <2>4
<1> HIDE DEF w, v, c
<1>3. m \in Int /\ m = l.keys[w] /\ w > 0 /\ w \in 1 .. w
  <2>1. w > 0 /\ m = l.keys[w]
    BY DEF LeafJoin, w
  <2>2. w \in 1 .. w
    BY <1>1, <2>1
  <2> QED
    BY <2>1, <2>2, LeafFacts DEF w
<1>4. \A j \in 1 .. w : l.keys[j] < m2
  <2>1. SUFFICES ASSUME NEW j \in 1 .. w PROVE l.keys[j] < m2
    OBVIOUS
  <2>2. l.keys \in Seq(Int) /\ Ascending(l.keys) /\ j \in 1 .. Len(l.keys) /\ w \in 1 .. Len(l.keys) /\ j <= w
    BY <1>1, <1>3, LeafFacts DEF w
  <2>3. l.keys[j] <= l.keys[w] /\ l.keys[j] \in Int
    BY <2>2, AscendingWeakly
  <2> QED
    BY <1>2, <1>3, <2>3
<1>5. Position(l, m2) = w + 1 /\ ~HasKey(l, m2)
  <2>1. l.keys \in Seq(Int) /\ Ascending(l.keys) /\ m2 \in Int
    BY <1>2, LeafFacts
  <2>2. Position(l, m2) \in 1 .. w + 1 /\ \A j \in 1 .. w : l.keys[j] < m2 <=> j < Position(l, m2)
    BY <2>1, PositionSplits DEF w
  <2> DEFINE p == Position(l, m2)
  <2>4. p \in 1 .. w + 1 /\ \A j \in 1 .. w : j < p
    BY <1>4, <2>2
  <2> HIDE DEF p
  <2>5. p = w + 1
    BY <1>1, <2>4
  <2>6. ~(p <= w)
    BY <1>1, <2>5
  <2> QED
    BY <2>5, <2>6 DEF p, HasKey, w
<1>6. /\ IsOuter(l2, Keys, Values, PageIds) /\ l2.next_lef_id = l.next_lef_id
      /\ IsWith(l2.keys, l.keys, w + 1, m2) /\ IsWith(l2.values, l.values, w + 1, c)
  <2>1. l2 = OuterInsert(l, m2, c) /\ Keys \in SUBSET Int
    BY KeysAreInts DEF c
  <2>2. /\ IsOuter(l2, Keys, Values, PageIds) /\ l2.next_lef_id = l.next_lef_id
        /\ IsWith(l2.keys, l.keys, Position(l, m2), m2) /\ IsWith(l2.values, l.values, Position(l, m2), c)
    BY <1>2, <1>5, <2>1, OuterInsertIs
  <2> QED
    BY <1>5, <2>2
<1>7. /\ IsOuter(r2, Keys, Values, PageIds) /\ r2.next_lef_id = r.next_lef_id
      /\ IsWithout(r2.keys, r.keys, 1) /\ IsWithout(r2.values, r.values, 1)
  <2>1. r.keys \in Seq(Int) /\ Ascending(r.keys) /\ 1 \in 1 .. Len(r.keys) /\ Keys \in SUBSET Int
    BY <1>1, LeafFacts, KeysAreInts DEF v
  <2>2. Position(r, r.keys[1]) = 1 /\ HasKey(r, r.keys[1])
    BY <2>1, PositionOfKey
  <2>3. Position(r, m2) = 1 /\ HasKey(r, m2) /\ r2 = OuterDelete(r, m2)
    BY <1>2, <2>2
  <2>4. /\ IsOuter(r2, Keys, Values, PageIds) /\ r2.next_lef_id = r.next_lef_id
        /\ IsWithout(r2.keys, r.keys, Position(r, m2)) /\ IsWithout(r2.values, r.values, Position(r, m2))
    BY <1>2, <2>1, <2>3, OuterDeleteIs
  <2> QED
    BY <2>3, <2>4
<1>8. /\ Cat(n.keys, l.keys, w, r.keys, v) /\ Cat(n.values, l.values, w, r.values, v)
      /\ ~n.inner /\ Len(n.keys) = w + v /\ n.next_lef_id = r.next_lef_id
  BY DEF LeafJoin, Cat, w, v
<1>9. Cat(n.keys, l2.keys, w + 1, r2.keys, v - 1)
  <2> DEFINE s == l.keys
             t == r.keys
             s2 == l2.keys
             t2 == r2.keys
             a == n.keys
  <2>1. Len(s) = w /\ Len(t) = v /\ Cat(a, s, w, t, v) /\ IsWith(s2, s, w + 1, m2) /\ IsWithout(t2, t, 1) /\ m2 = t[1]
    BY <1>2, <1>6, <1>7, <1>8 DEF w, v
  <2> HIDE DEF s, t, s2, t2, a
  <2>2. Cat(a, s2, w + 1, t2, v - 1)
    BY <1>1, <2>1, CatFromRight
  <2> QED
    BY <2>2 DEF a, s2, t2
<1>10. Cat(n.values, l2.values, w + 1, r2.values, v - 1)
  <2> DEFINE s == l.values
             t == r.values
             s2 == l2.values
             t2 == r2.values
             a == n.values
  <2>1. Len(s) = w /\ Len(t) = v /\ Cat(a, s, w, t, v) /\ IsWith(s2, s, w + 1, c) /\ IsWithout(t2, t, 1) /\ c = t[1]
    BY <1>1, <1>2, <1>6, <1>7, <1>8
  <2> HIDE DEF s, t, s2, t2, a
  <2>2. Cat(a, s2, w + 1, t2, v - 1)
    BY <1>1, <2>1, CatFromRight
  <2> QED
    BY <2>2 DEF a, s2, t2
<1>11. Len(l2.keys) = w + 1 /\ Len(r2.keys) = v - 1 /\ ~l2.inner /\ ~r2.inner
  BY <1>6, <1>7 DEF IsWithout, IsWith, w, v, IsOuter
<1>12. m2 = l2.keys[w + 1]
  <2>1. w + 1 \in 1 .. w + 1 /\ ~(w + 1 < w + 1)
    BY <1>1
  <2>2. \A j \in 1 .. Len(l.keys) + 1 :
           l2.keys[j] = IF j < w + 1 THEN l.keys[j] ELSE IF j = w + 1 THEN m2 ELSE l.keys[j - 1]
    BY <1>6 DEF IsWith
  <2> QED
    BY <2>1, <2>2 DEF w
<1>13. LeafJoin(n, l2, m2, r2)
  <2> DEFINE x == w + 1
             y == v - 1
  <2>1. /\ Len(l2.keys) = x /\ Len(r2.keys) = y /\ Len(n.keys) = x + y /\ x > 0 /\ m2 = l2.keys[x]
        /\ Cat(n.keys, l2.keys, x, r2.keys, y) /\ Cat(n.values, l2.values, x, r2.values, y)
    <3>1. Len(n.keys) = x + y /\ x > 0
      <4>1. w \in Nat /\ v \in Nat /\ Len(n.keys) = w + v
        BY <1>1, <1>8
      <4> QED
        BY ONLY <4>1
    <3>2. Len(l2.keys) = x /\ Len(r2.keys) = y /\ m2 = l2.keys[x]
      BY <1>11, <1>12
    <3>3. Cat(n.keys, l2.keys, x, r2.keys, y) /\ Cat(n.values, l2.values, x, r2.values, y)
      BY <1>9, <1>10
    <3> QED
      BY <3>1, <3>2, <3>3
  <2> HIDE DEF x, y
  <2> QED
    BY <1>7, <1>8, <1>11, <2>1, LeafJoinIs
<1>14. ShapeOK(l2) /\ ShapeOK(r2)
  <2>1. r2.inner \in BOOLEAN /\ l2.inner = FALSE
    BY DEF OuterInsert, OuterDelete, OuterNode
  <2> QED
    BY <1>6, <1>7, <1>11, <2>1 DEF ShapeOK
<1> QED
  BY <1>6, <1>11, <1>13, <1>14 DEF w, v

-----------------------------------------------------------------------------
(* An entry goes from one sibling to the other: the two are joined and cut *)
(* at another key.                                                         *)
Borrowed(big, pg2, p, i, l, r, m, m2) ==
  /\ DOMAIN pg2 = DOMAIN big /\ pg2[p] = WithKey(big[p], i, m2)
  /\ \A x \in DOMAIN big : x # l /\ x # r /\ x # p => pg2[x] = big[x]
  /\ ShapeOK(pg2[l]) /\ ShapeOK(pg2[r])
  /\ LET n == Joined(big[l], big[r], m) IN
     InnerJoin(n, pg2[l], m2, pg2[r]) \/ LeafJoin(n, pg2[l], m2, pg2[r])
  /\ ~pg2[l].inner => pg2[l].next_lef_id = r /\ Len(pg2[r].keys) > 1

(* A key for another one. *)
LEMMA AlteredIsWith ==
  ASSUME NEW s, NEW t, NEW u, Len(s) \in Nat, NEW p \in 1 .. Len(s) + 1, NEW e, NEW f,
         IsWith(t, s, p, e), IsAltered(u, t, p, f)
  PROVE  IsWith(u, s, p, f)
<1>1. Len(u) = Len(s) + 1 /\ Len(t) = Len(s) + 1
  BY DEF IsWith, IsAltered
<1>2. ASSUME NEW j \in 1 .. Len(s) + 1
      PROVE  u[j] = IF j < p THEN s[j] ELSE IF j = p THEN f ELSE s[j - 1]
  <2>1. t[j] = IF j < p THEN s[j] ELSE IF j = p THEN e ELSE s[j - 1]
    BY DEF IsWith
  <2>2. u[j] = IF j = p THEN f ELSE t[j]
    BY <1>1 DEF IsAltered
  <2> QED
    BY <2>1, <2>2
<1> QED
  BY <1>1, <1>2 DEF IsWith

(* The separator of two siblings may be any key of their spans. *)
LEMMA SeparatorAltered ==
  ASSUME NEW pg, NEW lo, NEW hi, NEW h, Skeleton(pg, lo, hi, h),
         NEW odd, NEW k, Leaves(pg, lo, hi, h, odd, k),
         NEW p, NEW i, NEW l, NEW r, NEW m, SiblingsAt(pg, p, i, l, r, m),
         NEW m2 \in Keys, lo[l] < m2, m2 < hi[r], NEW q, q = WithKey(pg[p], i, m2)
  PROVE  /\ ShapeOK(q) /\ q.inner /\ IsAltered(q.keys, pg[p].keys, i, m2)
         /\ q.child_ids = pg[p].child_ids
<1> DEFINE n == pg[p]
           w == Len(n.keys)
<1>1. /\ p \in DOMAIN pg /\ n.inner /\ i \in 1 .. w /\ l = ChildAt(pg, p, i) /\ r = ChildAt(pg, p, i + 1)
  BY DEF SiblingsAt
<1>2. IsInner(n, Keys, PageIds) /\ n.inner \in BOOLEAN /\ w \in Nat /\ Keys \in SUBSET Int
  BY <1>1, InnerFacts, KeysAreInts DEF Skeleton, Shapes, ShapeOK
<1>3. lo[l] = Cut(n, lo[p], hi[p], i - 1) /\ hi[r] = Cut(n, lo[p], hi[p], i + 1)
  <2>1. i \in 1 .. w + 1 /\ i + 1 \in 1 .. w + 1 /\ (i + 1) - 1 = i
    BY <1>1, <1>2
  <2>2. lo[l] = Cut(n, lo[p], hi[p], i - 1)
    BY <1>1, <2>1, ChildIsBelow
  <2>3. hi[r] = Cut(n, lo[p], hi[p], i + 1)
    BY <1>1, <2>1, ChildIsBelow
  <2> QED
    BY <2>2, <2>3
<1>4. i > 1 => n.keys[i - 1] < m2
  <2>1. ASSUME i > 1 PROVE lo[l] = n.keys[i - 1]
    <3>1. i - 1 # 0 /\ i - 1 # w + 1
      BY <1>1, <1>2, <2>1
    <3> QED
      BY <1>3, <3>1 DEF Cut
  <2> QED
    BY <2>1
<1>5. i < w => m2 < n.keys[i + 1]
  <2>1. ASSUME i < w PROVE hi[r] = n.keys[i + 1]
    <3>1. i + 1 # 0 /\ i + 1 # w + 1
      BY <1>1, <1>2, <2>1
    <3> QED
      BY <1>3, <3>1 DEF Cut
  <2> QED
    BY <2>1
<1>6. IsInner(q, Keys, PageIds) /\ IsAltered(q.keys, n.keys, i, m2) /\ q.child_ids = n.child_ids
  <2> HIDE DEF n
  <2>1. LET a == WithKey(n, i, m2) IN
        IsInner(a, Keys, PageIds) /\ IsAltered(a.keys, n.keys, i, m2) /\ a.child_ids = n.child_ids
    BY <1>1, <1>2, <1>4, <1>5, WithKeyIs
  <2> QED
    BY <2>1 DEF n
<1>7. q.inner = TRUE
  BY DEF WithKey, InnerNode
<1> QED
  BY <1>6, <1>7 DEF ShapeOK

(* They are sound with the spans redrawn. *)
Redrawn(lo, hi, lo3, hi3, l, r, m2) == lo3 = [lo EXCEPT ![r] = m2] /\ hi3 = [hi EXCEPT ![l] = m2]
(* The tree after an entry went to a sibling: joined, and divided at       *)
(* another key.                                                            *)
LEMMA BorrowTree ==
  ASSUME NEW big, NEW root, NEW lo, NEW hi, NEW h, NEW odd, NEW k \in Int,
         Tree(big, root, lo, hi, h, odd, k),
         NEW p, NEW i, NEW l, NEW r, NEW m, SiblingsAt(big, p, i, l, r, m), odd # l,
         NEW m2 \in Keys, lo[l] < m2, m2 < hi[r],
         NEW pg2, Borrowed(big, pg2, p, i, l, r, m, m2),
         NEW lo3, NEW hi3, Redrawn(lo, hi, lo3, hi3, l, r, m2)
  PROVE  Tree(pg2, root, lo3, hi3, h, odd, k) /\ SameHeld(big, pg2)
<1> DEFINE mid == [x \in DOMAIN big \ {r} |->
                     IF x = l THEN Joined(big[l], big[r], m)
                     ELSE IF x = p THEN InnerDelete(big[p], m) ELSE big[x]]
           hi2 == [hi EXCEPT ![l] = hi[r]]
           odd2 == Heir(odd, r, l)
<1>1. Skeleton(big, lo, hi, h) /\ Leaves(big, lo, hi, h, odd, k) /\ Labels(lo, hi, h) /\ DOMAIN big \subseteq PageIds
  BY DEF Tree, Skeleton
<1>2. /\ p \in DOMAIN big /\ big[p].inner /\ i \in 1 .. Len(big[p].keys)
      /\ l = ChildAt(big, p, i) /\ r = ChildAt(big, p, i + 1) /\ m = big[p].keys[i]
  BY DEF SiblingsAt
<1>3. /\ l \in DOMAIN big /\ r \in DOMAIN big /\ l # r /\ l # p /\ r # p /\ h[l] = h[r]
      /\ l \in PageIds /\ r \in PageIds /\ p \in PageIds
  BY <1>1, <1>2, Siblings_
<1>4. Merged(big, mid, p, i, l, r, m) /\ DOMAIN mid = DOMAIN big \ {r}
  BY <1>2, <1>3 DEF Merged
<1>5. mid[l] = Joined(big[l], big[r], m)
  BY <1>3
<1> HIDE DEF mid, hi2
<1>6. /\ Divides(mid, big, p, i, l, r, m) /\ DividesLabels(DOMAIN mid, lo, hi2, h, lo, hi, h, l, r, m)
      /\ Tree(mid, root, lo, hi2, h, odd2, k)
  <2>1. /\ EndsJoined(hi, hi2, l, r) /\ k \in Int /\ Tree(big, root, lo, hi, h, odd, k)
        /\ SiblingsAt(big, p, i, l, r, m) /\ odd # l /\ Merged(big, mid, p, i, l, r, m)
    BY <1>4 DEF hi2, EndsJoined
  <2> QED
    BY ONLY <2>1, MergeTree
<1>7. /\ ShapeOK(pg2[p]) /\ pg2[p].inner /\ IsAltered(pg2[p].keys, big[p].keys, i, m2)
      /\ pg2[p].child_ids = big[p].child_ids
  <2>1. pg2[p] = WithKey(big[p], i, m2)
    BY DEF Borrowed
  <2> QED
    BY <1>1, <2>1, SeparatorAltered
<1>8. DOMAIN pg2 = DOMAIN big /\ \A x \in DOMAIN big : x # l /\ x # r /\ x # p => pg2[x] = big[x]
  BY DEF Borrowed
<1>9. Shapes(pg2)
  <2>1. SUFFICES ASSUME NEW x \in DOMAIN big PROVE ShapeOK(pg2[x])
    BY <1>8 DEF Shapes
  <2>2. CASE x = l \/ x = r
    BY <2>2 DEF Borrowed
  <2>3. CASE x = p
    BY <1>7, <2>3
  <2>4. CASE x # l /\ x # r /\ x # p
    BY <1>1, <1>8, <2>4 DEF Skeleton, Shapes
  <2> QED
    BY <2>2, <2>3, <2>4
<1>10. KeysWith(pg2[p], mid[p], i, m2)
  <2>1. Len(mid[p].keys) \in Nat /\ i \in 1 .. Len(mid[p].keys) + 1 /\ IsWith(big[p].keys, mid[p].keys, i, m)
    <3>1. DOMAIN mid \subseteq PageIds
      BY <1>1, <1>4
    <3>2. Len(mid[p].keys) \in Nat
      BY <1>6, <3>1, DividesFacts
    <3> QED
      BY <1>6, <3>2 DEF Divides, KeysWith
  <2>2. IsWith(pg2[p].keys, mid[p].keys, i, m2)
    BY <1>7, <2>1, AlteredIsWith
  <2> QED
    BY <2>2 DEF KeysWith
<1>11. Divides(mid, pg2, p, i, l, r, m2)
  <2>1. /\ p \in DOMAIN mid /\ l \in DOMAIN mid /\ l # p
        /\ r \in PageIds \ DOMAIN mid /\ DOMAIN pg2 = DOMAIN mid \cup {r}
        /\ Shapes(mid) /\ mid[p].inner
        /\ i \in 1 .. Len(mid[p].keys) + 1 /\ ChildAt(mid, p, i) = l
        /\ IsWith(big[p].child_ids, mid[p].child_ids, i + 1, r)
        /\ \A x \in DOMAIN mid : x # l /\ x # p => big[x] = mid[x]
    BY <1>6, <1>8 DEF Divides
  <2>2. IsWith(pg2[p].child_ids, mid[p].child_ids, i + 1, r)
    BY <1>7, <2>1
  <2>3. InnerJoin(mid[l], pg2[l], m2, pg2[r]) \/ LeafJoin(mid[l], pg2[l], m2, pg2[r])
    BY <1>5 DEF Borrowed
  <2>4. ~pg2[l].inner => pg2[l].next_lef_id = r
    BY DEF Borrowed
  <2>5. \A x \in DOMAIN mid : x # l /\ x # p => pg2[x] = mid[x]
    BY <1>4, <1>8, <2>1
  <2> QED
    BY <1>7, <1>9, <1>10, <2>1, <2>2, <2>3, <2>4, <2>5 DEF Divides
<1>12. DividesLabels(DOMAIN mid, lo, hi2, h, lo3, hi3, h, l, r, m2)
  <2>1. m2 \in Int /\ hi \in [PageIds -> Int] /\ lo \in [PageIds -> Int] /\ h \in [PageIds -> Nat]
    BY <1>1, KeysAreInts DEF Labels
  <2>2. Labels(lo, hi2, h) /\ Labels(lo3, hi3, h)
    BY <1>3, <2>1 DEF Labels, hi2, Redrawn
  <2>3. /\ lo3[r] = m2 /\ \A x \in PageIds : x # r => lo3[x] = lo[x]
        /\ hi3[l] = m2 /\ \A x \in PageIds : x # l => hi3[x] = hi[x]
        /\ hi2[l] = hi[r] /\ \A x \in PageIds : x # l => hi2[x] = hi[x]
    BY <1>3, <2>1 DEF hi2, Redrawn
  <2>4. \A x \in DOMAIN mid : x \in PageIds /\ x # r
    BY <1>1, <1>4
  <2>5. \A x \in DOMAIN mid : x # l => Same(lo, hi2, h, lo3, hi3, h, x)
    BY <2>3, <2>4 DEF Same
  <2>6. lo3[l] = lo[l] /\ hi3[r] = hi2[l] /\ h[r] = h[l]
    BY <1>3, <2>3
  <2> QED
    BY <2>2, <2>3, <2>5, <2>6 DEF DividesLabels
<1>13. ~mid[l].inner => Len(pg2[r].keys) > IF odd2 = l THEN 1 ELSE 0
  <2>1. ASSUME ~mid[l].inner PROVE ~pg2[l].inner
    BY <1>5, <2>1 DEF Borrowed, InnerJoin, LeafJoin
  <2>2. Len(pg2[r].keys) \in Nat
    <3>1. ShapeOK(pg2[r])
      BY DEF Borrowed
    <3> QED
      BY <3>1, InnerFacts, LeafFacts DEF ShapeOK
  <2> QED
    BY <2>1, <2>2 DEF Borrowed
<1>14. Tree(pg2, root, lo3, hi3, h, Heir(odd2, l, r), k)
  BY <1>6, <1>11, <1>12, <1>13, CutTree
<1>15. Heir(odd2, l, r) = odd
  BY <1>3 DEF Heir
<1>16. SameHeld(big, pg2)
  <2>1. DOMAIN mid \subseteq PageIds
    BY <1>1, <1>4
  <2>2. SameHeld(mid, big) /\ SameHeld(mid, pg2)
    BY <1>6, <1>11, <2>1, DivisionKeepsHeld
  <2> QED
    BY <2>2 DEF SameHeld
<1> QED
  BY <1>14, <1>15, <1>16

(* Two siblings, and what is known of their keys. *)
LEMMA SiblingFacts ==
  ASSUME NEW pg, NEW lo, NEW hi, NEW h, Skeleton(pg, lo, hi, h),
         NEW odd, NEW k, Leaves(pg, lo, hi, h, odd, k),
         NEW p, NEW i, NEW l, NEW r, NEW m, SiblingsAt(pg, p, i, l, r, m), odd # l
  PROVE  /\ l \in DOMAIN pg /\ r \in DOMAIN pg /\ l # r /\ l # p /\ r # p
         /\ ShapeOK(pg[l]) /\ ShapeOK(pg[r]) /\ pg[l].inner \in BOOLEAN /\ pg[l].inner = pg[r].inner
         /\ m \in Int /\ m \in Keys /\ m < Top /\ hi[l] = m /\ lo[r] = m /\ lo[l] < m /\ m < hi[r]
         /\ \A j \in 1 .. Len(pg[r].keys) : m < pg[r].keys[j]
         /\ pg[l].inner =>
              /\ IsInner(pg[l], Keys, PageIds) /\ IsInner(pg[r], Keys, PageIds)
              /\ \A j \in 1 .. Len(pg[l].keys) : pg[l].keys[j] < m
              /\ InnerJoin(Joined(pg[l], pg[r], m), pg[l], m, pg[r])
         /\ ~pg[l].inner =>
              /\ IsOuter(pg[l], Keys, Values, PageIds) /\ IsOuter(pg[r], Keys, Values, PageIds)
              /\ pg[l].next_lef_id = r
              /\ Len(pg[l].keys) > 0 /\ m = pg[l].keys[Len(pg[l].keys)]
              /\ LeafJoin(Joined(pg[l], pg[r], m), pg[l], m, pg[r])
<1> DEFINE a == pg[l]
           b == pg[r]
<1>1. /\ p \in DOMAIN pg /\ pg[p].inner /\ i \in 1 .. Len(pg[p].keys)
      /\ l = ChildAt(pg, p, i) /\ r = ChildAt(pg, p, i + 1) /\ m = pg[p].keys[i]
  BY DEF SiblingsAt
<1>2. /\ l \in DOMAIN pg /\ r \in DOMAIN pg /\ l # r /\ l # p /\ r # p
      /\ m \in Int /\ m \in Keys /\ m < Top /\ hi[l] = m /\ lo[r] = m /\ lo[l] < m /\ m < hi[r]
      /\ a.inner \in BOOLEAN /\ a.inner = b.inner
      /\ ~a.inner => a.next_lef_id = r
  BY <1>1, Siblings_
<1>3. ShapeOK(a) /\ ShapeOK(b)
  BY <1>2 DEF Skeleton, Shapes
<1>4. \A j \in 1 .. Len(b.keys) : m < b.keys[j]
  BY <1>2, KeysInside
<1>5. ASSUME a.inner
      PROVE  /\ IsInner(a, Keys, PageIds) /\ IsInner(b, Keys, PageIds)
             /\ \A j \in 1 .. Len(a.keys) : a.keys[j] < m
             /\ InnerJoin(Joined(a, b, m), a, m, b)
  <2>1. IsInner(a, Keys, PageIds) /\ IsInner(b, Keys, PageIds) /\ m \in Keys
    BY <1>2, <1>3, <1>5 DEF ShapeOK
  <2>2. \A j \in 1 .. Len(a.keys) : a.keys[j] < m
    BY <1>2, <1>5, KeysInside
  <2>3. \A j \in 1 .. Len(b.keys) : m < b.keys[j]
    BY <1>4
  <2> HIDE DEF a, b
  <2> QED
    BY ONLY <2>1, <2>2, <2>3, JoinOfInner
<1>6. ASSUME ~a.inner
      PROVE  /\ IsOuter(a, Keys, Values, PageIds) /\ IsOuter(b, Keys, Values, PageIds)
             /\ Len(a.keys) > 0 /\ m = a.keys[Len(a.keys)]
             /\ LeafJoin(Joined(a, b, m), a, m, b)
  <2>1. IsOuter(a, Keys, Values, PageIds) /\ IsOuter(b, Keys, Values, PageIds)
    BY <1>2, <1>3, <1>6 DEF ShapeOK
  <2>2. Len(a.keys) > 0 /\ m = a.keys[Len(a.keys)]
    BY <1>2, <1>6, LeftLeafEnds
  <2>3. \A j \in 1 .. Len(b.keys) : m < b.keys[j]
    BY <1>4
  <2> HIDE DEF a, b
  <2> QED
    BY ONLY <2>1, <2>2, <2>3, JoinOfLeaves
<1> HIDE DEF a, b
<1>7. /\ a.inner => /\ IsInner(a, Keys, PageIds) /\ IsInner(b, Keys, PageIds)
                    /\ \A j \in 1 .. Len(a.keys) : a.keys[j] < m
                    /\ InnerJoin(Joined(a, b, m), a, m, b)
      /\ ~a.inner => /\ IsOuter(a, Keys, Values, PageIds) /\ IsOuter(b, Keys, Values, PageIds)
                     /\ Len(a.keys) > 0 /\ m = a.keys[Len(a.keys)]
                     /\ LeafJoin(Joined(a, b, m), a, m, b)
  BY <1>5, <1>6
<1> QED
  BY <1>2, <1>3, <1>4, <1>7 DEF a, b

(* BorrowLeft and BorrowRight. *)
FromLeft(big, pg2, p, i, l, r, m, m2) ==
  /\ DOMAIN pg2 = DOMAIN big /\ pg2[p] = WithKey(big[p], i, m2)
  /\ \A x \in DOMAIN big : x # l /\ x # r /\ x # p => pg2[x] = big[x]
  /\ IF big[l].inner
     THEN /\ pg2[l] = InnerDelete(big[l], Last(big[l].keys))
          /\ pg2[r] = InsertFirst(big[r], m, Last(big[l].child_ids)) /\ m2 = Last(big[l].keys)
     ELSE /\ pg2[l] = OuterDelete(big[l], Last(big[l].keys))
          /\ pg2[r] = OuterInsert(big[r], Last(big[l].keys), Last(big[l].values)) /\ m2 = Last(pg2[l].keys)
FromRight(big, pg2, p, i, l, r, m, m2) ==
  /\ DOMAIN pg2 = DOMAIN big /\ pg2[p] = WithKey(big[p], i, m2)
  /\ \A x \in DOMAIN big : x # l /\ x # r /\ x # p => pg2[x] = big[x]
  /\ m2 = Head(big[r].keys)
  /\ IF big[l].inner
     THEN pg2[l] = InnerInsert(big[l], m, Head(big[r].child_ids)) /\ pg2[r] = DeleteFirstPair(big[r])
     ELSE /\ pg2[l] = OuterInsert(big[l], Head(big[r].keys), Head(big[r].values))
          /\ pg2[r] = OuterDelete(big[r], Head(big[r].keys))
(* The entries of the two afterwards. *)
Kinds(big, pg2, l, r) == pg2[l].inner = big[l].inner /\ pg2[r].inner = big[r].inner

(* BorrowLeft is such a change. *)
LEMMA FromLeftBorrows ==
  ASSUME NEW big, NEW lo, NEW hi, NEW h, Skeleton(big, lo, hi, h),
         NEW odd, NEW k, Leaves(big, lo, hi, h, odd, k),
         NEW p, NEW i, NEW l, NEW r, NEW m, SiblingsAt(big, p, i, l, r, m), odd # l,
         Len(big[l].keys) > 1, Len(big[r].keys) > 0,
         NEW pg2, NEW m2, FromLeft(big, pg2, p, i, l, r, m, m2)
  PROVE  /\ Borrowed(big, pg2, p, i, l, r, m, m2) /\ m2 \in Keys /\ lo[l] < m2 /\ m2 < hi[r]
         /\ Len(pg2[l].keys) = Len(big[l].keys) - 1 /\ Len(pg2[r].keys) = Len(big[r].keys) + 1
         /\ Kinds(big, pg2, l, r)
<1> DEFINE a == big[l]
           b == big[r]
           a2 == pg2[l]
           b2 == pg2[r]
           n == Joined(a, b, m)
<1>1. /\ l \in DOMAIN big /\ r \in DOMAIN big
      /\ a.inner \in BOOLEAN /\ a.inner = b.inner /\ b.inner \in BOOLEAN
      /\ m \in Int /\ m \in Keys /\ hi[l] = m /\ m < hi[r] /\ lo[l] \in Int /\ hi[r] \in Int
      /\ \A j \in 1 .. Len(b.keys) : m < b.keys[j]
  <2>1. /\ l \in DOMAIN big /\ r \in DOMAIN big /\ a.inner \in BOOLEAN /\ a.inner = b.inner
        /\ m \in Int /\ m \in Keys /\ hi[l] = m /\ m < hi[r]
        /\ \A j \in 1 .. Len(b.keys) : m < b.keys[j]
    BY SiblingFacts
  <2>2. lo[l] \in Int /\ hi[r] \in Int
    BY <2>1 DEF Skeleton, Labels
  <2> QED
    BY <2>1, <2>2
<1>2. ASSUME a.inner
      PROVE  /\ ShapeOK(a2) /\ ShapeOK(b2) /\ InnerJoin(n, a2, m2, b2) /\ m2 \in Keys /\ lo[l] < m2 /\ m2 < hi[r]
             /\ Len(a2.keys) = Len(a.keys) - 1 /\ Len(b2.keys) = Len(b.keys) + 1 /\ a2.inner /\ b2.inner
  <2>1. /\ IsInner(a, Keys, PageIds) /\ IsInner(b, Keys, PageIds) /\ m \in Keys
        /\ InnerJoin(n, a, m, b) /\ Len(a.keys) > 0 /\ \A j \in 1 .. Len(b.keys) : m < b.keys[j]
    BY <1>1, <1>2, SiblingFacts
  <2>2. a2 = InnerDelete(a, Last(a.keys)) /\ b2 = InsertFirst(b, m, Last(a.child_ids)) /\ m2 = Last(a.keys)
    BY <1>2 DEF FromLeft
  <2>3. m2 \in Keys /\ lo[l] < m2 /\ m2 < hi[r]
    <3>1. Len(a.keys) \in Nat /\ Len(a.keys) \in 1 .. Len(a.keys) /\ m2 = a.keys[Len(a.keys)]
      BY <2>1, <2>2, InnerFacts DEF Last
    <3>2. m2 \in Int /\ lo[l] < m2 /\ m2 < hi[l]
      BY <1>1, <1>2, <3>1, KeysInside
    <3>3. m2 \in Keys
      BY <2>1, <3>1, InnerFacts
    <3> QED
      BY <1>1, <3>2, <3>3
  <2> HIDE DEF a, b, n, a2, b2
  <2>4. /\ ShapeOK(a2) /\ ShapeOK(b2) /\ InnerJoin(n, a2, m2, b2)
        /\ a2.inner /\ Len(a2.keys) = Len(a.keys) - 1 /\ Len(b2.keys) = Len(b.keys) + 1
    BY ONLY <2>1, <2>2, InnerFromLeft
  <2>5. b2.inner
    BY <2>4 DEF InnerJoin
  <2> QED
    BY <2>3, <2>4, <2>5
<1>3. ASSUME ~a.inner
      PROVE  /\ ShapeOK(a2) /\ ShapeOK(b2) /\ LeafJoin(n, a2, m2, b2) /\ m2 \in Keys /\ lo[l] < m2 /\ m2 < hi[r]
             /\ Len(a2.keys) = Len(a.keys) - 1 /\ Len(b2.keys) = Len(b.keys) + 1 /\ ~a2.inner /\ ~b2.inner
             /\ a2.next_lef_id = r /\ Len(b2.keys) > 1
  <2>1. /\ IsOuter(a, Keys, Values, PageIds) /\ a.inner \in BOOLEAN /\ IsOuter(b, Keys, Values, PageIds)
        /\ LeafJoin(n, a, m, b) /\ Len(a.keys) > 1 /\ \A j \in 1 .. Len(b.keys) : m < b.keys[j]
        /\ m = a.keys[Len(a.keys)] /\ a.next_lef_id = r
    BY <1>1, <1>3, SiblingFacts
  <2>2. /\ a2 = OuterDelete(a, Last(a.keys)) /\ b2 = OuterInsert(b, Last(a.keys), Last(a.values))
        /\ m2 = Last(a2.keys)
    BY <1>3 DEF FromLeft
  <2>3. Len(a.keys) \in Nat /\ Len(b.keys) \in Nat /\ Len(b.keys) > 0
    BY <2>1, LeafFacts
  <2>4. ASSUME m2 = a.keys[Len(a.keys) - 1]
        PROVE  m2 \in Keys /\ lo[l] < m2 /\ m2 < hi[r]
    <3> DEFINE u == Len(a.keys) - 1
               w == Len(a.keys)
    <3>1. u \in 1 .. Len(a.keys) /\ w \in 1 .. Len(a.keys) /\ u < w
      <4>1. w \in Nat /\ w > 1 /\ u = w - 1
        BY <2>1, <2>3
      <4> HIDE DEF u, w
      <4>2. u \in 1 .. w /\ w \in 1 .. w /\ u < w
        BY ONLY <4>1
      <4> QED
        BY ONLY <4>2 DEF w
    <3> HIDE DEF u, w
    <3>2. a.keys[u] \in Int /\ a.keys[u] \in Keys /\ a.keys[u] < a.keys[w]
      BY <2>1, <3>1, LeafFacts DEF Ascending
    <3>3. lo[l] < a.keys[u]
      BY <1>1, <3>1, KeysInside
    <3> QED
      BY <1>1, <2>1, <2>4, <3>2, <3>3 DEF u, w
  <2> HIDE DEF a, b, n, a2, b2
  <2>5. /\ ShapeOK(a2) /\ ShapeOK(b2) /\ LeafJoin(n, a2, m2, b2) /\ m2 = a.keys[Len(a.keys) - 1]
        /\ ~a2.inner /\ Len(a2.keys) = Len(a.keys) - 1 /\ Len(b2.keys) = Len(b.keys) + 1
        /\ a2.next_lef_id = a.next_lef_id
    BY ONLY <2>1, <2>2, LeafFromLeft
  <2>6. ~b2.inner
    BY <2>5 DEF LeafJoin
  <2> QED
    BY <2>1, <2>3, <2>4, <2>5, <2>6
<1> HIDE DEF a, b, a2, b2, n
<1>4. Borrowed(big, pg2, p, i, l, r, m, m2)
  <2>1. /\ DOMAIN pg2 = DOMAIN big /\ pg2[p] = WithKey(big[p], i, m2)
        /\ \A x \in DOMAIN big : x # l /\ x # r /\ x # p => pg2[x] = big[x]
    BY DEF FromLeft
  <2>2. /\ ShapeOK(a2) /\ ShapeOK(b2) /\ (InnerJoin(n, a2, m2, b2) \/ LeafJoin(n, a2, m2, b2))
        /\ ~a2.inner => a2.next_lef_id = r /\ Len(b2.keys) > 1
    BY <1>1, <1>2, <1>3
  <2> QED
    BY <2>1, <2>2 DEF Borrowed, a, b, a2, b2, n
<1>5. /\ m2 \in Keys /\ lo[l] < m2 /\ m2 < hi[r]
      /\ Len(a2.keys) = Len(a.keys) - 1 /\ Len(b2.keys) = Len(b.keys) + 1
  BY <1>1, <1>2, <1>3
<1>6. a2.inner = a.inner /\ b2.inner = b.inner
  <2>1. a2.inner \in BOOLEAN /\ b2.inner \in BOOLEAN
    BY <1>1, <1>2, <1>3 DEF ShapeOK
  <2> QED
    BY <1>1, <1>2, <1>3, <2>1
<1> QED
  BY <1>4, <1>5, <1>6 DEF a, b, a2, b2, Kinds

(* BorrowRight is one, if the right leaf is not the odd one. *)
LEMMA FromRightBorrows ==
  ASSUME NEW big, NEW lo, NEW hi, NEW h, Skeleton(big, lo, hi, h),
         NEW odd, NEW k, Leaves(big, lo, hi, h, odd, k),
         NEW p, NEW i, NEW l, NEW r, NEW m, SiblingsAt(big, p, i, l, r, m), odd # l, odd # r,
         Len(big[r].keys) > IF big[r].inner THEN 0 ELSE 2,
         NEW pg2, NEW m2, FromRight(big, pg2, p, i, l, r, m, m2)
  PROVE  /\ Borrowed(big, pg2, p, i, l, r, m, m2) /\ m2 \in Keys /\ lo[l] < m2 /\ m2 < hi[r]
         /\ Len(pg2[l].keys) = Len(big[l].keys) + 1 /\ Len(pg2[r].keys) = Len(big[r].keys) - 1
         /\ Kinds(big, pg2, l, r)
<1> DEFINE a == big[l]
           b == big[r]
           a2 == pg2[l]
           b2 == pg2[r]
           n == Joined(a, b, m)
<1>1. /\ l \in DOMAIN big /\ r \in DOMAIN big
      /\ a.inner \in BOOLEAN /\ a.inner = b.inner /\ b.inner \in BOOLEAN
      /\ m \in Int /\ m \in Keys /\ lo[r] = m /\ lo[l] < m /\ lo[l] \in Int /\ hi[r] \in Int
      /\ \A j \in 1 .. Len(b.keys) : m < b.keys[j]
  <2>1. /\ l \in DOMAIN big /\ r \in DOMAIN big
        /\ big[l].inner \in BOOLEAN /\ big[l].inner = big[r].inner
        /\ m \in Int /\ m \in Keys /\ lo[r] = m /\ lo[l] < m
        /\ \A j \in 1 .. Len(big[r].keys) : m < big[r].keys[j]
    BY SiblingFacts
  <2>2. lo[l] \in Int /\ hi[r] \in Int
    BY <2>1 DEF Skeleton, Labels
  <2> QED
    BY <2>1, <2>2
<1>2. ASSUME a.inner
      PROVE  /\ ShapeOK(a2) /\ ShapeOK(b2) /\ InnerJoin(n, a2, m2, b2) /\ m2 \in Keys /\ lo[l] < m2 /\ m2 < hi[r]
             /\ Len(a2.keys) = Len(a.keys) + 1 /\ Len(b2.keys) = Len(b.keys) - 1 /\ a2.inner /\ b2.inner
  <2>1. /\ IsInner(a, Keys, PageIds) /\ IsInner(b, Keys, PageIds) /\ m \in Keys
        /\ InnerJoin(n, a, m, b) /\ Len(b.keys) > 0 /\ \A j \in 1 .. Len(a.keys) : a.keys[j] < m
    BY <1>1, <1>2, SiblingFacts
  <2>2. a2 = InnerInsert(a, m, Head(b.child_ids)) /\ b2 = DeleteFirstPair(b) /\ m2 = Head(b.keys)
    BY <1>2 DEF FromRight
  <2>3. m2 \in Keys /\ lo[l] < m2 /\ m2 < hi[r]
    <3>1. b.keys \in Seq(Int) /\ Len(b.keys) \in Nat /\ 1 \in 1 .. Len(b.keys) /\ m2 = b.keys[1]
      BY <2>1, <2>2, InnerFacts
    <3>2. m2 \in Int /\ lo[r] < m2 /\ m2 < hi[r]
      BY <1>1, <1>2, <3>1, KeysInside
    <3>3. m2 \in Keys
      BY <2>1, <3>1, InnerFacts
    <3> QED
      BY <1>1, <3>2, <3>3
  <2> HIDE DEF a, b, n, a2, b2
  <2>4. /\ ShapeOK(a2) /\ ShapeOK(b2) /\ InnerJoin(n, a2, m2, b2)
        /\ a2.inner /\ Len(a2.keys) = Len(a.keys) + 1 /\ Len(b2.keys) = Len(b.keys) - 1
    BY ONLY <2>1, <2>2, InnerFromRight
  <2>5. b2.inner
    BY <2>4 DEF InnerJoin
  <2> QED
    BY <2>3, <2>4, <2>5
<1>3. ASSUME ~a.inner
      PROVE  /\ ShapeOK(a2) /\ ShapeOK(b2) /\ LeafJoin(n, a2, m2, b2) /\ m2 \in Keys /\ lo[l] < m2 /\ m2 < hi[r]
             /\ Len(a2.keys) = Len(a.keys) + 1 /\ Len(b2.keys) = Len(b.keys) - 1 /\ ~a2.inner /\ ~b2.inner
             /\ a2.next_lef_id = r /\ Len(b2.keys) > 1
  <2>1. /\ IsOuter(a, Keys, Values, PageIds) /\ b.inner \in BOOLEAN /\ IsOuter(b, Keys, Values, PageIds)
        /\ LeafJoin(n, a, m, b) /\ Len(b.keys) > 2 /\ \A j \in 1 .. Len(b.keys) : m < b.keys[j]
        /\ a.next_lef_id = r
    BY <1>1, <1>3, SiblingFacts
  <2>2. /\ a2 = OuterInsert(a, Head(b.keys), Head(b.values)) /\ b2 = OuterDelete(b, Head(b.keys))
        /\ m2 = Head(b.keys)
    BY <1>3 DEF FromRight
  <2>3. Len(a.keys) \in Nat /\ Len(b.keys) \in Nat /\ b.keys \in Seq(Int) /\ Len(b.keys) > 0
    BY <2>1, LeafFacts
  <2>4. m2 \in Keys /\ lo[l] < m2 /\ m2 < hi[r]
    <3>1. 1 \in 1 .. Len(b.keys) /\ 2 \in 1 .. Len(b.keys) /\ 1 < 2 /\ m2 = b.keys[1]
      BY <2>1, <2>2, <2>3
    <3>2. b.keys[1] \in Int /\ b.keys[1] \in Keys /\ b.keys[2] \in Int /\ b.keys[1] < b.keys[2]
      BY <2>1, <3>1, LeafFacts DEF Ascending
    <3>3. lo[r] < b.keys[1] /\ b.keys[2] <= hi[r]
      BY <1>1, <1>3, <3>1, KeysInside
    <3> QED
      BY <1>1, <3>1, <3>2, <3>3
  <2> HIDE DEF a, b, n, a2, b2
  <2>5. /\ ShapeOK(a2) /\ ShapeOK(b2) /\ LeafJoin(n, a2, m2, b2)
        /\ ~a2.inner /\ Len(a2.keys) = Len(a.keys) + 1 /\ Len(b2.keys) = Len(b.keys) - 1
        /\ a2.next_lef_id = a.next_lef_id
    BY ONLY <2>1, <2>2, <2>3, LeafFromRight
  <2>6. ~b2.inner
    BY <2>5 DEF LeafJoin
  <2> QED
    BY <2>1, <2>3, <2>4, <2>5, <2>6
<1> HIDE DEF a, b, a2, b2, n
<1>4. Borrowed(big, pg2, p, i, l, r, m, m2)
  <2>1. /\ DOMAIN pg2 = DOMAIN big /\ pg2[p] = WithKey(big[p], i, m2)
        /\ \A x \in DOMAIN big : x # l /\ x # r /\ x # p => pg2[x] = big[x]
    BY DEF FromRight
  <2>2. /\ ShapeOK(a2) /\ ShapeOK(b2) /\ (InnerJoin(n, a2, m2, b2) \/ LeafJoin(n, a2, m2, b2))
        /\ ~a2.inner => a2.next_lef_id = r /\ Len(b2.keys) > 1
    BY <1>1, <1>2, <1>3
  <2> QED
    BY <2>1, <2>2 DEF Borrowed, a, b, a2, b2, n
<1>5. /\ m2 \in Keys /\ lo[l] < m2 /\ m2 < hi[r]
      /\ Len(a2.keys) = Len(a.keys) + 1 /\ Len(b2.keys) = Len(b.keys) - 1
  BY <1>1, <1>2, <1>3
<1>6. a2.inner = a.inner /\ b2.inner = b.inner
  <2>1. a2.inner \in BOOLEAN /\ b2.inner \in BOOLEAN
    BY <1>1, <1>2, <1>3 DEF ShapeOK
  <2> QED
    BY <1>1, <1>2, <1>3, <2>1
<1> QED
  BY <1>4, <1>5, <1>6 DEF a, b, a2, b2, Kinds

-----------------------------------------------------------------------------
(* A node is cut in two at one of its keys. *)
SplitAt(n, l, r, at, new) ==
  IF n.inner
  THEN /\ l = InnerNode(SubSeq(n.keys, 1, at - 1), SubSeq(n.child_ids, 1, at))
       /\ r = InnerNode(SubSeq(n.keys, at + 1, Len(n.keys)),
                        SubSeq(n.child_ids, at + 1, Len(n.child_ids)))
  ELSE /\ l = OuterNode(SubSeq(n.keys, 1, at), SubSeq(n.values, 1, at), new)
       /\ r = OuterNode(SubSeq(n.keys, at + 1, Len(n.keys)),
                        SubSeq(n.values, at + 1, Len(n.keys)), n.next_lef_id)

(* A piece of ascending keys ascends. *)
LEMMA PieceAscends ==
  ASSUME NEW s \in Seq(Int), Ascending(s), NEW t, NEW c \in Nat, Len(t) \in Nat, c + Len(t) <= Len(s),
         \A j \in 1 .. Len(t) : t[j] = s[c + j]
  PROVE  Ascending(t)
<1> SUFFICES ASSUME NEW i \in 1 .. Len(t), NEW j \in 1 .. Len(t), i < j PROVE t[i] < t[j]
  BY DEF Ascending
<1>1. c + i \in 1 .. Len(s) /\ c + j \in 1 .. Len(s) /\ c + i < c + j
  <2>1. i \in Int /\ 1 <= i /\ i <= Len(t) /\ j \in Int /\ 1 <= j /\ j <= Len(t) /\ i < j
    OBVIOUS
  <2>2. Len(s) \in Nat
    OBVIOUS
  <2> DEFINE n == Len(s)
             k == Len(t)
  <2>3. n \in Nat /\ k \in Nat /\ c + k <= n /\ i <= k /\ j <= k
    BY <2>1, <2>2
  <2> HIDE DEF n, k
  <2> QED
    BY ONLY <2>1, <2>3, c \in Nat DEF n
<1>2. s[c + i] < s[c + j]
  BY <1>1 DEF Ascending
<1> QED
  BY <1>2

(* The halves of an inner node and the key between them. *)
LEMMA InnerSplits ==
  ASSUME NEW n, IsInner(n, Keys, PageIds), NEW at \in 1 .. Len(n.keys),
         NEW l, NEW r, NEW new, SplitAt(n, l, r, at, new), NEW m, m = n.keys[at]
  PROVE  /\ ShapeOK(l) /\ ShapeOK(r) /\ InnerJoin(n, l, m, r) /\ l.inner /\ r.inner
         /\ Len(l.keys) = at - 1 /\ Len(r.keys) = Len(n.keys) - at
<1> DEFINE w == Len(n.keys)
<1>1. /\ n.inner /\ n.keys \in Seq(Keys) /\ n.child_ids \in Seq(PageIds) /\ w \in Nat /\ at \in 1 .. w
      /\ Len(n.child_ids) = w + 1 /\ n.keys \in Seq(Int) /\ Ascending(n.keys)
  BY InnerFacts DEF IsInner
<1>2. /\ l = InnerNode(SubSeq(n.keys, 1, at - 1), SubSeq(n.child_ids, 1, at))
      /\ r = InnerNode(SubSeq(n.keys, at + 1, w), SubSeq(n.child_ids, at + 1, w + 1))
  BY <1>1 DEF SplitAt
<1> HIDE DEF w
<1>3. /\ l.keys \in Seq(Keys) /\ Len(l.keys) = at - 1 /\ \A j \in 1 .. at - 1 : l.keys[j] = n.keys[j]
  <2>1. 1 \in 1 .. Len(n.keys) + 1 /\ at - 1 \in 1 - 1 .. Len(n.keys) /\ (at - 1) - 1 + 1 = at - 1
    BY <1>1 DEF w
  <2>2. l.keys = SubSeq(n.keys, 1, at - 1)
    BY <1>2 DEF InnerNode
  <2>3. /\ SubSeq(n.keys, 1, at - 1) \in Seq(Keys) /\ Len(SubSeq(n.keys, 1, at - 1)) = (at - 1) - 1 + 1
        /\ \A j \in 1 .. (at - 1) - 1 + 1 : SubSeq(n.keys, 1, at - 1)[j] = n.keys[1 + j - 1]
    BY <1>1, <2>1, SubSeqIsPointwise
  <2> QED
    BY <2>1, <2>2, <2>3
<1>4. /\ l.child_ids \in Seq(PageIds) /\ Len(l.child_ids) = at
      /\ \A j \in 1 .. at : l.child_ids[j] = n.child_ids[j]
  <2>1. 1 \in 1 .. Len(n.child_ids) + 1 /\ at \in 1 - 1 .. Len(n.child_ids) /\ at - 1 + 1 = at
    BY <1>1
  <2>2. l.child_ids = SubSeq(n.child_ids, 1, at)
    BY <1>2 DEF InnerNode
  <2>3. /\ SubSeq(n.child_ids, 1, at) \in Seq(PageIds) /\ Len(SubSeq(n.child_ids, 1, at)) = at - 1 + 1
        /\ \A j \in 1 .. at - 1 + 1 : SubSeq(n.child_ids, 1, at)[j] = n.child_ids[1 + j - 1]
    BY <1>1, <2>1, SubSeqIsPointwise
  <2> QED
    BY <2>1, <2>2, <2>3
<1>5. /\ r.keys \in Seq(Keys) /\ Len(r.keys) = w - at /\ \A j \in 1 .. w - at : r.keys[j] = n.keys[at + j]
  <2>1. at + 1 \in 1 .. Len(n.keys) + 1 /\ w \in (at + 1) - 1 .. Len(n.keys) /\ w - (at + 1) + 1 = w - at
    BY <1>1 DEF w
  <2>2. r.keys = SubSeq(n.keys, at + 1, w)
    BY <1>2 DEF InnerNode
  <2>3. /\ SubSeq(n.keys, at + 1, w) \in Seq(Keys) /\ Len(SubSeq(n.keys, at + 1, w)) = w - (at + 1) + 1
        /\ \A j \in 1 .. w - (at + 1) + 1 : SubSeq(n.keys, at + 1, w)[j] = n.keys[(at + 1) + j - 1]
    BY <1>1, <2>1, SubSeqIsPointwise
  <2> QED
    BY <1>1, <2>1, <2>2, <2>3
<1>6. /\ r.child_ids \in Seq(PageIds) /\ Len(r.child_ids) = (w - at) + 1
      /\ \A j \in 1 .. (w - at) + 1 : r.child_ids[j] = n.child_ids[at + j]
  <2>1. /\ at + 1 \in 1 .. Len(n.child_ids) + 1 /\ w + 1 \in (at + 1) - 1 .. Len(n.child_ids)
        /\ (w + 1) - (at + 1) + 1 = (w - at) + 1
    BY <1>1
  <2>2. r.child_ids = SubSeq(n.child_ids, at + 1, w + 1)
    BY <1>2 DEF InnerNode
  <2>3. /\ SubSeq(n.child_ids, at + 1, w + 1) \in Seq(PageIds)
        /\ Len(SubSeq(n.child_ids, at + 1, w + 1)) = (w + 1) - (at + 1) + 1
        /\ \A j \in 1 .. (w + 1) - (at + 1) + 1 :
             SubSeq(n.child_ids, at + 1, w + 1)[j] = n.child_ids[(at + 1) + j - 1]
    BY <1>1, <2>1, SubSeqIsPointwise
  <2> QED
    BY <1>1, <2>1, <2>2, <2>3
<1>7. l.inner = TRUE /\ r.inner = TRUE
  BY <1>2 DEF InnerNode
<1>8. Ascending(l.keys) /\ Ascending(r.keys)
  <2>1. 0 \in Nat /\ Len(l.keys) \in Nat /\ 0 + Len(l.keys) <= Len(n.keys)
        /\ \A j \in 1 .. Len(l.keys) : l.keys[j] = n.keys[0 + j]
    BY <1>1, <1>3 DEF w
  <2>2. at \in Nat /\ Len(r.keys) \in Nat /\ at + Len(r.keys) <= Len(n.keys)
        /\ \A j \in 1 .. Len(r.keys) : r.keys[j] = n.keys[at + j]
    BY <1>1, <1>5 DEF w
  <2>3. Ascending(l.keys)
    BY <1>1, <2>1, PieceAscends
  <2>4. Ascending(r.keys)
    BY <1>1, <2>2, PieceAscends
  <2> QED
    BY <2>3, <2>4
<1>9. ShapeOK(l) /\ ShapeOK(r)
  <2>1. Len(l.child_ids) = Len(l.keys) + 1 /\ Len(r.child_ids) = Len(r.keys) + 1
    BY <1>1, <1>3, <1>4, <1>5, <1>6
  <2> QED
    BY <1>3, <1>4, <1>5, <1>6, <1>7, <1>8, <2>1 DEF ShapeOK, IsInner
<1>10. InnerJoin(n, l, m, r)
  <2> DEFINE x == at - 1
             y == w - at
  <2>1. x + 1 = at /\ x + 1 + y = w /\ y + 1 = (w - at) + 1
    BY <1>1
  <2>2. Mid(n.keys, l.keys, x, m, r.keys, y)
    BY <1>3, <1>5, <2>1 DEF Mid
  <2>3. Cat(n.child_ids, l.child_ids, x + 1, r.child_ids, y + 1)
    BY <1>4, <1>6, <2>1 DEF Cat
  <2>4. Len(l.keys) = x /\ Len(r.keys) = y /\ Len(n.keys) = x + 1 + y
    BY <1>3, <1>5, <2>1 DEF w
  <2> HIDE DEF x, y
  <2> QED
    BY <1>1, <1>7, <2>2, <2>3, <2>4, InnerJoinIs
<1> QED
  BY <1>3, <1>5, <1>7, <1>9, <1>10 DEF w

(* The halves of a leaf. *)
LEMMA LeafSplits ==
  ASSUME NEW n, IsOuter(n, Keys, Values, PageIds), n.inner \in BOOLEAN, NEW at \in 1 .. Len(n.keys),
         NEW l, NEW r, NEW new \in PageIds, SplitAt(n, l, r, at, new), NEW m, m = n.keys[at]
  PROVE  /\ ShapeOK(l) /\ ShapeOK(r) /\ LeafJoin(n, l, m, r) /\ ~l.inner /\ ~r.inner
         /\ Len(l.keys) = at /\ Len(r.keys) = Len(n.keys) - at /\ l.next_lef_id = new
<1> DEFINE w == Len(n.keys)
<1>1. /\ ~n.inner /\ n.keys \in Seq(Keys) /\ n.values \in Seq(Values) /\ w \in Nat /\ at \in 1 .. w
      /\ Len(n.values) = w /\ n.keys \in Seq(Int) /\ Ascending(n.keys) /\ n.next_lef_id \in PageIds \cup {0}
  BY LeafFacts DEF IsOuter
<1>2. /\ l = OuterNode(SubSeq(n.keys, 1, at), SubSeq(n.values, 1, at), new)
      /\ r = OuterNode(SubSeq(n.keys, at + 1, w), SubSeq(n.values, at + 1, w), n.next_lef_id)
  BY <1>1 DEF SplitAt
<1> HIDE DEF w
<1>3. ASSUME NEW S, NEW s \in Seq(S), Len(s) = w
      PROVE  /\ SubSeq(s, 1, at) \in Seq(S) /\ Len(SubSeq(s, 1, at)) = at
             /\ \A j \in 1 .. at : SubSeq(s, 1, at)[j] = s[j]
             /\ SubSeq(s, at + 1, w) \in Seq(S) /\ Len(SubSeq(s, at + 1, w)) = w - at
             /\ \A j \in 1 .. w - at : SubSeq(s, at + 1, w)[j] = s[at + j]
  <2>1. 1 \in 1 .. Len(s) + 1 /\ at \in 1 - 1 .. Len(s) /\ at - 1 + 1 = at
    BY <1>1, <1>3
  <2>2. /\ SubSeq(s, 1, at) \in Seq(S) /\ Len(SubSeq(s, 1, at)) = at - 1 + 1
        /\ \A j \in 1 .. at - 1 + 1 : SubSeq(s, 1, at)[j] = s[1 + j - 1]
    BY <2>1, SubSeqIsPointwise
  <2>3. at + 1 \in 1 .. Len(s) + 1 /\ w \in (at + 1) - 1 .. Len(s) /\ w - (at + 1) + 1 = w - at
    BY <1>1, <1>3
  <2>4. /\ SubSeq(s, at + 1, w) \in Seq(S) /\ Len(SubSeq(s, at + 1, w)) = w - (at + 1) + 1
        /\ \A j \in 1 .. w - (at + 1) + 1 : SubSeq(s, at + 1, w)[j] = s[(at + 1) + j - 1]
    BY <2>3, SubSeqIsPointwise
  <2> QED
    BY <1>1, <2>1, <2>2, <2>3, <2>4
<1>4. /\ l.keys = SubSeq(n.keys, 1, at) /\ l.values = SubSeq(n.values, 1, at) /\ l.next_lef_id = new
      /\ r.keys = SubSeq(n.keys, at + 1, w) /\ r.values = SubSeq(n.values, at + 1, w)
      /\ r.next_lef_id = n.next_lef_id /\ l.inner = FALSE /\ r.inner = FALSE
  BY <1>2 DEF OuterNode
<1>5. /\ l.keys \in Seq(Keys) /\ Len(l.keys) = at /\ \A j \in 1 .. at : l.keys[j] = n.keys[j]
      /\ r.keys \in Seq(Keys) /\ Len(r.keys) = w - at /\ \A j \in 1 .. w - at : r.keys[j] = n.keys[at + j]
  <2>1. Len(n.keys) = w
    BY DEF w
  <2> QED
    BY <1>1, <1>3, <1>4, <2>1
<1>6. /\ l.values \in Seq(Values) /\ Len(l.values) = at /\ \A j \in 1 .. at : l.values[j] = n.values[j]
      /\ r.values \in Seq(Values) /\ Len(r.values) = w - at
      /\ \A j \in 1 .. w - at : r.values[j] = n.values[at + j]
  <2> DEFINE s == n.values
  <2>1. s \in Seq(Values) /\ Len(s) = w /\ l.values = SubSeq(s, 1, at) /\ r.values = SubSeq(s, at + 1, w)
    BY <1>1, <1>4
  <2> HIDE DEF s
  <2>2. /\ SubSeq(s, 1, at) \in Seq(Values) /\ Len(SubSeq(s, 1, at)) = at
        /\ \A j \in 1 .. at : SubSeq(s, 1, at)[j] = s[j]
        /\ SubSeq(s, at + 1, w) \in Seq(Values) /\ Len(SubSeq(s, at + 1, w)) = w - at
        /\ \A j \in 1 .. w - at : SubSeq(s, at + 1, w)[j] = s[at + j]
    BY <1>3, <2>1
  <2> QED
    BY ONLY <2>1, <2>2 DEF s
<1>8. Ascending(l.keys) /\ Ascending(r.keys)
  <2>1. 0 \in Nat /\ Len(l.keys) \in Nat /\ 0 + Len(l.keys) <= Len(n.keys)
        /\ \A j \in 1 .. Len(l.keys) : l.keys[j] = n.keys[0 + j]
    BY <1>1, <1>5 DEF w
  <2>2. at \in Nat /\ Len(r.keys) \in Nat /\ at + Len(r.keys) <= Len(n.keys)
        /\ \A j \in 1 .. Len(r.keys) : r.keys[j] = n.keys[at + j]
    BY <1>1, <1>5 DEF w
  <2>3. Ascending(l.keys)
    BY <1>1, <2>1, PieceAscends
  <2>4. Ascending(r.keys)
    BY <1>1, <2>2, PieceAscends
  <2> QED
    BY <2>3, <2>4
<1>9. ShapeOK(l) /\ ShapeOK(r)
  BY <1>1, <1>4, <1>5, <1>6, <1>8 DEF ShapeOK, IsOuter
<1>10. LeafJoin(n, l, m, r)
  <2> DEFINE y == w - at
  <2>1. Len(n.keys) = at + y /\ at > 0
    BY <1>1 DEF w
  <2>2. Cat(n.keys, l.keys, at, r.keys, y) /\ Cat(n.values, l.values, at, r.values, y)
    BY <1>5, <1>6 DEF Cat
  <2>3. at \in 1 .. at
    BY <1>1
  <2>4. Len(l.keys) = at /\ Len(r.keys) = y /\ m = l.keys[at]
    BY <1>5, <2>3
  <2> HIDE DEF y
  <2> QED
    BY <1>1, <1>4, <2>1, <2>2, <2>4, LeafJoinIs
<1> QED
  BY <1>4, <1>5, <1>9, <1>10 DEF w

(* Child l, at i below p, is to be split at its key m, page r is free.     *)
ToSplit(pg, p, i, l, r, at, m) ==
  /\ p \in DOMAIN pg /\ pg[p].inner /\ i \in 1 .. Len(pg[p].keys) + 1 /\ l = ChildAt(pg, p, i)
  /\ r \in PageIds /\ r \notin DOMAIN pg
  /\ at \in 1 .. Len(pg[l].keys) /\ m = pg[l].keys[at]
  /\ ~pg[l].inner => at < Len(pg[l].keys)
HasSplit(small, big, p, i, l, r, at, m) ==
  /\ DOMAIN big = DOMAIN small \cup {r}
  /\ ShapeOK(big[p]) /\ big[p].inner /\ KeysWith(big[p], small[p], i, m)
  /\ IsWith(big[p].child_ids, small[p].child_ids, i + 1, r)
  /\ SplitAt(small[l], big[l], big[r], at, r)
  /\ \A x \in DOMAIN small : x # l /\ x # p => big[x] = small[x]
Halved(lo, hi, h, lo2, hi2, h2, l, r, m) ==
  /\ lo2 = [lo EXCEPT ![r] = m] /\ hi2 = [hi EXCEPT ![l] = m, ![r] = hi[l]]
  /\ h2 = [h EXCEPT ![r] = h[l]]

(* The key a node is cut at is inside its span. *)
LEMMA SplitKeyInside ==
  ASSUME NEW pg, NEW lo, NEW hi, NEW h, Skeleton(pg, lo, hi, h), NEW k, Leaves(pg, lo, hi, h, 0, k),
         NEW p, NEW i, NEW l, NEW r, NEW at, NEW m, ToSplit(pg, p, i, l, r, at, m)
  PROVE  /\ l \in DOMAIN pg /\ h[p] = h[l] + 1 /\ l # p /\ ShapeOK(pg[l])
         /\ m \in Int /\ m \in Keys /\ lo[l] < m /\ m < hi[l]
         /\ lo[l] = Cut(pg[p], lo[p], hi[p], i - 1) /\ hi[l] = Cut(pg[p], lo[p], hi[p], i)
<1> DEFINE n == pg[l]
<1>1. /\ p \in DOMAIN pg /\ pg[p].inner /\ i \in 1 .. Len(pg[p].keys) + 1 /\ l = ChildAt(pg, p, i)
      /\ at \in 1 .. Len(n.keys) /\ m = n.keys[at] /\ (~n.inner => at < Len(n.keys))
  BY DEF ToSplit
<1>2. /\ l \in DOMAIN pg /\ h[p] = h[l] + 1
      /\ lo[l] = Cut(pg[p], lo[p], hi[p], i - 1) /\ hi[l] = Cut(pg[p], lo[p], hi[p], i)
  BY <1>1, ChildIsBelow
<1>3. h[l] \in Nat /\ lo[l] \in Int /\ hi[l] \in Int /\ DOMAIN pg \subseteq PageIds /\ 0 \notin DOMAIN pg
  BY <1>2 DEF Skeleton, Labels, PageIds
<1>4. ShapeOK(n)
  BY <1>2 DEF Skeleton, Shapes
<1>5. m \in Int /\ lo[l] < m /\ (n.inner => m < hi[l])
  BY <1>1, <1>2, KeysInside
<1>6. ASSUME ~n.inner PROVE m < hi[l]
  <2> DEFINE w == Len(n.keys)
  <2>1. IsOuter(n, Keys, Values, PageIds) /\ Len(n.keys) \in Nat
    BY <1>4, <1>6, LeafFacts DEF ShapeOK
  <2>2. w \in 1 .. Len(n.keys) /\ at \in 1 .. Len(n.keys) /\ at < w
    BY <1>1, <1>6, <2>1
  <2> HIDE DEF w
  <2>3. n.keys[at] \in Int /\ n.keys[w] \in Int /\ n.keys[at] < n.keys[w]
    BY <2>1, <2>2, LeafFacts DEF Ascending
  <2>4. l # 0
    BY <1>2, <1>3
  <2>5. n.keys[w] <= hi[l]
    BY <1>2, <1>6, <2>2, <2>4, KeysInside
  <2> QED
    BY <1>1, <1>3, <2>3, <2>5
<1>7. m \in Keys
  BY <1>1, <1>4, InnerFacts, LeafFacts DEF ShapeOK
<1> QED
  BY <1>2, <1>3, <1>4, <1>5, <1>6, <1>7

(* Where the separator goes in the parent. *)
LEMMA InsertsSeparator ==
  ASSUME NEW pg, NEW lo, NEW hi, NEW h, Skeleton(pg, lo, hi, h), NEW k, Leaves(pg, lo, hi, h, 0, k),
         NEW p, NEW i, NEW l, NEW r, NEW at, NEW m, ToSplit(pg, p, i, l, r, at, m),
         NEW q, q = InnerInsert(pg[p], m, r)
  PROVE  /\ ShapeOK(q) /\ q.inner /\ KeysWith(q, pg[p], i, m)
         /\ IsWith(q.child_ids, pg[p].child_ids, i + 1, r) /\ Position(pg[p], m) = i
<1> DEFINE n == pg[p]
           w == Len(n.keys)
<1>1. p \in DOMAIN pg /\ n.inner /\ i \in 1 .. w + 1 /\ l = ChildAt(pg, p, i) /\ r \in PageIds
  BY DEF ToSplit
<1>2. /\ m \in Int /\ m \in Keys /\ lo[l] < m /\ m < hi[l]
      /\ lo[l] = Cut(n, lo[p], hi[p], i - 1) /\ hi[l] = Cut(n, lo[p], hi[p], i)
  BY SplitKeyInside
<1>3. /\ IsInner(n, Keys, PageIds) /\ w \in Nat /\ n.keys \in Seq(Int) /\ Ascending(n.keys)
      /\ Keys \in SUBSET Int /\ \A j \in 1 .. w : n.keys[j] \in Int
  BY <1>1, InnerFacts, KeysAreInts DEF Skeleton, Shapes, ShapeOK
<1>4. i > 1 => n.keys[i - 1] < m
  <2>1. ASSUME i > 1 PROVE lo[l] = n.keys[i - 1]
    <3>1. i - 1 # 0 /\ i - 1 # w + 1
      BY <1>1, <1>3, <2>1
    <3> QED
      BY <1>2, <3>1 DEF Cut
  <2> QED
    BY <1>2, <2>1
<1>5. i <= w => m < n.keys[i] /\ m <= n.keys[i] /\ n.keys[i] # m
  <2>1. ASSUME i <= w PROVE hi[l] = n.keys[i] /\ i \in 1 .. w
    <3>1. i # 0 /\ i # w + 1
      BY <1>1, <1>3, <2>1
    <3> QED
      BY <1>1, <1>2, <1>3, <2>1, <3>1 DEF Cut
  <2> QED
    BY <1>2, <1>3, <2>1
<1> HIDE DEF n
<1>6. Position(n, m) = i
  <2>1. i \in 1 .. Len(n.keys) + 1 /\ (i > 1 => n.keys[i - 1] < m) /\ (i <= Len(n.keys) => m <= n.keys[i])
    BY <1>1, <1>4, <1>5
  <2> QED
    BY <1>2, <1>3, <2>1, PositionIs
<1>7. ~HasKey(n, m)
  BY <1>5, <1>6 DEF HasKey
<1>8. LET a == InnerInsert(n, m, r)  j == Position(n, m) IN
      /\ IsInner(a, Keys, PageIds)
      /\ IsWith(a.keys, n.keys, j, m) /\ IsWith(a.child_ids, n.child_ids, j + 1, r)
  BY <1>1, <1>2, <1>3, <1>7, InnerInsertIs
<1>9. InnerInsert(n, m, r).inner = TRUE /\ q = InnerInsert(n, m, r)
  BY DEF InnerInsert, InnerNode, n
<1> QED
  BY <1>6, <1>8, <1>9 DEF ShapeOK, KeysWith, n

(* The tree after a child was split. *)
LEMMA SplitTree ==
  ASSUME NEW small, NEW root, NEW lo, NEW hi, NEW h, NEW k \in Int, Tree(small, root, lo, hi, h, 0, k),
         NEW p, NEW i, NEW l, NEW r, NEW at, NEW m, ToSplit(small, p, i, l, r, at, m),
         NEW big, HasSplit(small, big, p, i, l, r, at, m),
         NEW lo2, NEW hi2, NEW h2, Halved(lo, hi, h, lo2, hi2, h2, l, r, m)
  PROVE  /\ Tree(big, root, lo2, hi2, h2, 0, k) /\ Divides(small, big, p, i, l, r, m)
         /\ big[l].inner = small[l].inner /\ big[r].inner = small[l].inner
         /\ Len(big[l].keys) = (IF small[l].inner THEN at - 1 ELSE at)
         /\ Len(big[r].keys) = Len(small[l].keys) - at
<1> DEFINE n == small[l]
           a == big[l]
           b == big[r]
<1>1. Skeleton(small, lo, hi, h) /\ Leaves(small, lo, hi, h, 0, k) /\ Labels(lo, hi, h)
      /\ DOMAIN small \subseteq PageIds /\ Shapes(small)
  BY DEF Tree, Skeleton
<1>2. /\ p \in DOMAIN small /\ small[p].inner /\ i \in 1 .. Len(small[p].keys) + 1 /\ l = ChildAt(small, p, i)
      /\ r \in PageIds /\ r \notin DOMAIN small
      /\ at \in 1 .. Len(n.keys) /\ m = n.keys[at] /\ (~n.inner => at < Len(n.keys))
  BY DEF ToSplit
<1>3. l \in DOMAIN small /\ l # p /\ ShapeOK(n) /\ m \in Int /\ lo[l] < m /\ m < hi[l]
  BY <1>1, SplitKeyInside
<1>4. /\ DOMAIN big = DOMAIN small \cup {r}
      /\ ShapeOK(big[p]) /\ big[p].inner /\ KeysWith(big[p], small[p], i, m)
      /\ IsWith(big[p].child_ids, small[p].child_ids, i + 1, r)
      /\ SplitAt(n, a, b, at, r)
      /\ \A x \in DOMAIN small : x # l /\ x # p => big[x] = small[x]
  BY DEF HasSplit
<1>5. /\ ShapeOK(a) /\ ShapeOK(b) /\ (InnerJoin(n, a, m, b) \/ LeafJoin(n, a, m, b))
      /\ a.inner = n.inner /\ b.inner = n.inner /\ (~a.inner => a.next_lef_id = r)
      /\ Len(a.keys) = (IF n.inner THEN at - 1 ELSE at) /\ Len(b.keys) = Len(n.keys) - at
  <2> HIDE DEF n, a, b
  <2>1. CASE n.inner
    <3>1. IsInner(n, Keys, PageIds) /\ n.inner \in BOOLEAN
      BY <1>3, <2>1 DEF ShapeOK
    <3>2. /\ ShapeOK(a) /\ ShapeOK(b) /\ InnerJoin(n, a, m, b) /\ a.inner /\ b.inner
          /\ Len(a.keys) = at - 1 /\ Len(b.keys) = Len(n.keys) - at
      BY <1>2, <1>4, <3>1, InnerSplits
    <3>3. a.inner \in BOOLEAN /\ b.inner \in BOOLEAN
      BY <3>2 DEF ShapeOK
    <3> QED
      BY <2>1, <3>1, <3>2, <3>3
  <2>2. CASE ~n.inner
    <3>1. IsOuter(n, Keys, Values, PageIds) /\ n.inner \in BOOLEAN
      BY <1>3, <2>2 DEF ShapeOK
    <3>2. /\ ShapeOK(a) /\ ShapeOK(b) /\ LeafJoin(n, a, m, b) /\ ~a.inner /\ ~b.inner
          /\ Len(a.keys) = at /\ Len(b.keys) = Len(n.keys) - at /\ a.next_lef_id = r
      BY <1>2, <1>4, <3>1, LeafSplits
    <3>3. a.inner \in BOOLEAN /\ b.inner \in BOOLEAN
      BY <3>2 DEF ShapeOK
    <3> QED
      BY <2>2, <3>1, <3>2, <3>3
  <2>3. n.inner \in BOOLEAN
    BY <1>3 DEF ShapeOK
  <2> QED
    BY <2>1, <2>2, <2>3
<1>6. Shapes(big)
  <2>1. SUFFICES ASSUME NEW x \in DOMAIN small \cup {r} PROVE ShapeOK(big[x])
    BY <1>4 DEF Shapes
  <2>2. CASE x = l \/ x = r
    BY <1>5, <2>2
  <2>3. CASE x = p
    BY <1>4, <2>3
  <2>4. CASE x # l /\ x # r /\ x # p
    BY <1>1, <1>4, <2>4 DEF Shapes
  <2> QED
    BY <2>2, <2>3, <2>4
<1>7. Divides(small, big, p, i, l, r, m)
  BY <1>1, <1>2, <1>3, <1>4, <1>5, <1>6 DEF Divides
<1>8. DividesLabels(DOMAIN small, lo, hi, h, lo2, hi2, h2, l, r, m)
  <2>1. lo \in [PageIds -> Int] /\ hi \in [PageIds -> Int] /\ h \in [PageIds -> Nat] /\ l \in PageIds /\ l # r
    BY <1>1, <1>2, <1>3 DEF Labels
  <2>2. Labels(lo2, hi2, h2)
    BY <1>2, <1>3, <2>1 DEF Halved, Labels
  <2>3. /\ lo2[r] = m /\ \A x \in PageIds : x # r => lo2[x] = lo[x]
        /\ hi2[l] = m /\ hi2[r] = hi[l] /\ \A x \in PageIds : x # r /\ x # l => hi2[x] = hi[x]
        /\ h2[r] = h[l] /\ \A x \in PageIds : x # r => h2[x] = h[x]
    BY <1>2, <2>1 DEF Halved
  <2>4. \A x \in DOMAIN small : x \in PageIds /\ x # r
    BY <1>1, <1>2
  <2>5. \A x \in DOMAIN small : x # l => Same(lo, hi, h, lo2, hi2, h2, x)
    BY <2>3, <2>4 DEF Same
  <2>6. lo2[l] = lo[l] /\ h2[l] = h[l]
    BY <2>1, <2>3
  <2> QED
    BY <1>1, <2>2, <2>3, <2>5, <2>6 DEF DividesLabels
<1>9. ~n.inner => Len(b.keys) > IF 0 = l THEN 1 ELSE 0
  <2>1. l # 0
    BY <1>1, <1>3 DEF PageIds
  <2>2. ASSUME ~n.inner PROVE Len(b.keys) > 0
    <3>1. Len(n.keys) \in Nat
      BY <1>3, <2>2, LeafFacts DEF ShapeOK
    <3> QED
      BY <1>2, <1>5, <2>2, <3>1
  <2> QED
    BY <2>1, <2>2
<1>10. Tree(big, root, lo2, hi2, h2, Heir(0, l, r), k)
  BY <1>7, <1>8, <1>9, CutTree
<1>11. Heir(0, l, r) = 0
  BY <1>1, <1>3 DEF Heir, PageIds
<1> QED
  BY <1>5, <1>7, <1>10, <1>11

=============================================================================
