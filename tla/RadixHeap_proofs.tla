-------------------------- MODULE RadixHeap_proofs --------------------------
(***************************************************************************)
(* The radix tree in memory, for any number of digits, any capacities of   *)
(* the nodes and any keys: its arrays agree, its cells are the tree that   *)
(* the root leads to and nothing else, and nodes are fixed on the way of a *)
(* call only.                                                              *)
(***************************************************************************)
EXTENDS RadixHeap, FiniteSetTheorems, SequenceTheorems, WellFoundedInduction, TLAPS

-----------------------------------------------------------------------------
(* Recursion.  A set of numbers that is not empty has a least one. *)
LEMMA LeastNumber ==
  ASSUME NEW T \in SUBSET Nat, T # {}
  PROVE  \E m \in T : \A t \in T : m <= t
<1>1. \E m \in T : \A t \in T : ~(<<t, m>> \in OpToRel(<, Nat))
  BY NatLessThanWellFounded, WFMin
<1>2. \A a, b \in Nat : a < b => <<a, b>> \in OpToRel(<, Nat)
  BY DEF OpToRel
<1>3. \A a, b \in Nat : ~(a < b) => b <= a
  OBVIOUS
<1> HIDE DEF OpToRel
<1> QED
  BY <1>1, <1>2, <1>3

(* What holds at the start and goes on from step to step holds throughout. *)
LEMMA FromStepToStep ==
  ASSUME NEW n \in Nat, NEW S, 0 \in S, \A d \in 0 .. n - 1 : d \in S => d + 1 \in S
  PROVE  \A d \in 0 .. n : d \in S
<1> DEFINE T == {d \in 0 .. n : d \notin S}
<1>1. SUFFICES ASSUME T # {} PROVE FALSE
  OBVIOUS
<1>2. T \in SUBSET Nat
  OBVIOUS
<1>3. PICK m \in T : \A t \in T : m <= t
  <2> HIDE DEF T
  <2> QED
    BY <1>1, <1>2, LeastNumber
<1>4. m \in 0 .. n /\ m \notin S /\ m # 0
  BY <1>3
<1>5. m - 1 \in 0 .. n - 1 /\ ~(m <= m - 1) /\ (m - 1) + 1 = m /\ m - 1 \in 0 .. n
  BY <1>4
<1>6. m - 1 \notin T
  BY <1>3, <1>5
<1>7. m - 1 \in S
  BY <1>5, <1>6
<1> QED
  BY <1>4, <1>5, <1>7

(* A function that is defined from step to step exists: g has what the     *)
(* step to d makes of what was there before.                               *)
Steps(f, g, a, n) == f = [d \in 0 .. n |-> IF d = 0 THEN a ELSE g[d][f[d - 1]]]
LEMMA StepsExist ==
  ASSUME NEW n \in Nat, NEW X, NEW g \in [1 .. n -> [X -> X]], NEW a \in X
  PROVE  \E f \in [0 .. n -> X] : Steps(f, g, a, n)
<1> DEFINE S == {m \in 0 .. n : \E f \in [0 .. m -> X] : Steps(f, g, a, m)}
<1>1. 0 \in S
  <2> DEFINE f == [d \in 0 .. 0 |-> a]
  <2>1. f \in [0 .. 0 -> X] /\ Steps(f, g, a, 0)
    BY DEF Steps
  <2> QED
    BY <2>1
<1>2. ASSUME NEW m \in 0 .. n - 1, m \in S PROVE m + 1 \in S
  <2>1. m \in Nat /\ m + 1 \in 0 .. n /\ m + 1 \in 1 .. n
    OBVIOUS
  <2>2. PICK f \in [0 .. m -> X] : Steps(f, g, a, m)
    BY <1>2
  <2> DEFINE e == [d \in 0 .. m + 1 |-> IF d = m + 1 THEN g[m + 1][f[m]] ELSE f[d]]
  <2>3. \A d \in 0 .. m : f[d] = IF d = 0 THEN a ELSE g[d][f[d - 1]]
    BY <2>2 DEF Steps
  <2>4. e \in [0 .. m + 1 -> X]
    <3>1. m \in 0 .. m
      BY <2>1
    <3>2. g[m + 1][f[m]] \in X
      BY <2>1, <3>1
    <3>3. \A d \in 0 .. m + 1 : d # m + 1 => d \in 0 .. m
      BY <2>1
    <3> QED
      BY <3>2, <3>3
  <2>5. ASSUME NEW d \in 0 .. m + 1 PROVE e[d] = IF d = 0 THEN a ELSE g[d][e[d - 1]]
    <3>1. CASE d = m + 1
      <4>1. d - 1 = m /\ m \in 0 .. m + 1 /\ m # m + 1 /\ d # 0
        BY <2>1, <3>1
      <4>2. e[m] = f[m] /\ e[d] = g[d][f[m]]
        BY <3>1, <4>1
      <4> HIDE DEF e
      <4> QED
        BY <4>1, <4>2
    <3>2. CASE d # m + 1
      <4>1. d \in 0 .. m
        BY <2>1, <3>2
      <4>2. e[d] = f[d]
        BY <3>2
      <4>3. d # 0 => d - 1 \in 0 .. m + 1 /\ d - 1 # m + 1
        BY <2>1, <4>1
      <4>4. d # 0 => e[d - 1] = f[d - 1]
        BY <4>3
      <4> HIDE DEF e
      <4> QED
        BY <2>3, <4>1, <4>2, <4>4
    <3> QED
      BY <3>1, <3>2
  <2>6. Steps(e, g, a, m + 1)
    <3>1. e = [d \in 0 .. m + 1 |-> e[d]]
      BY <2>4
    <3> HIDE DEF e
    <3> QED
      BY <2>5, <3>1 DEF Steps
  <2> QED
    BY <2>1, <2>4, <2>6
<1> HIDE DEF S
<1>3. \A d \in 0 .. n : d \in S
  BY <1>1, <1>2, FromStepToStep
<1>4. n \in S
  BY <1>3
<1> QED
  BY <1>4 DEF S

-----------------------------------------------------------------------------
(* Keys.  Place values are positive. *)
LEMMA PowersArePositive == \A n \in 0 .. Digits : Power[n] \in Nat \ {0}
<1> DEFINE Is(f) == f = [n \in 0 .. Digits |-> IF n = 0 THEN 1 ELSE Base * f[n - 1]]
           g == [n \in 1 .. Digits |-> [x \in Nat \ {0} |-> Base * x]]
           W == CHOOSE f : Is(f)
<1>1. Digits \in Nat /\ Base \in Nat \ {0}
  BY RKeysAssumption
<1>2. g \in [1 .. Digits -> [Nat \ {0} -> Nat \ {0}]]
  BY <1>1
<1> HIDE DEF g
<1>3. PICK f \in [0 .. Digits -> Nat \ {0}] : Steps(f, g, 1, Digits)
  <2> DEFINE X == Nat \ {0}
  <2>1. g \in [1 .. Digits -> [X -> X]] /\ 1 \in X /\ Digits \in Nat
    BY <1>1, <1>2
  <2> HIDE DEF X
  <2>2. \E f \in [0 .. Digits -> X] : Steps(f, g, 1, Digits)
    BY <2>1, StepsExist
  <2> QED
    BY <2>2 DEF X
<1>4. Is(f)
  <2>1. ASSUME NEW n \in 0 .. Digits, n # 0 PROVE g[n][f[n - 1]] = Base * f[n - 1]
    <3>1. n \in 1 .. Digits /\ n - 1 \in 0 .. Digits
      BY <1>1, <2>1
    <3> QED
      BY <1>3, <3>1 DEF g
  <2> QED
    BY <1>3, <2>1 DEF Steps
<1>5. Is(W)
  BY <1>4
<1>6. Power = W
  BY DEF Power
<1> HIDE DEF W
<1> DEFINE S == {n \in 0 .. Digits : W[n] \in Nat \ {0}}
<1>7. 0 \in S
  BY <1>1, <1>5
<1>8. ASSUME NEW d \in 0 .. Digits - 1, d \in S PROVE d + 1 \in S
  <2>1. d + 1 \in 0 .. Digits /\ d + 1 # 0 /\ (d + 1) - 1 = d
    BY <1>1
  <2>2. W[d + 1] = Base * W[d]
    BY <1>5, <2>1
  <2>3. W[d] \in Nat \ {0}
    BY <1>8
  <2>4. \A b, x \in Nat \ {0} : b * x \in Nat \ {0}
    OBVIOUS
  <2> QED
    BY <1>1, <2>1, <2>2, <2>3, <2>4
<1> HIDE DEF S
<1>9. \A d \in 0 .. Digits : d \in S
  BY <1>1, <1>7, <1>8, FromStepToStep
<1> QED
  BY <1>6, <1>9 DEF S

(* A digit is a digit. *)
LEMMA DigitIs ==
  ASSUME NEW key \in Nat, NEW depth \in 1 .. Digits
  PROVE  Digit(key, depth) \in AllDigits
<1>1. Digits \in Nat /\ Base \in Nat \ {0}
  BY RKeysAssumption
<1>2. Digits - depth \in 0 .. Digits
  BY <1>1
<1> DEFINE x == Power[Digits - depth]
<1>3. x \in Nat \ {0}
  BY <1>2, PowersArePositive
<1> HIDE DEF x
<1>4. (key \div x) % Base \in 0 .. Base - 1
  BY <1>1, <1>3
<1> QED
  BY <1>4 DEF x, Digit, AllDigits

(* Keys are transformed and back. *)
LEMMA TransformIs ==
  ASSUME NEW key \in CachedKeys
  PROVE  Transform(key) \in Nat /\ InverseTransform(Transform(key)) = key
<1> DEFINE K == KeySpace
           H == K \div 2
<1>1. K \in Nat \ {0}
  <2>1. Digits \in 0 .. Digits
    BY RKeysAssumption
  <2> QED
    BY <2>1, PowersArePositive DEF KeySpace
<1>2. key \in -H .. H - 1
  BY RadixHeapAssumption
<1> HIDE DEF K
<1>3. H \in Nat /\ 2 * H <= K
  BY <1>1
<1> HIDE DEF H
<1>4. key \in Int /\ key + H \in 0 .. K - 1 /\ -H <= key /\ key < H
  BY <1>1, <1>2, <1>3
<1>5. (key + H) % K = key + H
  BY <1>1, <1>4
<1>6. (key + H) - H = key
  BY <1>3, <1>4
<1>7. CASE key >= 0
  <2>1. key \in 0 .. K - 1
    BY <1>1, <1>3, <1>4, <1>7
  <2>2. key % K = key
    BY <1>1, <2>1
  <2> QED
    BY <1>4, <1>5, <1>6, <2>2 DEF Transform, InverseTransform, Signed, K, H
<1>8. CASE key < 0
  <2>1. key + K \in 0 .. K - 1 /\ ~(key + K < H) /\ (key + K) - K = key
    BY <1>1, <1>3, <1>4, <1>8
  <2> DEFINE r == key + K
  <2>2. key = r - K
    BY <1>1, <1>4
  <2>3. r \in 0 .. K - 1
    BY <2>1
  <2> HIDE DEF r
  <2>4. key % K = r
    BY <1>1, <2>2, <2>3
  <2> QED
    BY <1>4, <1>5, <1>6, <2>1, <2>4 DEF Transform, InverseTransform, Signed, K, H, r
<1> QED
  BY <1>4, <1>7, <1>8

(* Keys that have the same first digits. *)
Agree(a, b, p) == \A i \in 1 .. p : Digit(a, i) = Digit(b, i)

LEMMA CommonDigitsAre ==
  ASSUME NEW a, NEW b
  PROVE  /\ CommonDigits(a, b) \in 0 .. Digits - 1
         /\ Agree(a, b, CommonDigits(a, b))
         /\ CommonDigits(a, b) < Digits - 1 =>
              Digit(a, CommonDigits(a, b) + 1) # Digit(b, CommonDigits(a, b) + 1)
<1> DEFINE Is(p) == /\ \A i \in 1 .. p : Digit(a, i) = Digit(b, i)
                    /\ p < Digits - 1 => Digit(a, p + 1) # Digit(b, p + 1)
           T == {p \in 0 .. Digits - 1 : p < Digits - 1 => Digit(a, p + 1) # Digit(b, p + 1)}
<1>1. Digits \in Nat \ {0}
  BY RKeysAssumption
<1>2. T \in SUBSET Nat /\ Digits - 1 \in T
  BY <1>1
<1>3. PICK p \in T : \A q \in T : p <= q
  <2> HIDE DEF T
  <2> QED
    BY <1>2, LeastNumber
<1>4. p \in 0 .. Digits - 1
  BY <1>3
<1>5. ASSUME NEW i \in 1 .. p PROVE Digit(a, i) = Digit(b, i)
  <2>1. i - 1 \in 0 .. Digits - 1 /\ ~(p <= i - 1) /\ i - 1 < Digits - 1 /\ (i - 1) + 1 = i
    BY <1>1, <1>4
  <2>2. i - 1 \notin T
    BY <1>3, <2>1
  <2> QED
    BY <2>1, <2>2
<1>6. Is(p)
  BY <1>3, <1>5
<1>7. CommonDigits(a, b) = CHOOSE q \in 0 .. Digits - 1 : Is(q)
  BY DEF CommonDigits
<1> HIDE DEF Is
<1>8. CommonDigits(a, b) \in 0 .. Digits - 1 /\ Is(CommonDigits(a, b))
  BY <1>4, <1>6, <1>7
<1> QED
  BY <1>8 DEF Is, Agree

(* How deep two keys part. *)
LEMMA DepthIs ==
  ASSUME NEW a, NEW b
  PROVE  /\ Depth(a, b) \in 1 .. Digits
         /\ Agree(a, b, Depth(a, b) - 1)
         /\ Depth(a, b) < Digits => Digit(a, Depth(a, b)) # Digit(b, Depth(a, b))
         /\ \A p \in 0 .. Digits - 1 : Agree(a, b, p) <=> p < Depth(a, b)
<1> DEFINE c == CommonDigits(a, b)
<1>1. Digits \in Nat \ {0}
  BY RKeysAssumption
<1>2. c \in 0 .. Digits - 1 /\ Agree(a, b, c) /\ (c < Digits - 1 => Digit(a, c + 1) # Digit(b, c + 1))
  BY CommonDigitsAre
<1>3. Depth(a, b) = c + 1
  BY DEF Depth
<1> HIDE DEF c
<1>4. (c + 1) - 1 = c /\ c + 1 \in 1 .. Digits /\ (c + 1 < Digits => c < Digits - 1)
  BY <1>1, <1>2
<1>5. ASSUME NEW p \in 0 .. Digits - 1 PROVE Agree(a, b, p) <=> p < c + 1
  <2>1. CASE p < c + 1
    <3>1. 1 .. p \subseteq 1 .. c
      BY <1>2, <2>1
    <3> QED
      BY <1>2, <2>1, <3>1 DEF Agree
  <2>2. CASE ~(p < c + 1)
    <3>1. c + 1 \in 1 .. p /\ c < Digits - 1
      BY <1>1, <1>2, <2>2
    <3>2. ~Agree(a, b, p)
      BY <1>2, <3>1 DEF Agree
    <3> QED
      BY <2>2, <3>2
  <2> QED
    BY <2>1, <2>2
<1> QED
  BY <1>2, <1>3, <1>4, <1>5

-----------------------------------------------------------------------------
(* Nodes.  The arrays of a node, type by type. *)
KeyArrays == Seq(AllDigits) \cup [AllDigits -> Nat]
NodeRec ==
  [type : 1 .. 4, leaf : BOOLEAN, depth : 1 .. Digits, key : Nat,
   current_size : Nat, fix_count : Int, keys : KeyArrays, children : Seq(Nat)]

UnsortedOK(n) ==
  /\ n.keys \in Seq(AllDigits) /\ Len(n.keys) = n.current_size /\ Len(n.children) = n.current_size
  /\ \A i, j \in 1 .. n.current_size : n.keys[i] = n.keys[j] => i = j
  /\ \A i \in 1 .. n.current_size : n.children[i] # Null
IndexedOK(n) ==
  /\ n.keys \in [AllDigits -> 0 .. Capacity[3]] /\ Len(n.children) = Capacity[3]
  /\ \A d, e \in AllDigits : n.keys[d] = n.keys[e] /\ n.keys[d] # 0 => d = e
  /\ \A s \in 1 .. Capacity[3] : n.children[s] # Null <=> \E d \in AllDigits : n.keys[d] = s
Structure(n) ==
  /\ n \in NodeRec
  /\ n.type \in {1, 2} => UnsortedOK(n)
  /\ n.type = 3 => IndexedOK(n)
  /\ n.type = 4 => Len(n.children) = Base

(* The digits that have a child; current_size is their number. *)
Present(n) == {d \in AllDigits : Child(n, d) # Null}
ArraysOK(n) ==
  Structure(n) /\ n.current_size = Cardinality(Present(n)) /\ n.current_size <= Capacity[n.type]

(* What the parameters of the nodes are. *)
LEMMA Parameters ==
  /\ Digits \in Nat \ {0} /\ Base \in Nat \ {0} /\ FrameSize \in Nat
  /\ \A t \in 1 .. 4 : Capacity[t] \in Nat \ {0} /\ NodeSize[t] \in Nat
  /\ 2 <= Capacity[1] /\ Capacity[1] < Capacity[2] /\ Capacity[2] < Capacity[3]
  /\ Capacity[3] < Capacity[4] /\ Capacity[4] = Base
  /\ IsFiniteSet(AllDigits) /\ Cardinality(AllDigits) = Base /\ AllDigits \subseteq Nat
<1>1. Len(Capacity) = 4 /\ Len(NodeSize) = 4 /\ Base \in Nat \ {0}
  BY RKeysAssumption, RArraysAssumption
<1>2. \A t \in 1 .. 4 : Capacity[t] \in Nat \ {0} /\ NodeSize[t] \in Nat
  <2> DEFINE X == Nat \ {0}
  <2>1. Capacity \in Seq(X) /\ NodeSize \in Seq(Nat)
    BY RKeysAssumption
  <2> HIDE DEF X
  <2>2. /\ \A t \in 1 .. Len(Capacity) : Capacity[t] \in X
        /\ \A t \in 1 .. Len(NodeSize) : NodeSize[t] \in Nat
    BY <2>1, ElementOfSeq
  <2> QED
    BY <1>1, <2>2 DEF X
<1>3. \A i \in 1 .. 3 : Capacity[i] < Capacity[i + 1]
  BY <1>1, RKeysAssumption
<1>4. Capacity[1] < Capacity[1 + 1] /\ Capacity[2] < Capacity[2 + 1] /\ Capacity[3] < Capacity[3 + 1]
  BY <1>3
<1>5. IsFiniteSet(AllDigits) /\ Cardinality(AllDigits) = Base
  <2>1. 0 \in Int /\ Base - 1 \in Int
    BY <1>1
  <2>2. IsFiniteSet(0 .. Base - 1) /\ Cardinality(0 .. Base - 1) = IF 0 > Base - 1 THEN 0 ELSE (Base - 1) - 0 + 1
    BY <2>1, FS_Interval
  <2> QED
    BY <1>1, <2>2 DEF AllDigits
<1>6. AllDigits \subseteq Nat
  BY <1>1 DEF AllDigits
<1> QED
  BY <1>1, <1>2, <1>4, <1>5, <1>6, RKeysAssumption, RArraysAssumption

(* The first place of a value in a sequence. *)
Place(s, d) == SelectInSeq(s, LAMBDA e : e = d)

(* SelectInSeq gives the first place, or 0 if there is none. *)
LEMMA FirstPlace ==
  ASSUME NEW s, Len(s) \in Nat, NEW d
  PROVE  /\ Place(s, d) \in 0 .. Len(s)
         /\ Place(s, d) # 0 => s[Place(s, d)] = d
         /\ Place(s, d) = 0 => \A j \in 1 .. Len(s) : s[j] # d
<1> DEFINE I == {i \in 1 .. Len(s) : s[i] = d}
           k == Place(s, d)
<1>1. k = IF I # {} THEN Min(I) ELSE 0
  BY DEF SelectInSeq, Place
<1>2. CASE I # {}
  <2>1. I \in SUBSET Nat
    OBVIOUS
  <2> HIDE DEF I
  <2>2. \E m \in I : \A t \in I : m <= t
    BY <1>2, <2>1, LeastNumber
  <2>3. Min(I) \in I
    BY <2>2 DEF Min
  <2>4. k \in I
    BY <1>1, <1>2, <2>3
  <2> QED
    BY <2>4 DEF I
<1>3. CASE I = {}
  BY <1>1, <1>3
<1> QED
  BY <1>2, <1>3

(* A digit has a slot just when it has a child. *)
LEMMA SlotIs ==
  ASSUME NEW n, Structure(n), NEW d \in AllDigits
  PROVE  /\ Slot(n, d) \in 0 .. Len(n.children) /\ Child(n, d) \in Nat
         /\ Slot(n, d) # 0 <=> Child(n, d) # Null
         /\ Slot(n, d) # 0 => Child(n, d) = n.children[Slot(n, d)]
         /\ n.type \in {1, 2} =>
              /\ Slot(n, d) # 0 => n.keys[Slot(n, d)] = d
              /\ \A i \in 1 .. n.current_size : n.keys[i] = d => Slot(n, d) = i
<1>1. /\ n.type \in 1 .. 4 /\ n.current_size \in Nat /\ n.children \in Seq(Nat) /\ Len(n.children) \in Nat
      /\ \A i \in 1 .. Len(n.children) : n.children[i] \in Nat
  BY DEF Structure, NodeRec
<1>2. CASE n.type \in {1, 2}
  <2> DEFINE k == UnsortedSlot(n, d)
  <2>1. UnsortedOK(n) /\ Len(n.keys) = n.current_size /\ Len(n.children) = n.current_size
    BY <1>2 DEF Structure, UnsortedOK
  <2>2. /\ k \in 0 .. n.current_size /\ (k # 0 => n.keys[k] = d)
        /\ k = 0 => \A j \in 1 .. n.current_size : n.keys[j] # d
    <3>1. k = Place(n.keys, d)
      BY DEF UnsortedSlot, Place
    <3> QED
      BY <1>1, <2>1, <3>1, FirstPlace
  <2>3. Slot(n, d) = k
    BY <1>2 DEF Slot
  <2> HIDE DEF k
  <2>4. k # 0 => k \in 1 .. n.current_size /\ n.children[k] # Null
    BY <1>1, <2>1, <2>2 DEF UnsortedOK
  <2>5. ASSUME NEW i \in 1 .. n.current_size, n.keys[i] = d PROVE k = i
    BY <2>1, <2>2, <2>4, <2>5 DEF UnsortedOK
  <2> QED
    BY <1>1, <2>1, <2>2, <2>3, <2>4, <2>5 DEF Child, Null
<1>3. CASE n.type = 3
  <2>1. IndexedOK(n) /\ Slot(n, d) = n.keys[d] /\ n.keys[d] \in 0 .. Capacity[3] /\ Len(n.children) = Capacity[3]
    BY <1>3 DEF Structure, IndexedOK, Slot, IndexedSlot
  <2>2. Capacity[3] \in Nat
    BY Parameters
  <2>3. n.keys[d] # 0 => n.keys[d] \in 1 .. Capacity[3] /\ n.children[n.keys[d]] # Null
    BY <2>1, <2>2 DEF IndexedOK
  <2> QED
    BY <1>1, <1>3, <2>1, <2>2, <2>3 DEF Child, Null
<1>4. CASE n.type = 4
  <2>1. Slot(n, d) = IF n.children[d + 1] = Null THEN 0 ELSE d + 1
    BY <1>4 DEF Slot, DirectSlot
  <2>2. d + 1 \in 1 .. Base /\ Len(n.children) = Base
    BY <1>4, Parameters DEF Structure, AllDigits
  <2>3. d + 1 # 0
    BY <2>2
  <2> QED
    BY <1>1, <1>4, <2>1, <2>2, <2>3 DEF Child, Null
<1> QED
  BY <1>1, <1>2, <1>3, <1>4

(* What the loops copy and the methods of the arrays keep of a node. *)
SameHeader(m, n) ==
  m.type = n.type /\ m.leaf = n.leaf /\ m.depth = n.depth /\ m.key = n.key /\ m.fix_count = n.fix_count

(* A node with other arrays. *)
With(n, k, c, z) == [n EXCEPT !.keys = k, !.children = c, !.current_size = z]

(* A node with other arrays and another size is a node with the same       *)
(* header.                                                                 *)
LEMMA WithArrays ==
  ASSUME NEW n \in NodeRec, NEW k \in KeyArrays, NEW c \in Seq(Nat), NEW z \in Nat
  PROVE  /\ With(n, k, c, z) \in NodeRec /\ SameHeader(With(n, k, c, z), n)
         /\ With(n, k, c, z).keys = k /\ With(n, k, c, z).children = c
         /\ With(n, k, c, z).current_size = z
<1> DEFINE K == KeyArrays
           C == Seq(Nat)
           T == 1 .. 4
           E == 1 .. Digits
           R == [type : T, leaf : BOOLEAN, depth : E, key : Nat, current_size : Nat,
                 fix_count : Int, keys : K, children : C]
           m == With(n, k, c, z)
<1>1. n \in R /\ k \in K /\ c \in C
  BY DEF NodeRec
<1> HIDE DEF K, C, T, E
<1>2. m \in R /\ SameHeader(m, n) /\ m.keys = k /\ m.children = c /\ m.current_size = z
  BY <1>1 DEF SameHeader, With
<1> QED
  BY <1>2 DEF NodeRec, K, C, T, E

(* A new entry at the end. *)
LEMMA UnsortedInsertIs ==
  ASSUME NEW n, Structure(n), n.type \in {1, 2}, NEW d \in AllDigits, Child(n, d) = Null,
         NEW p \in Nat \ {0}, NEW m, m = UnsortedInsert(n, d, p)
  PROVE  /\ Structure(m) /\ SameHeader(m, n) /\ m.current_size = n.current_size + 1
         /\ \A e \in AllDigits : Child(m, e) = IF e = d THEN p ELSE Child(n, e)
<1> DEFINE z == n.current_size
           k == Append(n.keys, d)
           c == Append(n.children, p)
<1>1. /\ n \in NodeRec /\ UnsortedOK(n) /\ z \in Nat /\ n.children \in Seq(Nat)
      /\ n.keys \in Seq(AllDigits) /\ Len(n.keys) = z /\ Len(n.children) = z
  BY DEF Structure, NodeRec, UnsortedOK
<1>2. \A i \in 1 .. z : n.keys[i] # d
  BY SMTT(30), SlotIs, <1>1
<1>3. k \in Seq(AllDigits) /\ c \in Seq(Nat) /\ z + 1 \in Nat /\ Len(k) = z + 1 /\ Len(c) = z + 1
  BY <1>1
<1>4. \A i \in 1 .. z + 1 : /\ k[i] = IF i = z + 1 THEN d ELSE n.keys[i]
                            /\ c[i] = IF i = z + 1 THEN p ELSE n.children[i]
  BY <1>1
<1>5. m = With(n, k, c, z + 1)
  BY DEF UnsortedInsert, With
<1> HIDE DEF k, c
<1>6. m \in NodeRec /\ SameHeader(m, n) /\ m.keys = k /\ m.children = c /\ m.current_size = z + 1
  <2> DEFINE y == z + 1
  <2>1. n \in NodeRec /\ k \in KeyArrays /\ c \in Seq(Nat) /\ y \in Nat
    BY <1>1, <1>3 DEF KeyArrays
  <2>2. m = With(n, k, c, y)
    BY <1>5
  <2> HIDE DEF y
  <2>3. m \in NodeRec /\ SameHeader(m, n) /\ m.keys = k /\ m.children = c /\ m.current_size = y
    BY ONLY <2>1, <2>2, WithArrays
  <2> QED
    BY <2>3 DEF y
<1> HIDE DEF z
<1>7. \A i \in 1 .. z + 1 : i # z + 1 => i \in 1 .. z
  BY <1>1
<1>8. UnsortedOK(m)
  <2>1. ASSUME NEW i \in 1 .. z + 1, NEW j \in 1 .. z + 1, k[i] = k[j] PROVE i = j
    BY <1>1, <1>2, <1>4, <1>7, <2>1 DEF UnsortedOK, z
  <2>2. ASSUME NEW i \in 1 .. z + 1 PROVE c[i] # Null
    BY <1>1, <1>4, <1>7 DEF UnsortedOK, Null, z
  <2> QED
    BY <1>3, <1>6, <2>1, <2>2 DEF UnsortedOK
<1>9. Structure(m)
  BY <1>6, <1>8 DEF Structure, SameHeader
<1>10. ASSUME NEW e \in AllDigits PROVE Child(m, e) = IF e = d THEN p ELSE Child(n, e)
  <2>1. CASE e = d
    <3>1. z + 1 \in 1 .. m.current_size /\ m.keys[z + 1] = e /\ m.children[z + 1] = p /\ z + 1 # 0
      BY <1>1, <1>4, <1>6, <2>1
    <3>2. Slot(m, e) = z + 1
      BY <1>6, <1>9, <3>1, SlotIs DEF SameHeader
    <3> QED
      BY <2>1, <3>1, <3>2 DEF Child
  <2>2. CASE e # d /\ Slot(n, e) # 0
    <3> DEFINE s == Slot(n, e)
    <3>1. s \in 1 .. z /\ n.keys[s] = e /\ Child(n, e) = n.children[s]
      BY <1>1, <2>2, SlotIs
    <3> HIDE DEF s
    <3>2. s \in 1 .. z + 1 /\ s # z + 1
      BY <1>1, <3>1
    <3>3. s \in 1 .. m.current_size /\ m.keys[s] = e /\ m.children[s] = n.children[s] /\ s # 0
      BY <1>1, <1>4, <1>6, <3>1, <3>2
    <3>4. Slot(m, e) = s
      BY <1>6, <1>9, <3>3, SlotIs DEF SameHeader
    <3> QED
      BY <2>2, <3>1, <3>3, <3>4 DEF Child
  <2>3. CASE e # d /\ Slot(n, e) = 0
    <3>1. \A i \in 1 .. z : n.keys[i] # e
      BY <1>1, <2>3, SlotIs DEF z
    <3>2. \A i \in 1 .. z + 1 : m.keys[i] # e
      BY <1>4, <1>6, <1>7, <2>3, <3>1
    <3>3. Slot(m, e) \in 0 .. z + 1 /\ (Slot(m, e) # 0 => m.keys[Slot(m, e)] = e)
      <4>1. Len(m.children) = z + 1
        BY <1>3, <1>6
      <4> QED
        BY <1>6, <1>9, <4>1, SlotIs DEF SameHeader
    <3>4. Slot(m, e) = 0
      BY <1>1, <3>2, <3>3
    <3> QED
      BY <2>3, <3>4 DEF Child
  <2> QED
    BY <2>1, <2>2, <2>3
<1> QED
  BY <1>6, <1>9, <1>10 DEF z

(* A node of the third type that is not full has a free slot. *)
LEMMA FreeSlot ==
  ASSUME NEW n, Structure(n), n.type = 3, n.current_size = Cardinality(Present(n)),
         n.current_size < Capacity[3]
  PROVE  LET s == Place(n.children, Null)
         IN  s \in 1 .. Capacity[3] /\ n.children[s] = Null
<1> DEFINE c == n.children
           C == Capacity[3]
           P == Present(n)
           f == [s \in 1 .. C |-> CHOOSE d \in AllDigits : n.keys[d] = s]
<1>1. Len(c) = C /\ C \in Nat /\ IndexedOK(n)
  BY Parameters DEF Structure, IndexedOK
<1>2. \E s \in 1 .. C : c[s] = Null
  <2>1. SUFFICES ASSUME \A s \in 1 .. C : c[s] # Null PROVE FALSE
    OBVIOUS
  <2>2. ASSUME NEW s \in 1 .. C PROVE f[s] \in AllDigits /\ n.keys[f[s]] = s /\ f[s] \in P
    <3>1. \E d \in AllDigits : n.keys[d] = s
      BY <1>1, <2>1 DEF IndexedOK
    <3>2. f[s] \in AllDigits /\ n.keys[f[s]] = s
      BY <3>1
    <3> DEFINE d == f[s]
    <3>3. d \in AllDigits /\ n.keys[d] = s
      BY <3>2
    <3> HIDE DEF f, d
    <3>4. Slot(n, d) = s /\ s # 0
      BY <3>3 DEF Slot, IndexedSlot
    <3>5. Child(n, d) # Null
      BY <3>3, <3>4, SlotIs
    <3> QED
      BY <3>2, <3>3, <3>5 DEF d, Present
  <2>3. f \in [1 .. C -> P]
    BY <2>2
  <2>4. \A s, t \in 1 .. C : f[s] = f[t] => s = t
    <3> HIDE DEF f
    <3> QED
      BY <2>2
  <2>5. f \in Injection(1 .. C, P)
    <3> HIDE DEF f, P
    <3> QED
      BY <2>3, <2>4 DEF Injection, IsInjective
  <2>6. IsFiniteSet(P)
    <3>1. P \in SUBSET AllDigits
      BY DEF Present
    <3> HIDE DEF P
    <3> QED
      BY <3>1, Parameters, FS_Subset
  <2>7. IsFiniteSet(1 .. C) /\ Cardinality(1 .. C) = C
    <3>1. 1 \in Int /\ C \in Int /\ (1 > C <=> C = 0) /\ C - 1 + 1 = C
      BY <1>1
    <3> HIDE DEF C
    <3>2. IsFiniteSet(1 .. C) /\ Cardinality(1 .. C) = IF 1 > C THEN 0 ELSE C - 1 + 1
      BY <3>1, FS_Interval
    <3> QED
      BY <3>1, <3>2
  <2>8. Cardinality(1 .. C) <= Cardinality(P)
    <3> HIDE DEF f, P, C
    <3> QED
      BY <2>5, <2>6, FS_Injection
  <2>9. Cardinality(P) \in Nat
    BY <2>6, FS_CardinalityType
  <2> HIDE DEF P
  <2> QED
    BY <1>1, <2>7, <2>8, <2>9 DEF P
<1> DEFINE s == Place(c, Null)
<1>3. s \in 0 .. Len(c) /\ (s # 0 => c[s] = Null) /\ (s = 0 => \A j \in 1 .. Len(c) : c[j] # Null)
  BY <1>1, FirstPlace
<1>4. s \in 1 .. C /\ c[s] = Null
  <2> HIDE DEF s, c
  <2> QED
    BY <1>1, <1>2, <1>3
<1> QED
  BY <1>4

(* A digit gets the first free slot. *)
LEMMA IndexedInsertIs ==
  ASSUME NEW n, ArraysOK(n), n.type = 3, n.current_size < Capacity[3],
         NEW d \in AllDigits, Child(n, d) = Null,
         NEW p \in Nat \ {0}, NEW m, m = IndexedInsert(n, d, p)
  PROVE  /\ Structure(m) /\ SameHeader(m, n) /\ m.current_size = n.current_size + 1
         /\ \A e \in AllDigits : Child(m, e) = IF e = d THEN p ELSE Child(n, e)
<1> DEFINE s == Place(n.children, Null)
           k == [n.keys EXCEPT ![d] = s]
           c == [n.children EXCEPT ![s] = p]
           C == Capacity[3]
           y == n.current_size + 1
<1>1. /\ n \in NodeRec /\ IndexedOK(n) /\ y \in Nat /\ n.children \in Seq(Nat) /\ Len(n.children) = C
      /\ n.keys \in [AllDigits -> 0 .. C] /\ C \in Nat /\ Structure(n)
  <2>1. n \in NodeRec /\ IndexedOK(n) /\ Structure(n)
    BY DEF ArraysOK, Structure
  <2>2. n.current_size \in Nat /\ n.children \in Seq(Nat)
    BY <2>1 DEF NodeRec
  <2>3. Len(n.children) = C /\ n.keys \in [AllDigits -> 0 .. C]
    BY <2>1 DEF IndexedOK
  <2>4. C \in Nat
    BY Parameters
  <2>5. y \in Nat
    BY <2>2
  <2> HIDE DEF C, y
  <2> QED
    BY <2>1, <2>2, <2>3, <2>4, <2>5
<1>2. s \in 1 .. C /\ n.children[s] = Null
  BY FreeSlot DEF ArraysOK
<1>3. m = With(n, k, c, y)
  BY DEF IndexedInsert, With, Place
<1> HIDE DEF s
<1>4. s # 0 /\ s \in 0 .. C
  BY <1>1, <1>2
<1>5. \A e \in AllDigits : k[e] = IF e = d THEN s ELSE n.keys[e]
  BY <1>1
<1>6. k \in [AllDigits -> 0 .. C] /\ k \in KeyArrays
  BY <1>1, <1>4 DEF KeyArrays
<1>7. c \in Seq(Nat) /\ Len(c) = C /\ \A i \in 1 .. C : c[i] = IF i = s THEN p ELSE n.children[i]
  BY <1>1, <1>2
<1> HIDE DEF k, c, y
<1>8. m \in NodeRec /\ SameHeader(m, n) /\ m.keys = k /\ m.children = c /\ m.current_size = y
  <2>1. n \in NodeRec
    BY <1>1
  <2>2. k \in KeyArrays
    BY <1>6
  <2>3. c \in Seq(Nat)
    BY <1>7
  <2>4. y \in Nat
    BY <1>1
  <2> QED
    BY ONLY <1>3, <2>1, <2>2, <2>3, <2>4, WithArrays
<1>9. \A e \in AllDigits : n.keys[e] # s
  BY <1>1, <1>2 DEF IndexedOK
<1>10. n.keys[d] = 0
  BY <1>1, SlotIs DEF Slot, IndexedSlot
<1>11. IndexedOK(m)
  <2>1. ASSUME NEW a \in AllDigits, NEW b \in AllDigits, k[a] = k[b], k[a] # 0 PROVE a = b
    BY <1>1, <1>5, <1>9, <2>1 DEF IndexedOK
  <2>2. ASSUME NEW i \in 1 .. C PROVE c[i] # Null <=> \E e \in AllDigits : k[e] = i
    <3>1. CASE i = s
      BY <1>5, <1>7, <3>1 DEF Null
    <3>2. CASE i # s
      <4>1. i # 0
        BY <1>1
      <4>2. c[i] # Null <=> \E e \in AllDigits : n.keys[e] = i
        BY <1>1, <1>7, <3>2 DEF IndexedOK
      <4>3. \A e \in AllDigits : k[e] = i <=> n.keys[e] = i
        BY <1>5, <1>10, <3>2, <4>1
      <4> QED
        BY <4>2, <4>3
    <3> QED
      BY <3>1, <3>2
  <2> QED
    BY <1>6, <1>7, <1>8, <2>1, <2>2 DEF IndexedOK
<1>12. Structure(m)
  BY <1>8, <1>11 DEF Structure, SameHeader
<1>13. ASSUME NEW e \in AllDigits PROVE Child(m, e) = IF e = d THEN p ELSE Child(n, e)
  <2>1. m.type = 3
    BY <1>8 DEF SameHeader
  <2>2. Child(m, e) = IF k[e] = 0 THEN Null ELSE c[k[e]]
    BY <1>8, <2>1 DEF Child, Slot, IndexedSlot
  <2>3. Child(n, e) = IF n.keys[e] = 0 THEN Null ELSE n.children[n.keys[e]]
    BY DEF Child, Slot, IndexedSlot
  <2>4. CASE e = d
    BY <1>2, <1>4, <1>5, <1>7, <2>2, <2>4
  <2>5. CASE e # d /\ n.keys[e] # 0
    <3>1. n.keys[e] \in 1 .. C /\ n.keys[e] # s
      BY <1>1, <1>9, <2>5
    <3> QED
      BY <1>5, <1>7, <2>2, <2>3, <2>5, <3>1
  <2>6. CASE e # d /\ n.keys[e] = 0
    BY <1>5, <2>2, <2>3, <2>6
  <2> QED
    BY <2>4, <2>5, <2>6
<1> QED
  BY <1>8, <1>12, <1>13 DEF y

(* A digit has its own place. *)
LEMMA DirectChild ==
  ASSUME NEW n, n.type = 4, NEW d \in AllDigits
  PROVE  Child(n, d) = n.children[d + 1] /\ d + 1 \in 1 .. Base
<1>1. Slot(n, d) = IF n.children[d + 1] = Null THEN 0 ELSE d + 1
  BY DEF Slot, DirectSlot
<1>2. d + 1 # 0 /\ d + 1 \in 1 .. Base
  BY Parameters DEF AllDigits
<1> QED
  BY <1>1, <1>2 DEF Child, Null

DirectPut(n, d, p, z) == [n EXCEPT !.children[d + 1] = p, !.current_size = z]
LEMMA DirectPutIs ==
  ASSUME NEW n, Structure(n), n.type = 4, NEW d \in AllDigits, NEW p \in Nat,
         NEW z \in Nat, NEW m, m = DirectPut(n, d, p, z)
  PROVE  /\ Structure(m) /\ SameHeader(m, n) /\ m.current_size = z
         /\ \A e \in AllDigits : Child(m, e) = IF e = d THEN p ELSE Child(n, e)
<1> DEFINE k == n.keys
           c == [n.children EXCEPT ![d + 1] = p]
<1>1. n \in NodeRec /\ k \in KeyArrays /\ n.children \in Seq(Nat) /\ Len(n.children) = Base
  BY DEF Structure, NodeRec
<1>2. d + 1 \in 1 .. Base
  BY DirectChild
<1>3. c \in Seq(Nat) /\ Len(c) = Base /\ \A i \in 1 .. Base : c[i] = IF i = d + 1 THEN p ELSE n.children[i]
  BY <1>1, <1>2
<1>4. m = With(n, k, c, z)
  <2>1. m = [n EXCEPT !.children = c, !.current_size = z]
    BY DEF DirectPut
  <2> HIDE DEF c
  <2>2. n = [n EXCEPT !.keys = k]
    BY <1>1 DEF NodeRec
  <2> QED
    BY <1>1, <2>1, <2>2 DEF With, NodeRec
<1> HIDE DEF k, c
<1>5. m \in NodeRec /\ SameHeader(m, n) /\ m.keys = k /\ m.children = c /\ m.current_size = z
  <2>1. n \in NodeRec
    BY <1>1
  <2>2. k \in KeyArrays
    BY <1>1
  <2>3. c \in Seq(Nat)
    BY <1>3
  <2> QED
    BY ONLY <1>4, <2>1, <2>2, <2>3, z \in Nat, WithArrays
<1>6. m.type = 4 /\ Structure(m)
  BY <1>3, <1>5 DEF Structure, SameHeader
<1>7. ASSUME NEW e \in AllDigits PROVE Child(m, e) = IF e = d THEN p ELSE Child(n, e)
  <2>1. Child(m, e) = c[e + 1] /\ Child(n, e) = n.children[e + 1] /\ e + 1 \in 1 .. Base
    BY <1>5, <1>6, DirectChild
  <2>2. e + 1 = d + 1 <=> e = d
    BY Parameters
  <2> QED
    BY <1>3, <2>1, <2>2
<1> QED
  BY <1>5, <1>6, <1>7

(* The pointer of a digit is replaced. *)
LEMMA ReplaceIs ==
  ASSUME NEW n, Structure(n), NEW d \in AllDigits, Child(n, d) # Null, NEW p \in Nat \ {0},
         NEW m, m = [n EXCEPT !.children[Slot(n, d)] = p]
  PROVE  /\ Structure(m) /\ SameHeader(m, n) /\ m.current_size = n.current_size
         /\ \A e \in AllDigits : Child(m, e) = IF e = d THEN p ELSE Child(n, e)
<1> DEFINE s == Slot(n, d)
           k == n.keys
           z == n.current_size
           c == [n.children EXCEPT ![s] = p]
<1>1. n \in NodeRec /\ k \in KeyArrays /\ z \in Nat /\ n.children \in Seq(Nat) /\ n.type \in 1 .. 4
  BY DEF Structure, NodeRec
<1>2. s \in 1 .. Len(n.children)
  BY <1>1, SlotIs
<1>3. c \in Seq(Nat) /\ Len(c) = Len(n.children)
      /\ \A i \in 1 .. Len(n.children) : c[i] = IF i = s THEN p ELSE n.children[i]
  BY <1>1, <1>2
<1>4. m = With(n, k, c, z)
  <2>1. m = [n EXCEPT !.children = c]
    OBVIOUS
  <2> HIDE DEF c
  <2> QED
    BY <1>1, <2>1 DEF With, NodeRec
<1> HIDE DEF k, c, s, z
<1>5. m \in NodeRec /\ SameHeader(m, n) /\ m.keys = k /\ m.children = c /\ m.current_size = z
  <2>1. n \in NodeRec
    BY <1>1
  <2>2. k \in KeyArrays
    BY <1>1
  <2>3. c \in Seq(Nat)
    BY <1>3
  <2>4. z \in Nat
    BY <1>1
  <2> QED
    BY ONLY <1>4, <2>1, <2>2, <2>3, <2>4, WithArrays
<1>6. m.type = n.type
  BY <1>5 DEF SameHeader
<1>7. CASE n.type = 4
  <2>1. s = d + 1
    <3>1. Slot(n, d) # 0
      BY SlotIs
    <3> QED
      BY <1>7, <3>1 DEF s, Slot, DirectSlot
  <2>2. m = DirectPut(n, d, p, z)
    <3>1. m = [n EXCEPT !.children = [n.children EXCEPT ![d + 1] = p], !.current_size = z]
      BY <1>4, <2>1, <1>1 DEF With, k, c, z, NodeRec
    <3> QED
      BY <3>1 DEF DirectPut
  <2>3. p \in Nat
    OBVIOUS
  <2>4. /\ Structure(m) /\ SameHeader(m, n) /\ m.current_size = z
        /\ \A e \in AllDigits : Child(m, e) = IF e = d THEN p ELSE Child(n, e)
    <3>1. z \in Nat /\ Structure(n)
      BY <1>1
    <3> QED
      BY ONLY <1>7, <2>2, <2>3, <3>1, d \in AllDigits, DirectPutIs
  <2> QED
    BY <2>4 DEF z
<1>8. CASE n.type # 4
  <2>1. Structure(m)
    <3>1. CASE n.type \in {1, 2}
      <4>1. UnsortedOK(n)
        BY <3>1 DEF Structure
      <4>2. UnsortedOK(m)
        BY <1>3, <1>5, <4>1 DEF UnsortedOK, Null, k, z
      <4> QED
        BY <1>5, <1>6, <3>1, <4>2 DEF Structure
    <3>2. CASE n.type = 3
      <4>1. IndexedOK(n)
        BY <3>2 DEF Structure
      <4>2. Len(n.children) = Capacity[3]
        BY <4>1 DEF IndexedOK
      <4>3. \A i \in 1 .. Capacity[3] : c[i] # Null <=> n.children[i] # Null
        <5>1. n.children[s] # Null
          BY SlotIs DEF s
        <5> QED
          BY <1>3, <4>2, <5>1 DEF Null
      <4>4. IndexedOK(m)
        BY <1>3, <1>5, <4>1, <4>2, <4>3 DEF IndexedOK, k
      <4> QED
        BY <1>5, <1>6, <3>2, <4>4 DEF Structure
    <3> QED
      BY <1>1, <1>8, <3>1, <3>2
  <2>2. ASSUME NEW e \in AllDigits PROVE Slot(m, e) = Slot(n, e) /\ (e # d /\ Slot(n, e) # 0 => Slot(n, e) # s)
    <3>1. Slot(m, e) = Slot(n, e)
      BY <1>1, <1>5, <1>6, <1>8 DEF Slot, UnsortedSlot, IndexedSlot, k
    <3>2. CASE n.type \in {1, 2}
      BY <3>1, <3>2, SlotIs DEF s
    <3>3. CASE n.type = 3
      <4>1. Slot(n, d) # 0
        BY SlotIs
      <4> QED
        BY <3>1, <3>3, <4>1 DEF s, Slot, IndexedSlot, Structure, IndexedOK
    <3> QED
      BY <1>1, <1>8, <3>2, <3>3
  <2>3. ASSUME NEW e \in AllDigits PROVE Child(m, e) = IF e = d THEN p ELSE Child(n, e)
    <3>1. Slot(n, e) \in 0 .. Len(n.children) /\ Slot(m, e) = Slot(n, e)
      BY <2>2, SlotIs
    <3>2. CASE e = d
      BY <1>2, <1>3, <1>5, <3>1, <3>2 DEF Child, s
    <3>3. CASE e # d /\ Slot(n, e) = 0
      BY <3>1, <3>3 DEF Child
    <3>4. CASE e # d /\ Slot(n, e) # 0
      <4>1. Slot(n, e) \in 1 .. Len(n.children) /\ Slot(n, e) # s
        BY <1>1, <2>2, <3>1, <3>4
      <4> QED
        BY <1>3, <1>5, <3>1, <3>4, <4>1 DEF Child
    <3> QED
      BY <3>2, <3>3, <3>4
  <2> QED
    BY <1>5, <2>1, <2>3 DEF z
<1> QED
  BY <1>7, <1>8

(* With a new child the digits that have one are one more, or as many. *)
LEMMA PresentWith ==
  ASSUME NEW n, NEW m, NEW d \in AllDigits, NEW p \in Nat,
         \A e \in AllDigits : Child(m, e) = IF e = d THEN p ELSE Child(n, e)
  PROVE  /\ IsFiniteSet(Present(n)) /\ Cardinality(Present(n)) \in Nat
         /\ Child(n, d) = Null /\ p # Null =>
              Cardinality(Present(m)) = Cardinality(Present(n)) + 1
         /\ Child(n, d) # Null /\ p # Null => Present(m) = Present(n)
         /\ Child(n, d) # Null /\ p = Null =>
              Cardinality(Present(m)) = Cardinality(Present(n)) - 1
<1> DEFINE P == Present(n)
           Q == Present(m)
<1>1. IsFiniteSet(P)
  <2>1. P \in SUBSET AllDigits
    BY DEF Present
  <2> HIDE DEF P
  <2> QED
    BY <2>1, Parameters, FS_Subset
<1>2. Cardinality(P) \in Nat
  <2> HIDE DEF P
  <2> QED
    BY <1>1, FS_CardinalityType
<1>3. CASE Child(n, d) = Null /\ p # Null
  <2>1. Q = P \cup {d} /\ d \notin P
    BY <1>3 DEF Present
  <2> HIDE DEF P, Q
  <2>2. Cardinality(Q) = Cardinality(P) + 1
    BY <1>1, <2>1, FS_AddElement
  <2> QED
    BY <1>1, <1>2, <1>3, <2>2 DEF P, Q
<1>4. CASE Child(n, d) # Null /\ p # Null
  <2>1. Q = P
    BY <1>4 DEF Present
  <2> QED
    BY <1>1, <1>2, <1>4, <2>1
<1>5. CASE Child(n, d) # Null /\ p = Null
  <2>1. Q = P \ {d} /\ d \in P
    BY <1>5 DEF Present
  <2> HIDE DEF P, Q
  <2>2. Cardinality(Q) = Cardinality(P) - 1
    BY <1>1, <2>1, FS_RemoveElement
  <2> QED
    BY <1>1, <1>2, <1>5, <2>2 DEF P, Q
<1>6. CASE Child(n, d) = Null /\ p = Null
  BY <1>1, <1>2, <1>6
<1> QED
  BY <1>3, <1>4, <1>5, <1>6

(* node_insert, whatever the structure. *)
LEMMA NodeInsertIs ==
  ASSUME NEW n, ArraysOK(n), NEW d \in AllDigits, NEW p \in Nat \ {0},
         Child(n, d) = Null => CanInsert(n), NEW m, m = NodeInsert(n, d, p)
  PROVE  /\ ArraysOK(m) /\ SameHeader(m, n)
         /\ m.current_size = n.current_size + (IF Child(n, d) = Null THEN 1 ELSE 0)
         /\ \A e \in AllDigits : Child(m, e) = IF e = d THEN p ELSE Child(n, e)
<1>1. Structure(n) /\ n.type \in 1 .. 4 /\ n.current_size \in Nat
  BY DEF ArraysOK, Structure, NodeRec
<1>2. n.current_size = Cardinality(Present(n)) /\ n.current_size <= Capacity[n.type]
  BY DEF ArraysOK
<1>3. (Slot(n, d) # 0 <=> Child(n, d) # Null) /\ p \in Nat /\ p # Null
  BY <1>1, SlotIs DEF Null
<1>4. CASE Child(n, d) # Null
  <2>1. m = [n EXCEPT !.children[Slot(n, d)] = p]
    BY <1>3, <1>4 DEF NodeInsert
  <2>2. /\ Structure(m) /\ SameHeader(m, n) /\ m.current_size = n.current_size
        /\ \A e \in AllDigits : Child(m, e) = IF e = d THEN p ELSE Child(n, e)
    BY <1>1, <1>4, <2>1, ReplaceIs
  <2>3. Present(m) = Present(n)
    BY <1>3, <1>4, <2>2, PresentWith
  <2> QED
    BY <1>1, <1>2, <1>4, <2>2, <2>3 DEF ArraysOK, SameHeader
<1>5. CASE Child(n, d) = Null
  <2>1. n.current_size + 1 <= Capacity[n.type] \/ n.type = 4
    <3>1. Capacity[n.type] \in Nat
      BY <1>1, Parameters
    <3> QED
      BY <1>1, <1>5, <3>1 DEF CanInsert
  <2>2. /\ Structure(m) /\ SameHeader(m, n) /\ m.current_size = n.current_size + 1
        /\ \A e \in AllDigits : Child(m, e) = IF e = d THEN p ELSE Child(n, e)
    <3>1. CASE n.type \in {1, 2}
      <4>1. m = UnsortedInsert(n, d, p)
        BY <1>3, <1>5, <3>1 DEF NodeInsert
      <4> QED
        BY <1>1, <1>5, <3>1, <4>1, UnsortedInsertIs
    <3>2. CASE n.type = 3
      <4>1. m = IndexedInsert(n, d, p)
        BY <1>3, <1>5, <3>2 DEF NodeInsert
      <4>2. n.current_size < Capacity[3]
        BY <1>5, <3>2 DEF CanInsert
      <4> QED
        BY <1>5, <3>2, <4>1, <4>2, IndexedInsertIs
    <3>3. CASE n.type = 4
      <4> DEFINE z == n.current_size + 1
      <4>1. m = DirectPut(n, d, p, z)
        BY <1>3, <1>5, <3>3 DEF NodeInsert, DirectInsert, DirectPut
      <4>2. z \in Nat
        BY <1>1
      <4> HIDE DEF z
      <4>3. /\ Structure(m) /\ SameHeader(m, n) /\ m.current_size = z
            /\ \A e \in AllDigits : Child(m, e) = IF e = d THEN p ELSE Child(n, e)
        BY ONLY <1>1, <1>3, <3>3, <4>1, <4>2, d \in AllDigits, DirectPutIs
      <4> QED
        BY <4>3 DEF z
    <3> QED
      BY <1>1, <3>1, <3>2, <3>3
  <2>3. Cardinality(Present(m)) = Cardinality(Present(n)) + 1
    BY <1>3, <1>5, <2>2, PresentWith
  <2>4. m.current_size <= Capacity[n.type]
    <3>1. CASE n.type = 4
      <4>1. Present(m) \in SUBSET AllDigits
        BY DEF Present
      <4>2. Cardinality(Present(m)) <= Base
        BY <4>1, Parameters, FS_Subset
      <4> QED
        BY <1>2, <2>2, <2>3, <3>1, <4>2, Parameters
    <3> QED
      BY <2>1, <2>2, <3>1
  <2> QED
    BY <1>1, <1>2, <1>5, <2>2, <2>3, <2>4 DEF ArraysOK, SameHeader
<1> QED
  BY <1>4, <1>5

(* The last entry moves to the hole. *)
IsFilled(r, q, s, X, y) ==
  /\ r \in Seq(X) /\ Len(r) = y
  /\ \A i \in 1 .. y : r[i] = IF i = s THEN q[Len(q)] ELSE q[i]
LEMMA HoleFilledIs ==
  ASSUME NEW X, NEW q \in Seq(X), NEW s \in 1 .. Len(q), NEW y \in Nat, Len(q) = y + 1
  PROVE  IsFilled(HoleFilled(q, s), q, s, X, y)
<1> DEFINE z == Len(q)
           r == [q EXCEPT ![s] = Last(q)]
<1>1. q[z] \in X /\ Last(q) = q[z] /\ z - 1 = y
  BY DEF Last
<1>2. r \in Seq(X) /\ Len(r) = z /\ \A i \in 1 .. z : r[i] = IF i = s THEN q[z] ELSE q[i]
  BY <1>1
<1>3. HoleFilled(q, s) = SubSeq(r, 1, y)
  BY <1>1, <1>2 DEF HoleFilled, Front
<1> HIDE DEF r
<1>4. y \in 0 .. Len(r) /\ 1 \in 1 .. z + 1 /\ \A i \in 1 .. y : i \in 1 .. z
  BY <1>2
<1> QED
  BY <1>2, <1>3, <1>4 DEF IsFilled

(* delete_reference of RNode4 and RNode16: the last entry, digit and       *)
(* pointer, moves to the hole.                                             *)
LEMMA UnsortedDeleteIs ==
  ASSUME NEW n, Structure(n), n.type \in {1, 2}, NEW d \in AllDigits, Child(n, d) # Null,
         NEW m, m = UnsortedDelete(n, d)
  PROVE  /\ Structure(m) /\ SameHeader(m, n) /\ m.current_size = n.current_size - 1
         /\ \A e \in AllDigits : Child(m, e) = IF e = d THEN Null ELSE Child(n, e)
<1> DEFINE z == n.current_size
           s == Slot(n, d)
           k == HoleFilled(n.keys, s)
           c == HoleFilled(n.children, s)
           y == z - 1
<1>1. /\ n \in NodeRec /\ UnsortedOK(n) /\ z \in Nat /\ n.children \in Seq(Nat)
      /\ n.keys \in Seq(AllDigits) /\ Len(n.keys) = z /\ Len(n.children) = z
  BY DEF Structure, NodeRec, UnsortedOK
<1>2. s \in 1 .. z /\ n.keys[s] = d /\ (\A i \in 1 .. z : n.keys[i] = d => i = s)
  BY <1>1, SlotIs
<1>3. z \in Nat \ {0} /\ y \in Nat
  BY <1>1, <1>2
<1>4. m = With(n, k, c, y)
  BY DEF UnsortedDelete, With
<1> HIDE DEF s
<1>5. k \in Seq(AllDigits) /\ Len(k) = y /\ \A i \in 1 .. y : k[i] = IF i = s THEN n.keys[z] ELSE n.keys[i]
  <2> DEFINE q == n.keys
           X == AllDigits
  <2>1. q \in Seq(X)
    BY <1>1
  <2>2. Len(q) = z
    BY <1>1
  <2>3. s \in 1 .. Len(q)
    BY <1>2, <2>2
  <2>4. y \in Nat /\ Len(q) = y + 1
    BY <1>3, <2>2
  <2> HIDE DEF z, y, q, X
  <2>5. IsFilled(HoleFilled(q, s), q, s, X, y)
    BY ONLY <2>1, <2>3, <2>4, HoleFilledIs
  <2> QED
    BY <2>2, <2>5 DEF q, X, IsFilled
<1>6. c \in Seq(Nat) /\ Len(c) = y
      /\ \A i \in 1 .. y : c[i] = IF i = s THEN n.children[z] ELSE n.children[i]
  <2> DEFINE q == n.children
           X == Nat
  <2>1. q \in Seq(X)
    BY <1>1
  <2>2. Len(q) = z
    BY <1>1
  <2>3. s \in 1 .. Len(q)
    BY <1>2, <2>2
  <2>4. y \in Nat /\ Len(q) = y + 1
    BY <1>3, <2>2
  <2> HIDE DEF z, y, q, X
  <2>5. IsFilled(HoleFilled(q, s), q, s, X, y)
    BY ONLY <2>1, <2>3, <2>4, HoleFilledIs
  <2> QED
    BY <2>2, <2>5 DEF q, X, IsFilled
<1> HIDE DEF k, c
<1>7. m \in NodeRec /\ SameHeader(m, n) /\ m.keys = k /\ m.children = c /\ m.current_size = y
  <2>1. n \in NodeRec
    BY <1>1
  <2>2. k \in KeyArrays
    BY <1>5 DEF KeyArrays
  <2>3. c \in Seq(Nat)
    BY <1>6
  <2>4. y \in Nat
    BY <1>3
  <2> HIDE DEF y
  <2> QED
    BY ONLY <1>4, <2>1, <2>2, <2>3, <2>4, WithArrays
<1> HIDE DEF z
<1>8. \A i \in 1 .. y : i \in 1 .. z /\ i # z
  BY <1>3
<1>9. z \in 1 .. z
  BY <1>3
<1>10. UnsortedOK(m)
  <2>1. ASSUME NEW i \in 1 .. y, NEW j \in 1 .. y, k[i] = k[j] PROVE i = j
    <3>1. \A a, b \in 1 .. z : n.keys[a] = n.keys[b] => a = b
      BY <1>1 DEF UnsortedOK, z
    <3> QED
      BY <1>5, <1>8, <1>9, <2>1, <3>1
  <2>2. ASSUME NEW i \in 1 .. y PROVE c[i] # Null
    <3>1. \A a \in 1 .. z : n.children[a] # Null
      BY <1>1 DEF UnsortedOK, z
    <3> QED
      BY <1>6, <1>8, <1>9, <3>1
  <2> QED
    BY <1>5, <1>6, <1>7, <2>1, <2>2 DEF UnsortedOK
<1>11. Structure(m) /\ m.type \in {1, 2}
  BY <1>7, <1>10 DEF Structure, SameHeader
<1>12. ASSUME NEW e \in AllDigits, NEW i \in 1 .. y, k[i] = e PROVE Child(m, e) = c[i]
  <2>1. i \in 1 .. m.current_size /\ m.keys[i] = e
    BY <1>7, <1>12
  <2>2. Slot(m, e) = i
    BY <1>11, <2>1, SlotIs
  <2>3. i # 0
    BY <1>3
  <2> QED
    BY <1>7, <2>2, <2>3 DEF Child
<1>13. ASSUME NEW e \in AllDigits, \A i \in 1 .. y : k[i] # e PROVE Child(m, e) = Null
  <2>1. Slot(m, e) \in 0 .. y /\ (Slot(m, e) # 0 => m.keys[Slot(m, e)] = e)
    BY <1>6, <1>7, <1>11, SlotIs
  <2>2. Slot(m, e) = 0
    BY <1>3, <1>7, <1>13, <2>1
  <2> QED
    BY <2>2 DEF Child
<1>14. ASSUME NEW e \in AllDigits PROVE Child(m, e) = IF e = d THEN Null ELSE Child(n, e)
  <2>1. CASE e = d
    <3>1. \A i \in 1 .. y : k[i] # e
      BY <1>2, <1>5, <1>8, <1>9, <2>1
    <3> QED
      BY <1>13, <2>1, <3>1
  <2>2. CASE e # d /\ Slot(n, e) # 0
    <3> DEFINE t == Slot(n, e)
    <3>1. t \in 0 .. z /\ t # 0 /\ n.keys[t] = e /\ Child(n, e) = n.children[t]
      <4>1. t \in 0 .. Len(n.children) /\ t # 0 /\ n.keys[t] = e /\ Child(n, e) = n.children[t]
        BY <2>2, SlotIs
      <4> QED
        BY <1>1, <4>1
    <3> HIDE DEF t
    <3> t \in 1 .. z
      BY <1>3, <3>1
    <3>2. t # s
      BY <1>2, <2>2, <3>1
    <3>3. CASE t = z
      <4>1. s \in 1 .. y
        BY <1>2, <1>3, <3>2, <3>3
      <4>2. k[s] = e /\ c[s] = n.children[t]
        BY <1>5, <1>6, <3>1, <3>3, <4>1
      <4> QED
        BY <1>12, <2>2, <3>1, <4>1, <4>2
    <3>4. CASE t # z
      <4>1. t \in 1 .. y
        BY <1>3, <3>1, <3>4
      <4>2. k[t] = e /\ c[t] = n.children[t]
        BY <1>5, <1>6, <3>1, <3>2, <4>1
      <4> QED
        BY <1>12, <2>2, <3>1, <4>1, <4>2
    <3> QED
      BY <3>3, <3>4
  <2>3. CASE e # d /\ Slot(n, e) = 0
    <3>1. \A i \in 1 .. z : n.keys[i] # e
      <4>1. \A i \in 1 .. z : n.keys[i] = e => Slot(n, e) = i
        BY SlotIs DEF z
      <4> QED
        BY <1>3, <2>3, <4>1
    <3>2. \A i \in 1 .. y : k[i] # e
      BY <1>5, <1>8, <1>9, <3>1
    <3> QED
      BY <1>13, <2>3, <3>2 DEF Child
  <2> QED
    BY <2>1, <2>2, <2>3
<1> QED
  BY <1>7, <1>11, <1>14 DEF y, z

(* delete_reference of RNode48: the slot is free, and the digit has none. *)
LEMMA IndexedDeleteIs ==
  ASSUME NEW n, Structure(n), n.type = 3, NEW d \in AllDigits, Child(n, d) # Null,
         NEW z \in Nat, z = n.current_size - 1, NEW m, m = IndexedDelete(n, d)
  PROVE  /\ Structure(m) /\ SameHeader(m, n) /\ m.current_size = z
         /\ \A e \in AllDigits : Child(m, e) = IF e = d THEN Null ELSE Child(n, e)
<1> DEFINE s == n.keys[d]
           k == [n.keys EXCEPT ![d] = 0]
           c == [n.children EXCEPT ![s] = Null]
           C == Capacity[3]
<1>1. n \in NodeRec /\ IndexedOK(n) /\ n.children \in Seq(Nat) /\ C \in Nat /\ Slot(n, d) = s
  BY Parameters DEF Structure, NodeRec, Slot, IndexedSlot
<1>2. Len(n.children) = C /\ n.keys \in [AllDigits -> 0 .. C]
  BY <1>1 DEF IndexedOK
<1>3. s \in 1 .. C
  <2>1. s # 0
    BY <1>1, SlotIs
  <2>2. s \in 0 .. C
    BY <1>2
  <2> HIDE DEF s
  <2> QED
    BY <1>1, <2>1, <2>2
<1>4. m = With(n, k, c, z)
  BY <1>1 DEF IndexedDelete, With
<1> HIDE DEF s
<1>5. k \in [AllDigits -> 0 .. C] /\ k \in KeyArrays
      /\ \A e \in AllDigits : k[e] = IF e = d THEN 0 ELSE n.keys[e]
  BY <1>1, <1>2 DEF KeyArrays
<1>6. c \in Seq(Nat) /\ Len(c) = C /\ \A i \in 1 .. C : c[i] = IF i = s THEN Null ELSE n.children[i]
  BY <1>1, <1>2, <1>3 DEF Null
<1> HIDE DEF k, c
<1>7. m \in NodeRec /\ SameHeader(m, n) /\ m.keys = k /\ m.children = c /\ m.current_size = z
  <2>1. n \in NodeRec
    BY <1>1
  <2>2. k \in KeyArrays
    BY <1>5
  <2>3. c \in Seq(Nat)
    BY <1>6
  <2> QED
    BY ONLY <1>4, <2>1, <2>2, <2>3, z \in Nat, WithArrays
<1>8. /\ \A a, b \in AllDigits : n.keys[a] = n.keys[b] /\ n.keys[a] # 0 => a = b
      /\ \A i \in 1 .. C : n.children[i] # Null <=> \E e \in AllDigits : n.keys[e] = i
  BY <1>1 DEF IndexedOK
<1>9. \A e \in AllDigits : e # d => n.keys[e] # s
  BY <1>3, <1>8 DEF s
<1>10. \A i \in 1 .. C : c[i] # Null <=> \E e \in AllDigits : k[e] = i
  <2>1. ASSUME NEW i \in 1 .. C, c[i] # Null PROVE \E e \in AllDigits : k[e] = i
    <3>1. i # s /\ n.children[i] # Null
      BY <1>6, <2>1
    <3>2. PICK e \in AllDigits : n.keys[e] = i
      BY <1>8, <3>1
    <3>3. e # d
      BY <3>1, <3>2 DEF s
    <3> QED
      BY <1>5, <3>2, <3>3
  <2>2. ASSUME NEW i \in 1 .. C, NEW e \in AllDigits, k[e] = i PROVE c[i] # Null
    <3>1. e # d /\ n.keys[e] = i
      BY <1>1, <1>5, <2>2
    <3>2. i # s /\ n.children[i] # Null
      BY <1>8, <1>9, <3>1
    <3> QED
      BY <1>6, <3>2
  <2> QED
    BY <2>1, <2>2
<1>11. \A a, b \in AllDigits : k[a] = k[b] /\ k[a] # 0 => a = b
  BY <1>5, <1>8
<1>12. IndexedOK(m)
  BY <1>5, <1>6, <1>7, <1>10, <1>11 DEF IndexedOK
<1>13. m.type = 3 /\ Structure(m)
  BY <1>7, <1>12 DEF Structure, SameHeader
<1>14. ASSUME NEW e \in AllDigits PROVE Child(m, e) = IF e = d THEN Null ELSE Child(n, e)
  <2>1. Child(m, e) = IF k[e] = 0 THEN Null ELSE c[k[e]]
    BY <1>7, <1>13 DEF Child, Slot, IndexedSlot
  <2>2. Child(n, e) = IF n.keys[e] = 0 THEN Null ELSE n.children[n.keys[e]]
    BY DEF Child, Slot, IndexedSlot
  <2>3. CASE e = d
    BY <1>5, <2>1, <2>3
  <2>4. CASE e # d /\ n.keys[e] # 0
    <3>1. n.keys[e] \in 1 .. C /\ n.keys[e] # s
      BY <1>1, <1>2, <1>9, <2>4
    <3> QED
      BY <1>5, <1>6, <2>1, <2>2, <2>4, <3>1
  <2>5. CASE e # d /\ n.keys[e] = 0
    BY <1>5, <2>1, <2>2, <2>5
  <2> QED
    BY <2>3, <2>4, <2>5
<1> QED
  BY <1>7, <1>13, <1>14

(* node_delete, whatever the structure. *)
LEMMA NodeDeleteIs ==
  ASSUME NEW n, ArraysOK(n), NEW d \in AllDigits, Child(n, d) # Null,
         NEW m, m = NodeDelete(n, d)
  PROVE  /\ ArraysOK(m) /\ SameHeader(m, n) /\ m.current_size = n.current_size - 1
         /\ \A e \in AllDigits : Child(m, e) = IF e = d THEN Null ELSE Child(n, e)
<1> DEFINE z == n.current_size - 1
<1>1. Structure(n) /\ n.type \in 1 .. 4 /\ n.current_size \in Nat
  BY DEF ArraysOK, Structure, NodeRec
<1>2. n.current_size = Cardinality(Present(n)) /\ n.current_size <= Capacity[n.type]
  BY DEF ArraysOK
<1>3. z \in Nat
  <2>1. IsFiniteSet(Present(n))
    <3>1. Present(n) \in SUBSET AllDigits
      BY DEF Present
    <3> QED
      BY <3>1, Parameters, FS_Subset
  <2>2. d \in Present(n)
    BY DEF Present
  <2>3. Cardinality(Present(n)) # 0
    BY <2>1, <2>2, FS_EmptySet
  <2> QED
    BY <1>1, <1>2, <2>3
<1>4. /\ Structure(m) /\ SameHeader(m, n) /\ m.current_size = z
      /\ \A e \in AllDigits : Child(m, e) = IF e = d THEN Null ELSE Child(n, e)
  <2>1. CASE n.type \in {1, 2}
    <3>1. m = UnsortedDelete(n, d)
      BY <2>1 DEF NodeDelete
    <3> QED
      BY <1>1, <2>1, <3>1, UnsortedDeleteIs
  <2>2. CASE n.type = 3
    <3>1. m = IndexedDelete(n, d)
      BY <2>2 DEF NodeDelete
    <3> QED
      BY <1>1, <1>3, <2>2, <3>1, IndexedDeleteIs
  <2>3. CASE n.type = 4
    <3>1. m = DirectPut(n, d, Null, z)
      BY <2>3 DEF NodeDelete, DirectDelete, DirectPut
    <3>2. Null \in Nat
      BY DEF Null
    <3> HIDE DEF z
    <3> QED
      BY ONLY <1>1, <1>3, <2>3, <3>1, <3>2, d \in AllDigits, DirectPutIs
  <2> QED
    BY <1>1, <2>1, <2>2, <2>3
<1>5. Cardinality(Present(m)) = Cardinality(Present(n)) - 1
  <2>1. Null \in Nat
    BY DEF Null
  <2> QED
    BY <1>4, <2>1, PresentWith
<1>6. m.current_size <= Capacity[n.type]
  <2>1. Capacity[n.type] \in Nat
    BY <1>1, Parameters
  <2> QED
    BY <1>1, <1>2, <1>4, <2>1
<1> QED
  BY <1>1, <1>2, <1>4, <1>5, <1>6 DEF ArraysOK, SameHeader

(* A new node has no children. *)
LEMMA NewNodeIs ==
  ASSUME NEW t \in 1 .. 4, NEW leaf \in BOOLEAN, NEW depth \in 1 .. Digits, NEW key \in Nat,
         NEW n, n = NewNode(t, leaf, depth, key)
  PROVE  /\ ArraysOK(n) /\ n.type = t /\ n.leaf = leaf /\ n.depth = depth /\ n.key = key
         /\ n.current_size = 0 /\ n.fix_count = 0 /\ CanInsert(n)
         /\ \A e \in AllDigits : Child(n, e) = Null
<1> DEFINE k == EmptyArrays(t).keys
           c == EmptyArrays(t).children
<1>1. /\ t \in {1, 2} => k = << >> /\ c = << >>
      /\ t = 3 => k = [d \in AllDigits |-> 0] /\ c = [s \in 1 .. Capacity[3] |-> Null]
      /\ t = 4 => k = << >> /\ c = [s \in 1 .. Capacity[4] |-> Null]
  BY DEF EmptyArrays
<1>2. Capacity[3] \in Nat \ {0} /\ Capacity[4] = Base /\ Base \in Nat /\ Capacity[t] \in Nat \ {0}
  BY Parameters
<1>3. k \in KeyArrays /\ c \in Seq(Nat)
  <2>0. << >> \in Seq(AllDigits) /\ << >> \in Seq(Nat)
    OBVIOUS
  <2>1. CASE t \in {1, 2}
    <3>1. k = << >> /\ c = << >>
      BY <1>1, <2>1
    <3> HIDE DEF k, c
    <3> QED
      BY <2>0, <3>1 DEF KeyArrays
  <2>2. CASE t = 3
    <3>1. k \in [AllDigits -> Nat]
      BY <1>1, <2>2
    <3>2. c \in Seq(Nat)
      BY <1>1, <1>2, <2>2 DEF Null
    <3> QED
      BY <3>1, <3>2 DEF KeyArrays
  <2>3. CASE t = 4
    <3>1. k \in Seq(AllDigits)
      <4>1. k = << >>
        BY <1>1, <2>3
      <4> HIDE DEF k
      <4> QED
        BY <2>0, <4>1
    <3>2. c \in Seq(Nat)
      BY <1>1, <1>2, <2>3 DEF Null
    <3> QED
      BY <3>1, <3>2 DEF KeyArrays
  <2> QED
    BY <2>1, <2>2, <2>3
<1>4. n = [type |-> t, leaf |-> leaf, depth |-> depth, key |-> key, current_size |-> 0,
           fix_count |-> 0, keys |-> k, children |-> c]
  BY DEF NewNode
<1> HIDE DEF k, c
<1>5. /\ n.type = t /\ n.leaf = leaf /\ n.depth = depth /\ n.key = key /\ n.current_size = 0
      /\ n.fix_count = 0 /\ n.keys = k /\ n.children = c
  BY <1>4
<1>6. n \in NodeRec
  <2> DEFINE K == KeyArrays
             C == Seq(Nat)
             D == 1 .. Digits
             T == 1 .. 4
  <2>1. k \in K /\ c \in C /\ depth \in D /\ t \in T
    BY <1>3
  <2> HIDE DEF K, C, D, T
  <2>2. n \in [type : T, leaf : BOOLEAN, depth : D, key : Nat, current_size : Nat,
               fix_count : Int, keys : K, children : C]
    BY <1>4, <2>1
  <2> QED
    BY <2>2 DEF K, C, D, T, NodeRec
<1>7. Structure(n)
  <2>1. CASE t \in {1, 2}
    <3>1. k = << >> /\ c = << >>
      BY <1>1, <2>1
    <3>2. UnsortedOK(n)
      BY <1>5, <3>1 DEF UnsortedOK
    <3> QED
      BY <1>5, <1>6, <2>1, <3>2 DEF Structure
  <2>2. CASE t = 3
    <3>1. k = [d \in AllDigits |-> 0] /\ c = [s \in 1 .. Capacity[3] |-> Null]
      BY <1>1, <2>2
    <3>2. Len(c) = Capacity[3]
      BY <1>2, <3>1
    <3>3. IndexedOK(n)
      BY <1>2, <1>5, <3>1, <3>2 DEF IndexedOK, Null
    <3> QED
      BY <1>5, <1>6, <2>2, <3>3 DEF Structure
  <2>3. CASE t = 4
    <3>1. Len(c) = Base
      BY <1>1, <1>2, <2>3
    <3> QED
      BY <1>5, <1>6, <2>3, <3>1 DEF Structure
  <2> QED
    BY <2>1, <2>2, <2>3
<1>8. ASSUME NEW e \in AllDigits PROVE Child(n, e) = Null
  <2>1. Slot(n, e) \in 0 .. Len(c) /\ (Slot(n, e) # 0 => Child(n, e) = c[Slot(n, e)])
        /\ (Slot(n, e) # 0 <=> Child(n, e) # Null)
    BY <1>5, <1>7, SlotIs
  <2>2. CASE t \in {1, 2}
    BY <1>1, <2>1, <2>2
  <2>3. CASE t = 3
    <3>1. Len(c) = Capacity[3] /\ \A s \in 1 .. Capacity[3] : c[s] = Null
      BY <1>1, <1>2, <2>3
    <3> QED
      BY <1>2, <2>1, <3>1
  <2>4. CASE t = 4
    <3>1. Len(c) = Capacity[4] /\ \A s \in 1 .. Capacity[4] : c[s] = Null
      BY <1>1, <1>2, <2>4
    <3> QED
      BY <1>2, <2>1, <3>1
  <2> QED
    BY <2>2, <2>3, <2>4
<1>9. Cardinality(Present(n)) = 0
  <2>1. Present(n) = {}
    BY <1>8 DEF Present
  <2> QED
    BY <2>1, FS_EmptySet
<1>10. ArraysOK(n) /\ CanInsert(n)
  BY <1>2, <1>5, <1>7, <1>9 DEF ArraysOK, CanInsert
<1> QED
  BY <1>5, <1>8, <1>10

(* A sequence that runs through a set of digits. *)
RunsThrough(q, P) ==
  /\ q \in Seq(AllDigits) /\ IsFiniteSet(P) /\ Cardinality(P) = Len(q)
  /\ \A i, j \in 1 .. Len(q) : q[i] = q[j] => i = j
  /\ \A e \in AllDigits : e \in P <=> \E i \in 1 .. Len(q) : q[i] = e
LEMMA RunsOn ==
  ASSUME NEW q, NEW P \in SUBSET AllDigits, RunsThrough(q, P), NEW e \in AllDigits, e \notin P
  PROVE  RunsThrough(Append(q, e), P \cup {e})
<1> DEFINE z == Len(q)
           r == Append(q, e)
           Q == P \cup {e}
<1>1. q \in Seq(AllDigits) /\ z \in Nat /\ IsFiniteSet(P) /\ Cardinality(P) = z
  BY DEF RunsThrough
<1>2. r \in Seq(AllDigits) /\ Len(r) = z + 1
      /\ \A i \in 1 .. z + 1 : r[i] = IF i = z + 1 THEN e ELSE q[i]
  BY <1>1
<1>3. IsFiniteSet(Q) /\ Cardinality(Q) = z + 1
  BY <1>1, FS_AddElement
<1>4. \A i \in 1 .. z : q[i] # e
  BY DEF RunsThrough
<1> HIDE DEF r
<1>5. \A i \in 1 .. z + 1 : i # z + 1 => i \in 1 .. z
  BY <1>1
<1>6. \A i \in 1 .. z : i \in 1 .. z + 1 /\ i # z + 1
  BY <1>1
<1>7. z + 1 \in 1 .. z + 1
  BY <1>1
<1> HIDE DEF z
<1>8. ASSUME NEW i \in 1 .. z + 1, NEW j \in 1 .. z + 1, r[i] = r[j] PROVE i = j
  <2>1. \A a, b \in 1 .. z : q[a] = q[b] => a = b
    BY DEF RunsThrough, z
  <2> QED
    BY <1>2, <1>4, <1>5, <1>8, <2>1
<1>9. ASSUME NEW x \in AllDigits PROVE x \in Q <=> \E i \in 1 .. z + 1 : r[i] = x
  <2>1. x \in P <=> \E i \in 1 .. z : q[i] = x
    BY DEF RunsThrough, z
  <2>2. CASE x = e
    BY <1>2, <1>7, <2>2
  <2>3. CASE x # e
    BY <1>2, <1>5, <1>6, <2>1, <2>3
  <2> QED
    BY <2>2, <2>3
<1> QED
  BY <1>2, <1>3, <1>8, <1>9 DEF RunsThrough, r

(* The loops visit each digit that has a child once. *)
LEMMA OrderIs ==
  ASSUME NEW n, ArraysOK(n)
  PROVE  RunsThrough(Order(n), Present(n)) /\ Len(Order(n)) = n.current_size
<1>1. Structure(n) /\ n.type \in 1 .. 4 /\ n.current_size = Cardinality(Present(n))
  BY DEF ArraysOK, Structure, NodeRec
<1>2. IsFiniteSet(Present(n))
  <2>1. Present(n) \in SUBSET AllDigits
    BY DEF Present
  <2> QED
    BY <2>1, Parameters, FS_Subset
<1>3. \A d \in AllDigits : Slot(n, d) # 0 <=> d \in Present(n)
  BY <1>1, SlotIs DEF Present
<1>4. CASE n.type \in {1, 2}
  <2>1. Order(n) = n.keys
    BY <1>4 DEF Order
  <2>2. UnsortedOK(n)
    BY <1>1, <1>4 DEF Structure
  <2>3. n.keys \in Seq(AllDigits) /\ Len(n.keys) = n.current_size
        /\ (\A i, j \in 1 .. n.current_size : n.keys[i] = n.keys[j] => i = j)
        /\ Len(n.children) = n.current_size /\ n.current_size \in Nat
    BY <2>2 DEF UnsortedOK
  <2>4. ASSUME NEW e \in AllDigits
        PROVE  e \in Present(n) <=> \E i \in 1 .. Len(n.keys) : n.keys[i] = e
    <3>1. /\ Slot(n, e) \in 0 .. n.current_size /\ (Slot(n, e) # 0 => n.keys[Slot(n, e)] = e)
          /\ \A i \in 1 .. n.current_size : n.keys[i] = e => Slot(n, e) = i
      BY <1>1, <1>4, <2>3, SlotIs
    <3> QED
      BY <1>3, <2>3, <3>1
  <2> QED
    BY <1>1, <1>2, <2>1, <2>3, <2>4 DEF RunsThrough
<1>5. CASE n.type \notin {1, 2}
  <2> DEFINE Is(f) == f = [d \in 0 .. Base |->
                             IF d = 0 THEN << >>
                             ELSE IF Slot(n, d - 1) = 0 THEN f[d - 1]
                             ELSE Append(f[d - 1], d - 1)]
             W == CHOOSE f : Is(f)
             X == Seq(AllDigits)
             g == [d \in 1 .. Base |->
                     [q \in X |-> IF Slot(n, d - 1) = 0 THEN q ELSE Append(q, d - 1)]]
             Up(d) == {e \in AllDigits : e < d /\ Slot(n, e) # 0}
             S == {d \in 0 .. Base : RunsThrough(W[d], Up(d))}
  <2>1. Order(n) = W[Base]
    BY <1>5 DEF Order
  <2>2. Base \in Nat \ {0} /\ \A d \in 1 .. Base : d - 1 \in AllDigits /\ d - 1 \in 0 .. Base
    BY Parameters DEF AllDigits
  <2>3. g \in [1 .. Base -> [X -> X]] /\ << >> \in X
    BY <2>2
  <2> HIDE DEF X, g
  <2>4. PICK f \in [0 .. Base -> X] : Steps(f, g, << >>, Base)
    <3> Base \in Nat
      BY <2>2
    <3> DEFINE a == << >>
    <3> a \in X
      BY <2>3
    <3> HIDE DEF a
    <3>1. \E f \in [0 .. Base -> X] : Steps(f, g, a, Base)
      BY <2>3, StepsExist
    <3> QED
      BY <3>1 DEF a
  <2>5. Is(f)
    <3>1. ASSUME NEW d \in 0 .. Base, d # 0
          PROVE  g[d][f[d - 1]] = IF Slot(n, d - 1) = 0 THEN f[d - 1] ELSE Append(f[d - 1], d - 1)
      <4>1. d \in 1 .. Base /\ d - 1 \in 0 .. Base
        BY <2>2, <3>1
      <4>2. f[d - 1] \in X
        BY <4>1
      <4> QED
        BY <4>1, <4>2 DEF g
    <3> QED
      BY <2>4, <3>1 DEF Steps
  <2>6. Is(W)
    BY <2>5
  <2> HIDE DEF W
  <2>7. 0 \in S
    <3>1. W[0] = << >>
      BY <2>2, <2>6
    <3>2. Up(0) = {}
      <4>1. \A e \in AllDigits : e \in 0 .. Base - 1
        BY DEF AllDigits
      <4>2. \A e \in AllDigits : ~(e < 0)
        BY <2>2, <4>1
      <4> QED
        BY <4>2
    <3>3. RunsThrough(<< >>, {})
      BY FS_EmptySet DEF RunsThrough
    <3> HIDE DEF Up
    <3> QED
      BY <2>2, <3>1, <3>2, <3>3
  <2>8. ASSUME NEW d \in 0 .. Base - 1, d \in S PROVE d + 1 \in S
    <3>1. d + 1 \in 0 .. Base /\ d + 1 # 0 /\ (d + 1) - 1 = d /\ d \in AllDigits
      BY <2>2 DEF AllDigits
    <3>2. W[d + 1] = IF Slot(n, d) = 0 THEN W[d] ELSE Append(W[d], d)
      <4>1. W[d + 1] = IF Slot(n, (d + 1) - 1) = 0 THEN W[(d + 1) - 1]
                       ELSE Append(W[(d + 1) - 1], (d + 1) - 1)
        BY <2>6, <3>1
      <4> QED
        BY <3>1, <4>1
    <3>3. Up(d + 1) = IF Slot(n, d) = 0 THEN Up(d) ELSE Up(d) \cup {d}
      <4>1. \A e \in AllDigits : e < d + 1 <=> e < d \/ e = d
        BY <3>1, Parameters
      <4> QED
        BY <3>1, <4>1
    <3>4. d \notin Up(d) /\ Up(d) \in SUBSET AllDigits /\ RunsThrough(W[d], Up(d))
      BY <2>8
    <3> HIDE DEF Up
    <3>5. RunsThrough(W[d + 1], Up(d + 1))
      <4>1. CASE Slot(n, d) = 0
        BY <3>2, <3>3, <3>4, <4>1
      <4>2. CASE Slot(n, d) # 0
        BY <3>1, <3>2, <3>3, <3>4, <4>2, RunsOn
      <4> QED
        BY <4>1, <4>2
    <3> QED
      BY <3>1, <3>5
  <2> HIDE DEF S
  <2>9. Base \in S
    <3>1. Base \in Nat /\ Base \in 0 .. Base
      BY <2>2
    <3>2. \A d \in 0 .. Base : d \in S
      BY <2>7, <2>8, <3>1, FromStepToStep
    <3> QED
      BY <3>1, <3>2
  <2>10. Up(Base) = Present(n)
    <3>1. \A e \in AllDigits : e < Base
      BY <2>2 DEF AllDigits
    <3> QED
      BY <1>3, <3>1 DEF Present
  <2>11. RunsThrough(W[Base], Present(n))
    BY <2>9, <2>10 DEF S
  <2> QED
    BY <1>1, <2>1, <2>11 DEF RunsThrough
<1> QED
  BY <1>4, <1>5

(* The arrays of such a node agree. *)
LEMMA ArraysAreOK ==
  ASSUME NEW n, ArraysOK(n)
  PROVE  n.type \in 1 .. 4 /\ ArraysAgree(n)
<1>1. Structure(n) /\ n.type \in 1 .. 4 /\ n.current_size <= Capacity[n.type]
  BY DEF ArraysOK, Structure, NodeRec
<1>2. n.current_size = Len(Order(n))
  BY OrderIs
<1>3. ASSUME n.type \in {1, 2} PROVE IsInjective(n.keys) /\ Len(n.children) = Len(n.keys)
  <2>1. UnsortedOK(n)
    BY <1>1, <1>3 DEF Structure
  <2>2. n.keys \in Seq(AllDigits) /\ Len(n.keys) = n.current_size /\ Len(n.children) = n.current_size
        /\ \A i, j \in 1 .. n.current_size : n.keys[i] = n.keys[j] => i = j
    BY <2>1 DEF UnsortedOK
  <2>3. DOMAIN n.keys = 1 .. n.current_size
    BY <2>2
  <2> QED
    BY <2>2, <2>3 DEF IsInjective
<1>4. ASSUME n.type = 3
      PROVE  /\ \A d, e \in AllDigits : n.keys[d] = n.keys[e] /\ n.keys[d] # 0 => d = e
             /\ {s \in 1 .. Capacity[3] : n.children[s] # Null} = {n.keys[d] : d \in AllDigits} \ {0}
  <2>1. IndexedOK(n)
    BY <1>1, <1>4 DEF Structure
  <2>2. /\ \A d, e \in AllDigits : n.keys[d] = n.keys[e] /\ n.keys[d] # 0 => d = e
        /\ \A s \in 1 .. Capacity[3] : n.children[s] # Null <=> \E d \in AllDigits : n.keys[d] = s
        /\ \A d \in AllDigits : n.keys[d] \in 0 .. Capacity[3]
    BY <2>1 DEF IndexedOK
  <2>3. \A s \in 0 .. Capacity[3] : s # 0 <=> s \in 1 .. Capacity[3]
    BY Parameters
  <2>4. \A s \in 1 .. Capacity[3] : s # 0
    OBVIOUS
  <2> QED
    BY <2>2, <2>3, <2>4
<1> QED
  BY <1>1, <1>2, <1>3, <1>4 DEF ArraysAgree

(* How many children a node has. *)
LEMMA SizeIs ==
  ASSUME NEW n, ArraysOK(n)
  PROVE  /\ n.current_size \in Nat
         /\ n.current_size = 0 => \A e \in AllDigits : Child(n, e) = Null
         /\ n.current_size = 1 =>
              \E d \in AllDigits : /\ Child(n, d) # Null /\ SingleChild(n) = Child(n, d)
                                   /\ \A e \in AllDigits : e # d => Child(n, e) = Null
<1> DEFINE q == Order(n)
           P == Present(n)
<1>1. RunsThrough(q, P) /\ Len(q) = n.current_size
  BY OrderIs
<1>2. q \in Seq(AllDigits) /\ Len(q) \in Nat /\ (\A e \in AllDigits : e \in P <=> \E i \in 1 .. Len(q) : q[i] = e)
  BY <1>1 DEF RunsThrough
<1>3. \A e \in AllDigits : e \in P <=> Child(n, e) # Null
  BY DEF Present
<1>4. SingleChild(n) = Child(n, Head(q))
  BY DEF SingleChild
<1> HIDE DEF q, P
<1>5. ASSUME n.current_size = 0, NEW e \in AllDigits PROVE Child(n, e) = Null
  BY <1>1, <1>2, <1>3, <1>5
<1>6. ASSUME n.current_size = 1
      PROVE  \E d \in AllDigits : /\ Child(n, d) # Null /\ SingleChild(n) = Child(n, d)
                                  /\ \A e \in AllDigits : e # d => Child(n, e) = Null
  <2> DEFINE d == q[1]
  <2>1. d \in AllDigits /\ Head(q) = d /\ 1 .. Len(q) = {1}
    BY <1>1, <1>2, <1>6
  <2>2. \A e \in AllDigits : e \in P <=> e = d
    BY <1>2, <2>1
  <2> HIDE DEF d
  <2> QED
    BY <1>3, <1>4, <2>1, <2>2
<1> QED
  BY <1>1, <1>2, <1>5, <1>6

(* Growing and shrinking: a new node of the other type has the entries of  *)
(* the first i digits.                                                     *)
CopiedUpTo(m, n, t, i) ==
  /\ ArraysOK(m) /\ m.type = t /\ m.leaf = n.leaf /\ m.depth = n.depth /\ m.key = n.key
  /\ m.fix_count = 0 /\ m.current_size = i
  /\ \A e \in AllDigits :
       Child(m, e) = IF \E j \in 1 .. i : Order(n)[j] = e THEN Child(n, e) ELSE Null
LEMMA CopyOne ==
  ASSUME NEW n, ArraysOK(n), NEW t \in 1 .. 4, n.current_size <= Capacity[t],
         NEW i \in 1 .. n.current_size, NEW m, CopiedUpTo(m, n, t, i - 1)
  PROVE  LET o == Order(n)[i] IN
         /\ Child(m, o) = Null => CanInsert(m)
         /\ o \in AllDigits /\ Child(n, o) \in Nat \ {0}
         /\ CopiedUpTo(NodeInsert(m, o, Child(n, o)), n, t, i)
<1> DEFINE q == Order(n)
           o == q[i]
           p == Child(n, o)
           x == NodeInsert(m, o, p)
<1>1. RunsThrough(q, Present(n)) /\ Len(q) = n.current_size
  BY OrderIs
<1>2. q \in Seq(AllDigits) /\ (\A a, b \in 1 .. Len(q) : q[a] = q[b] => a = b)
      /\ (\A e \in AllDigits : e \in Present(n) <=> \E j \in 1 .. Len(q) : q[j] = e)
  BY <1>1 DEF RunsThrough
<1>3. n.current_size \in Nat /\ i \in Nat /\ i - 1 \in Nat /\ i <= n.current_size
  BY SizeIs
<1>4. o \in AllDigits /\ o \in Present(n)
  BY <1>1, <1>2
<1>5. p \in Nat \ {0}
  <2>1. Child(n, o) # Null
    BY <1>4 DEF Present
  <2>2. Child(n, o) \in Nat
    BY <1>4, SlotIs DEF ArraysOK
  <2> QED
    BY <2>1, <2>2 DEF Null
<1>6. ArraysOK(m) /\ m.type = t /\ m.current_size = i - 1
      /\ \A e \in AllDigits : Child(m, e) = IF \E j \in 1 .. i - 1 : q[j] = e THEN Child(n, e) ELSE Null
  BY DEF CopiedUpTo
<1>7. CanInsert(m)
  <2>1. Capacity[t] \in Nat
    BY Parameters
  <2>2. i - 1 < Capacity[t]
    BY <1>3, <2>1
  <2> QED
    BY <1>6, <2>2 DEF CanInsert
<1> HIDE DEF q
<1>8. Child(m, o) = Null
  <2>1. ASSUME NEW j \in 1 .. i - 1, q[j] = o PROVE FALSE
    <3>1. j \in 1 .. Len(q) /\ i \in 1 .. Len(q) /\ j # i
      BY <1>1, <1>3
    <3> QED
      BY <1>2, <2>1, <3>1
  <2> QED
    BY <1>4, <1>6, <2>1
<1> HIDE DEF o, p
<1>9. /\ ArraysOK(x) /\ SameHeader(x, m) /\ x.current_size = i
      /\ \A e \in AllDigits : Child(x, e) = IF e = o THEN p ELSE Child(m, e)
  <2>1. /\ ArraysOK(x) /\ SameHeader(x, m)
        /\ x.current_size = m.current_size + (IF Child(m, o) = Null THEN 1 ELSE 0)
        /\ \A e \in AllDigits : Child(x, e) = IF e = o THEN p ELSE Child(m, e)
    BY <1>4, <1>5, <1>6, <1>7, NodeInsertIs
  <2> QED
    BY <1>3, <1>6, <1>8, <2>1
<1>10. ASSUME NEW e \in AllDigits
       PROVE  Child(x, e) = IF \E j \in 1 .. i : q[j] = e THEN Child(n, e) ELSE Null
  <2>1. \A j \in 1 .. i : j = i \/ j \in 1 .. i - 1
    BY <1>3
  <2>2. i \in 1 .. i /\ \A j \in 1 .. i - 1 : j \in 1 .. i
    BY <1>3
  <2>3. CASE e = o
    BY <1>9, <2>2, <2>3 DEF o, p
  <2>4. CASE e # o
    <3>1. (\E j \in 1 .. i : q[j] = e) <=> \E j \in 1 .. i - 1 : q[j] = e
      BY <2>1, <2>2, <2>4 DEF o
    <3> QED
      BY <1>6, <1>9, <2>4, <3>1
  <2> QED
    BY <2>3, <2>4
<1>11. x.type = t /\ x.leaf = n.leaf /\ x.depth = n.depth /\ x.key = n.key /\ x.fix_count = 0
  BY <1>9 DEF SameHeader, CopiedUpTo
<1>12. CopiedUpTo(x, n, t, i)
  BY <1>9, <1>10, <1>11 DEF CopiedUpTo, q
<1> QED
  BY <1>4, <1>5, <1>7, <1>12 DEF o, p, q

(* increase_node_size and decrease_node_size lose no entry. *)
LEMMA CopiedIs ==
  ASSUME NEW n, ArraysOK(n), NEW t \in 1 .. 4, n.current_size <= Capacity[t],
         NEW m, m = Copied(n, t)
  PROVE  /\ ArraysOK(m) /\ m.type = t /\ m.leaf = n.leaf /\ m.depth = n.depth /\ m.key = n.key
         /\ m.fix_count = 0 /\ m.current_size = n.current_size
         /\ \A e \in AllDigits : Child(m, e) = Child(n, e)
<1> DEFINE q == Order(n)
           z == n.current_size
           X == {x \in NodeRec : ArraysOK(x)}
           a == NewNode(t, n.leaf, n.depth, n.key)
           Next1(x, i) == NodeInsert(x, q[i], Child(n, q[i]))
           Is(f) == f = [i \in 0 .. z |-> IF i = 0 THEN a ELSE Next1(f[i - 1], i)]
           W == CHOOSE f : Is(f)
           g == [i \in 1 .. z |-> [x \in X |-> IF CopiedUpTo(x, n, t, i - 1) THEN Next1(x, i) ELSE x]]
<1>1. z \in Nat /\ Len(q) = z
  BY SizeIs, OrderIs
<1>2. m = W[z]
  <2>1. Copied(n, t) = (CHOOSE f : f = [i \in 0 .. Len(q) |->
                          IF i = 0 THEN a ELSE NodeInsert(f[i - 1], q[i], Child(n, q[i]))])[Len(q)]
    BY DEF Copied
  <2> QED
    BY <1>1, <2>1
<1>3. CopiedUpTo(a, n, t, 0)
  <2>1. n \in NodeRec
    BY DEF ArraysOK, Structure
  <2>2. n.leaf \in BOOLEAN /\ n.depth \in 1 .. Digits /\ n.key \in Nat
    BY <2>1 DEF NodeRec
  <2>3. /\ ArraysOK(a) /\ a.type = t /\ a.leaf = n.leaf /\ a.depth = n.depth /\ a.key = n.key
        /\ a.current_size = 0 /\ a.fix_count = 0 /\ \A e \in AllDigits : Child(a, e) = Null
    BY <2>2, NewNodeIs
  <2> HIDE DEF a
  <2>4. ~\E j \in 1 .. 0 : Order(n)[j] = Order(n)[j]
    OBVIOUS
  <2> QED
    BY <2>3, <2>4 DEF CopiedUpTo
<1>4. ASSUME NEW i \in 1 .. z, NEW x, CopiedUpTo(x, n, t, i - 1)
      PROVE  CopiedUpTo(Next1(x, i), n, t, i)
  BY <1>4, CopyOne
<1>5. \A x, i : CopiedUpTo(x, n, t, i) => x \in X
  BY DEF CopiedUpTo, ArraysOK, Structure
<1> HIDE DEF a, Next1, X
<1>6. g \in [1 .. z -> [X -> X]] /\ a \in X
  BY <1>3, <1>4, <1>5
<1>7. \A i \in 1 .. z : i - 1 \in 0 .. z /\ i - 1 \in 0 .. z - 1
  BY <1>1
<1>8. \E f : Is(f)
  <2> HIDE DEF g, z
  <2>1. PICK f \in [0 .. z -> X] : Steps(f, g, a, z)
    BY <1>1, <1>6, StepsExist
  <2>2. \A i \in 0 .. z : f[i] = IF i = 0 THEN a ELSE g[i][f[i - 1]]
    BY <2>1 DEF Steps
  <2>3. \A i \in 1 .. z : f[i - 1] \in X
    BY <1>7
  <2>4. \A i \in 1 .. z : f[i] = IF CopiedUpTo(f[i - 1], n, t, i - 1) THEN Next1(f[i - 1], i) ELSE f[i - 1]
    <3>1. \A i \in 1 .. z : i \in 0 .. z /\ i # 0
      BY <1>1
    <3> QED
      BY <2>2, <2>3, <3>1 DEF g
  <2> DEFINE S == {i \in 0 .. z : CopiedUpTo(f[i], n, t, i)}
  <2>5. 0 \in S
    BY <1>1, <1>3, <2>2
  <2>6. ASSUME NEW i \in 0 .. z - 1, i \in S PROVE i + 1 \in S
    <3> DEFINE j == i + 1
    <3>1. j \in 1 .. z /\ j \in 0 .. z /\ j - 1 = i
      BY <1>1
    <3> HIDE DEF j
    <3>2. CopiedUpTo(f[j - 1], n, t, j - 1)
      BY <2>6, <3>1
    <3>3. CopiedUpTo(f[j], n, t, j)
      BY <1>4, <2>4, <3>1, <3>2
    <3> QED
      BY <3>1, <3>3 DEF j
  <2> HIDE DEF S
  <2>7. \A i \in 0 .. z : i \in S
    BY <1>1, <2>5, <2>6, FromStepToStep
  <2>8. \A i \in 1 .. z : f[i] = Next1(f[i - 1], i)
    BY <1>7, <2>4, <2>7 DEF S
  <2>9. \A i \in 0 .. z : f[i] = IF i = 0 THEN a ELSE Next1(f[i - 1], i)
    <3>1. \A i \in 0 .. z : i = 0 \/ i \in 1 .. z
      BY <1>1
    <3> QED
      BY <2>2, <2>8, <3>1
  <2> QED
    BY <2>1, <2>9
<1>9. Is(W)
  BY <1>8
<1> HIDE DEF W
<1>10. \A i \in 0 .. z : W[i] = IF i = 0 THEN a ELSE Next1(W[i - 1], i)
  BY <1>9
<1> HIDE DEF Is, z
<1> DEFINE S == {i \in 0 .. z : CopiedUpTo(W[i], n, t, i)}
<1>11. 0 \in S
  BY <1>1, <1>3, <1>10
<1>12. ASSUME NEW i \in 0 .. z - 1, i \in S PROVE i + 1 \in S
  <2> DEFINE j == i + 1
  <2>1. j \in 1 .. z /\ j \in 0 .. z /\ j - 1 = i /\ j # 0
    BY <1>1
  <2> HIDE DEF j
  <2>2. CopiedUpTo(W[j - 1], n, t, j - 1) /\ W[j] = Next1(W[j - 1], j)
    BY <1>10, <1>12, <2>1
  <2>3. CopiedUpTo(W[j], n, t, j)
    BY <1>4, <2>1, <2>2
  <2> QED
    BY <2>1, <2>3 DEF j
<1> HIDE DEF S
<1>13. \A i \in 0 .. z : i \in S
  BY <1>1, <1>11, <1>12, FromStepToStep
<1>14. CopiedUpTo(m, n, t, z)
  BY <1>1, <1>2, <1>13 DEF S
<1>15. \A e \in AllDigits : Child(m, e) = Child(n, e)
  <2>1. RunsThrough(q, Present(n))
    BY OrderIs
  <2>2. ASSUME NEW e \in AllDigits PROVE (\E j \in 1 .. z : q[j] = e) <=> Child(n, e) # Null
    BY <1>1, <2>1 DEF RunsThrough, Present
  <2> QED
    BY <1>14, <2>2 DEF CopiedUpTo
<1> QED
  BY <1>14, <1>15 DEF CopiedUpTo, z

-----------------------------------------------------------------------------
(* Sums.  What goes on from subset to subset holds for all of them. *)
LEMMA FromSubsetToSubset ==
  ASSUME NEW S, IsFiniteSet(S), NEW G, {} \in G,
         \A T \in SUBSET S : T # {} /\ (\A x \in T : T \ {x} \in G) => T \in G
  PROVE  \A T \in SUBSET S : T \in G
<1> DEFINE N == {n \in Nat : \E T \in SUBSET S : T \notin G /\ Cardinality(T) = n}
<1>1. SUFFICES ASSUME NEW T0 \in SUBSET S, T0 \notin G PROVE FALSE
  OBVIOUS
<1>2. \A T \in SUBSET S : IsFiniteSet(T) /\ Cardinality(T) \in Nat
  BY FS_Subset, FS_CardinalityType
<1>3. N # {} /\ N \in SUBSET Nat
  BY <1>1, <1>2
<1>4. PICK n \in N : \A t \in N : n <= t
  <2> HIDE DEF N
  <2> QED
    BY <1>3, LeastNumber
<1>5. PICK T \in SUBSET S : T \notin G /\ Cardinality(T) = n
  BY <1>4
<1>6. T # {}
  BY <1>5
<1>7. PICK x \in T : T \ {x} \notin G
  BY <1>5, <1>6
<1>8. Cardinality(T \ {x}) = n - 1 /\ T \ {x} \in SUBSET S
  BY <1>2, <1>5, FS_RemoveElement
<1>9. n - 1 \in N
  BY <1>2, <1>7, <1>8
<1> QED
  BY <1>4, <1>9

(* A sum counts: it is the size of disjoint sets of the sizes to be added. *)
IsSum(f, v, S) ==
  f = [s \in SUBSET S |-> IF s = {} THEN 0
                          ELSE LET x == CHOOSE x \in s : TRUE IN v[x] + f[s \ {x}]]
All(F, s) == UNION {F[a] : a \in s}
Counted(F, v, S) ==
  /\ \A a \in S : IsFiniteSet(F[a]) /\ Cardinality(F[a]) = v[a] /\ v[a] \in Nat
  /\ \A a, b \in S : a # b => F[a] \cap F[b] = {}

(* Such sums exist, and are what they count. *)
LEMMA SumIs ==
  ASSUME NEW S, IsFiniteSet(S), NEW v, NEW F, Counted(F, v, S)
  PROVE  /\ IsFiniteSet(All(F, S)) /\ \E f : IsSum(f, v, S)
         /\ \A f : IsSum(f, v, S) => f[S] = Cardinality(All(F, S))
<1> DEFINE G == {T \in SUBSET S : IsFiniteSet(All(F, T))}
<1>1. \A T \in SUBSET S : IsFiniteSet(All(F, T)) /\ Cardinality(All(F, T)) \in Nat
  <2>1. {} \in G
    <3>1. All(F, {}) = {}
      BY DEF All
    <3> QED
      BY <3>1, FS_EmptySet
  <2>2. ASSUME NEW T \in SUBSET S, T # {}, \A x \in T : T \ {x} \in G PROVE T \in G
    <3>1. PICK x \in T : T \ {x} \in G
      BY <2>2
    <3>2. All(F, T) = All(F, T \ {x}) \cup F[x]
      BY DEF All
    <3>3. IsFiniteSet(F[x]) /\ IsFiniteSet(All(F, T \ {x}))
      BY <3>1 DEF Counted
    <3>4. IsFiniteSet(All(F, T))
      BY <3>2, <3>3, FS_Union
    <3> QED
      BY <3>4
  <2> HIDE DEF G
  <2>3. \A T \in SUBSET S : T \in G
    BY <2>1, <2>2, FromSubsetToSubset
  <2> QED
    BY <2>3, FS_CardinalityType DEF G
<1>2. ASSUME NEW T \in SUBSET S, NEW x \in T
      PROVE  Cardinality(All(F, T)) = v[x] + Cardinality(All(F, T \ {x}))
  <2> DEFINE A == All(F, T \ {x})
  <2>1. All(F, T) = A \cup F[x] /\ A \cap F[x] = {}
    BY DEF All, Counted
  <2>2. IsFiniteSet(A) /\ IsFiniteSet(F[x]) /\ Cardinality(F[x]) = v[x] /\ v[x] \in Nat
    BY <1>1 DEF Counted
  <2>3. Cardinality(A) \in Nat
    BY <1>1
  <2> HIDE DEF A
  <2>4. Cardinality(A \cup F[x]) = Cardinality(A) + Cardinality(F[x]) - Cardinality(A \cap F[x])
    BY <2>2, FS_Union
  <2>5. Cardinality(A \cap F[x]) = 0
    BY <2>1, FS_EmptySet
  <2>6. Cardinality(All(F, T)) = v[x] + Cardinality(A)
    BY <2>1, <2>2, <2>3, <2>4, <2>5
  <2> QED
    BY <2>6 DEF A
<1>3. Cardinality(All(F, {})) = 0
  <2>1. All(F, {}) = {}
    BY DEF All
  <2> QED
    BY <2>1, FS_EmptySet
<1>4. \E f : IsSum(f, v, S)
  <2> DEFINE c(s) == Cardinality(All(F, s))
             f == [s \in SUBSET S |-> c(s)]
  <2>1. ASSUME NEW s \in SUBSET S
        PROVE  c(s) = IF s = {} THEN 0 ELSE LET x == CHOOSE x \in s : TRUE IN v[x] + f[s \ {x}]
    <3>1. CASE s = {}
      BY <1>3, <3>1
    <3>2. CASE s # {}
      <4> DEFINE x == CHOOSE x \in s : TRUE
      <4>1. x \in s
        BY <3>2
      <4> HIDE DEF x
      <4>2. f[s \ {x}] = c(s \ {x})
        OBVIOUS
      <4>3. c(s) = v[x] + c(s \ {x})
        BY <1>2, <4>1
      <4> HIDE DEF c, f
      <4>4. c(s) = v[x] + f[s \ {x}]
        BY <4>2, <4>3
      <4> QED
        BY <3>2, <4>4 DEF x
    <3> QED
      BY <3>1, <3>2
  <2>2. f = [s \in SUBSET S |-> IF s = {} THEN 0 ELSE LET x == CHOOSE x \in s : TRUE IN v[x] + f[s \ {x}]]
    <3> DEFINE y(s) == IF s = {} THEN 0 ELSE LET x == CHOOSE x \in s : TRUE IN v[x] + f[s \ {x}]
    <3>1. \A s \in SUBSET S : c(s) = y(s)
      BY <2>1
    <3>2. f = [s \in SUBSET S |-> c(s)]
      OBVIOUS
    <3> HIDE DEF c, y, f
    <3>3. f = [s \in SUBSET S |-> y(s)]
      BY <3>1, <3>2
    <3> QED
      BY <3>3 DEF y
  <2> HIDE DEF f
  <2> QED
    BY <2>2 DEF IsSum
<1>5. ASSUME NEW f, IsSum(f, v, S) PROVE f[S] = Cardinality(All(F, S))
  <2> DEFINE H == {T \in SUBSET S : f[T] = Cardinality(All(F, T))}
  <2>1. \A s \in SUBSET S : f[s] = IF s = {} THEN 0
                            ELSE LET x == CHOOSE x \in s : TRUE IN v[x] + f[s \ {x}]
    BY <1>5 DEF IsSum
  <2>2. {} \in H
    BY <1>3, <2>1
  <2>3. ASSUME NEW T \in SUBSET S, T # {}, \A x \in T : T \ {x} \in H PROVE T \in H
    <3> DEFINE x == CHOOSE x \in T : TRUE
    <3>1. x \in T
      BY <2>3
    <3>2. f[T] = v[x] + f[T \ {x}]
      BY <2>1, <2>3
    <3> HIDE DEF x
    <3>3. f[T \ {x}] = Cardinality(All(F, T \ {x}))
      BY <2>3, <3>1
    <3>4. f[T] = Cardinality(All(F, T))
      BY <1>2, <3>1, <3>2, <3>3
    <3> QED
      BY <3>4
  <2> HIDE DEF H
  <2>4. \A T \in SUBSET S : T \in H
    BY <2>2, <2>3, FromSubsetToSubset
  <2> QED
    BY <2>4 DEF H
<1> QED
  BY <1>1, <1>4, <1>5

-----------------------------------------------------------------------------
(* Cells: frames and nodes. *)
IsNodeCell(x) == "leaf" \in DOMAIN x
CellOK(x) ==
  IF IsNodeCell(x) THEN ArraysOK(x) /\ (x.leaf <=> x.depth = Digits)
  ELSE x \in [page_id : CachedPages]
CellBytes(x) == IF IsNodeCell(x) THEN NodeSize[x.type] ELSE FrameSize
HeapOK(h) ==
  /\ IsFiniteSet(DOMAIN h) /\ DOMAIN h \subseteq Nat \ {0}
  /\ \A a \in DOMAIN h : CellOK(h[a])

(* What a node has. *)
LEMMA NodeIs ==
  ASSUME NEW x, ArraysOK(x)
  PROVE  /\ IsNodeCell(x) /\ x.type \in 1 .. 4 /\ x.leaf \in BOOLEAN /\ x.depth \in 1 .. Digits
         /\ x.key \in Nat /\ x.current_size \in Nat /\ CellBytes(x) = NodeSize[x.type]
         /\ x.fix_count \in Int /\ Structure(x)
         /\ \A e \in AllDigits : Child(x, e) \in Nat
<1>1. x \in NodeRec /\ Structure(x)
  BY DEF ArraysOK, Structure
<1>2. IsNodeCell(x)
  BY <1>1 DEF NodeRec, IsNodeCell
<1>3. \A e \in AllDigits : Child(x, e) \in Nat
  BY <1>1, SlotIs
<1> QED
  BY <1>1, <1>2, <1>3 DEF NodeRec, CellBytes

(* A frame is a cell. *)
LEMMA FrameIs ==
  ASSUME NEW p \in CachedPages
  PROVE  LET x == [page_id |-> p] IN ~IsNodeCell(x) /\ CellOK(x) /\ CellBytes(x) = FrameSize
BY DEF IsNodeCell, CellOK, CellBytes

(* A cell has a number of bytes. *)
LEMMA BytesAre ==
  ASSUME NEW x, CellOK(x)
  PROVE  CellBytes(x) \in Nat
<1>1. CASE IsNodeCell(x)
  BY <1>1, NodeIs, Parameters DEF CellOK
<1>2. CASE ~IsNodeCell(x)
  BY <1>2, Parameters DEF CellBytes
<1> QED
  BY <1>1, <1>2

(* The bytes of all cells, one by one. *)
BytesOf(h) == [a \in DOMAIN h |-> {a} \X (1 .. CellBytes(h[a]))]
Pile(h) == All(BytesOf(h), DOMAIN h)
Weight(h) == Cardinality(Pile(h))

(* Cells are apart, and so are their bytes. *)
LEMMA BytesAreCounted ==
  ASSUME NEW h, HeapOK(h)
  PROVE  Counted(BytesOf(h), [a \in DOMAIN h |-> CellBytes(h[a])], DOMAIN h)
<1>1. ASSUME NEW a \in DOMAIN h
      PROVE  /\ IsFiniteSet(BytesOf(h)[a]) /\ Cardinality(BytesOf(h)[a]) = CellBytes(h[a])
             /\ CellBytes(h[a]) \in Nat
  <2> DEFINE b == CellBytes(h[a])
  <2>1. b \in Nat
    BY BytesAre DEF HeapOK
  <2>2. BytesOf(h)[a] = {a} \X (1 .. b)
    BY DEF BytesOf
  <2> HIDE DEF b
  <2>3. IsFiniteSet({a}) /\ Cardinality({a}) = 1
    BY FS_Singleton
  <2>4. IsFiniteSet(1 .. b) /\ Cardinality(1 .. b) = b
    <3>1. 1 \in Int /\ b \in Int /\ (1 > b <=> b = 0) /\ b - 1 + 1 = b
      BY <2>1
    <3>2. IsFiniteSet(1 .. b) /\ Cardinality(1 .. b) = IF 1 > b THEN 0 ELSE b - 1 + 1
      BY <3>1, FS_Interval
    <3> QED
      BY <3>1, <3>2
  <2>5. IsFiniteSet({a} \X (1 .. b)) /\ Cardinality({a} \X (1 .. b)) = Cardinality({a}) * Cardinality(1 .. b)
    BY <2>3, <2>4, FS_Product
  <2>6. IsFiniteSet(BytesOf(h)[a]) /\ Cardinality(BytesOf(h)[a]) = b
    BY <2>1, <2>2, <2>3, <2>4, <2>5
  <2> QED
    BY <2>1, <2>6 DEF b
<1>2. ASSUME NEW a \in DOMAIN h, NEW b \in DOMAIN h, a # b
      PROVE  BytesOf(h)[a] \cap BytesOf(h)[b] = {}
  BY <1>2 DEF BytesOf
<1> QED
  BY <1>1, <1>2 DEF Counted

(* The size of all cells is a number. *)
LEMMA WeightIs ==
  ASSUME NEW h, HeapOK(h)
  PROVE  IsFiniteSet(Pile(h)) /\ Weight(h) \in Nat
<1> DEFINE v == [a \in DOMAIN h |-> CellBytes(h[a])]
<1>1. Counted(BytesOf(h), v, DOMAIN h) /\ IsFiniteSet(DOMAIN h)
  BY BytesAreCounted DEF HeapOK
<1> HIDE DEF v
<1>2. IsFiniteSet(Pile(h))
  BY <1>1, SumIs DEF Pile
<1> QED
  BY <1>2, FS_CardinalityType DEF Weight

(* A cell more adds its bytes. *)
LEMMA WeightWith ==
  ASSUME NEW h, HeapOK(h), NEW a, a \notin DOMAIN h, NEW x, CellOK(x),
         NEW h2, DOMAIN h2 = DOMAIN h \cup {a}, h2[a] = x, \A b \in DOMAIN h : h2[b] = h[b]
  PROVE  Weight(h2) = Weight(h) + CellBytes(x)
<1> DEFINE B == {a} \X (1 .. CellBytes(x))
<1>1. IsFiniteSet(B) /\ Cardinality(B) = CellBytes(x) /\ CellBytes(x) \in Nat
  <2>1. CellBytes(x) \in Nat
    BY BytesAre
  <2> DEFINE b == CellBytes(x)
  <2> HIDE DEF b
  <2>2. IsFiniteSet({a}) /\ Cardinality({a}) = 1
    BY FS_Singleton
  <2>3. IsFiniteSet(1 .. b) /\ Cardinality(1 .. b) = b
    <3>1. 1 \in Int /\ b \in Int /\ (1 > b <=> b = 0) /\ b - 1 + 1 = b
      BY <2>1 DEF b
    <3>2. IsFiniteSet(1 .. b) /\ Cardinality(1 .. b) = IF 1 > b THEN 0 ELSE b - 1 + 1
      BY <3>1, FS_Interval
    <3> QED
      BY <3>1, <3>2
  <2>4. IsFiniteSet({a} \X (1 .. b)) /\ Cardinality({a} \X (1 .. b)) = Cardinality({a}) * Cardinality(1 .. b)
    BY <2>2, <2>3, FS_Product
  <2>5. b \in Nat
    BY <2>1 DEF b
  <2>6. IsFiniteSet({a} \X (1 .. b)) /\ Cardinality({a} \X (1 .. b)) = b
    BY <2>2, <2>3, <2>4, <2>5
  <2> QED
    BY <2>1, <2>6 DEF b
<1>2. Pile(h2) = Pile(h) \cup B
  <2>1. \A b \in DOMAIN h : BytesOf(h2)[b] = BytesOf(h)[b]
    BY DEF BytesOf
  <2>2. BytesOf(h2)[a] = B
    BY DEF BytesOf
  <2> HIDE DEF B
  <2> QED
    BY <2>1, <2>2 DEF Pile, All
<1>3. Pile(h) \cap B = {}
  BY DEF Pile, All, BytesOf
<1>4. IsFiniteSet(Pile(h)) /\ Cardinality(Pile(h)) \in Nat
  BY WeightIs DEF Weight
<1> HIDE DEF B
<1>5. Cardinality(Pile(h) \cup B) = Cardinality(Pile(h)) + Cardinality(B) - Cardinality(Pile(h) \cap B)
  BY <1>1, <1>4, FS_Union
<1>6. Cardinality(Pile(h) \cap B) = 0
  BY <1>3, FS_EmptySet
<1> QED
  BY <1>1, <1>2, <1>4, <1>5, <1>6 DEF Weight

(* Cells of the same sizes have the same size in all. *)
LEMMA WeightSame ==
  ASSUME NEW h, NEW h2, DOMAIN h2 = DOMAIN h,
         \A a \in DOMAIN h : CellBytes(h2[a]) = CellBytes(h[a])
  PROVE  Weight(h2) = Weight(h)
<1>1. BytesOf(h2) = BytesOf(h)
  BY DEF BytesOf
<1> QED
  BY <1>1 DEF Weight, Pile

(* The links.  Those of V are dead: what they lead to was cut off or is    *)
(* gone.  A leaf leads to frames, an inner node to nodes further down that *)
(* have its digits up to its depth, and the digit of the link there.       *)
Leads(h, V, a, d, c) ==
  /\ a \in DOMAIN h /\ IsNodeCell(h[a]) /\ d \in AllDigits /\ <<a, d>> \notin V
  /\ Child(h[a], d) = c /\ c # Null
LinkOK(h, c, a, d) ==
  /\ c \in DOMAIN h
  /\ h[a].leaf => ~IsNodeCell(h[c])
  /\ ~h[a].leaf => /\ IsNodeCell(h[c]) /\ h[a].depth < h[c].depth
                   /\ Digit(h[c].key, h[a].depth) = d
                   /\ Agree(h[a].key, h[c].key, h[a].depth - 1)

(* The cells form trees with the roots R.                                  *)
LinksOK(h, R, V) == \A a, d, c : Leads(h, V, a, d, c) => LinkOK(h, c, a, d) /\ c \notin R
OneLink(h, V) ==
  \A a, d, b, e, c : Leads(h, V, a, d, c) /\ Leads(h, V, b, e, c) => a = b /\ d = e
Held(h, R, V) == \A c \in DOMAIN h \ R : \E a, d : Leads(h, V, a, d, c)
Shape(h, R, V) ==
  /\ HeapOK(h) /\ R \subseteq DOMAIN h /\ V \subseteq (DOMAIN h) \X AllDigits
  /\ LinksOK(h, R, V) /\ OneLink(h, V) /\ Held(h, R, V)

(* Fixed are the nodes of F, more than one child have all nodes but those  *)
(* of E and the leaves, and the account is w off.                          *)
Fixes(h, F) ==
  F \subseteq DOMAIN h /\ \A a \in DOMAIN h : IsNodeCell(h[a]) => h[a].fix_count = IF a \in F THEN 1 ELSE 0
Thick(h, E) ==
  \A a \in DOMAIN h \ E : IsNodeCell(h[a]) => h[a].leaf \/ h[a].current_size > 1
AccountOK(m, w) ==
  /\ m = [heap |-> m.heap, current_size |-> m.current_size]
  /\ m.heap = [a \in DOMAIN m.heap |-> m.heap[a]]
  /\ w \in Int /\ m.current_size = Weight(m.heap) + w
Good(m, R, V, F, E, w) ==
  Shape(m.heap, R, V) /\ Fixes(m.heap, F) /\ Thick(m.heap, E) /\ AccountOK(m, w)

(* A node is replaced by one of the same header. *)
LEMMA StoreIs ==
  ASSUME NEW m, NEW w, HeapOK(m.heap), AccountOK(m, w), NEW a \in DOMAIN m.heap, NEW x,
         NEW m2, m2 = Store(m, a, x)
  PROVE  /\ DOMAIN m2.heap = DOMAIN m.heap /\ m2.heap[a] = x
         /\ \A b \in DOMAIN m.heap : b # a => m2.heap[b] = m.heap[b]
         /\ m2.current_size = m.current_size
         /\ m2 = [heap |-> m2.heap, current_size |-> m2.current_size]
         /\ CellOK(x) => HeapOK(m2.heap)
         /\ CellBytes(x) = CellBytes(m.heap[a]) => AccountOK(m2, w)
<1> DEFINE h == m.heap
           s == m.current_size
           h2 == [h EXCEPT ![a] = x]
<1>1. m = [heap |-> h, current_size |-> s] /\ w \in Int /\ s = Weight(h) + w
      /\ h = [b \in DOMAIN h |-> h[b]]
  BY DEF AccountOK
<1>2. m2 = [heap |-> h2, current_size |-> s]
  <2>1. m2 = [m EXCEPT !.heap[a] = x]
    BY DEF Store
  <2> QED
    BY <1>1, <2>1
<1>3. DOMAIN h2 = DOMAIN h /\ h2[a] = x /\ (\A b \in DOMAIN h : b # a => h2[b] = h[b])
      /\ h2 = [b \in DOMAIN h2 |-> h2[b]]
  OBVIOUS
<1> HIDE DEF h2, s
<1>4. m2.heap = h2 /\ m2.current_size = s
  BY <1>2
<1> HIDE DEF h
<1>5. CellOK(x) => HeapOK(h2)
  BY <1>3 DEF HeapOK, h
<1>6. CellBytes(x) = CellBytes(h[a]) => Weight(h2) = Weight(h)
  <2>1. ASSUME CellBytes(x) = CellBytes(h[a]), NEW b \in DOMAIN h PROVE CellBytes(h2[b]) = CellBytes(h[b])
    BY <1>3, <2>1
  <2> QED
    BY <1>3, <2>1, WeightSame
<1> QED
  BY <1>1, <1>2, <1>3, <1>4, <1>5, <1>6 DEF AccountOK, h, s

SameNode(x, n) == x.type = n.type /\ x.leaf = n.leaf /\ x.depth = n.depth /\ x.key = n.key
LEMMA HeaderIsKept ==
  ASSUME NEW h, HeapOK(h), NEW h2, NEW a \in DOMAIN h, DOMAIN h2 = DOMAIN h,
         IsNodeCell(h[a]), ArraysOK(h2[a]), SameNode(h2[a], h[a]),
         \A b \in DOMAIN h : b # a => h2[b] = h[b]
  PROVE  /\ CellOK(h2[a]) /\ CellBytes(h2[a]) = CellBytes(h[a]) /\ IsNodeCell(h2[a])
         /\ \A c, d : \A b \in DOMAIN h : LinkOK(h2, c, b, d) <=> LinkOK(h, c, b, d)
         /\ \A V, b, d, c : b # a => (Leads(h2, V, b, d, c) <=> Leads(h, V, b, d, c))
<1>1. IsNodeCell(h2[a]) /\ CellBytes(h2[a]) = NodeSize[h2[a].type]
  BY NodeIs
<1>2. CellOK(h2[a]) /\ CellBytes(h2[a]) = CellBytes(h[a])
  BY <1>1 DEF HeapOK, CellOK, CellBytes, SameNode
<1>3. \A b \in DOMAIN h : /\ IsNodeCell(h2[b]) <=> IsNodeCell(h[b])
                          /\ h2[b].leaf = h[b].leaf /\ h2[b].depth = h[b].depth /\ h2[b].key = h[b].key
  BY <1>1 DEF SameNode
<1>4. ASSUME NEW c, NEW d, NEW b \in DOMAIN h PROVE LinkOK(h2, c, b, d) <=> LinkOK(h, c, b, d)
  BY <1>3 DEF LinkOK
<1>5. ASSUME NEW V, NEW b, NEW d, NEW c, b # a PROVE Leads(h2, V, b, d, c) <=> Leads(h, V, b, d, c)
  BY <1>5 DEF Leads
<1> QED
  BY <1>1, <1>2, <1>4, <1>5

(* A link is cut: what it led to is a root. *)
LEMMA Cut ==
  ASSUME NEW m, NEW R, NEW V, NEW F, NEW E, NEW w, Good(m, R, V, F, E, w),
         NEW a, NEW d, NEW c, Leads(m.heap, V, a, d, c)
  PROVE  /\ Good(m, R \cup {c}, V \cup {<<a, d>>}, F, E, w)
         /\ c \in DOMAIN m.heap /\ LinkOK(m.heap, c, a, d) /\ c \notin R
<1> DEFINE h == m.heap
           R2 == R \cup {c}
           V2 == V \cup {<<a, d>>}
<1>1. Shape(h, R, V) /\ LinksOK(h, R, V) /\ OneLink(h, V) /\ Held(h, R, V)
  BY DEF Good, Shape
<1>2. LinkOK(h, c, a, d) /\ c \notin R /\ c \in DOMAIN h
  BY <1>1 DEF LinksOK, LinkOK
<1>3. a \in DOMAIN h /\ d \in AllDigits
  BY DEF Leads
<1> HIDE DEF h
<1>4. \A b, e, x : Leads(h, V2, b, e, x) <=> Leads(h, V, b, e, x) /\ ~(b = a /\ e = d)
  BY DEF Leads
<1>5. LinksOK(h, R2, V2)
  <2>1. ASSUME NEW b, NEW e, NEW x, Leads(h, V2, b, e, x) PROVE LinkOK(h, x, b, e) /\ x \notin R2
    <3>1. Leads(h, V, b, e, x) /\ ~(b = a /\ e = d)
      BY <1>4, <2>1
    <3>2. x # c
      BY <1>1, <3>1 DEF OneLink, h
    <3> QED
      BY <1>1, <3>1, <3>2 DEF LinksOK
  <2> QED
    BY <2>1 DEF LinksOK
<1>6. OneLink(h, V2)
  BY <1>1, <1>4 DEF OneLink
<1>7. Held(h, R2, V2)
  <2>1. ASSUME NEW x \in DOMAIN h \ R2 PROVE \E b, e : Leads(h, V2, b, e, x)
    <3>1. PICK b, e : Leads(h, V, b, e, x)
      BY <1>1 DEF Held
    <3>2. ~(b = a /\ e = d)
      BY <3>1 DEF Leads, h
    <3> QED
      BY <1>4, <3>1, <3>2
  <2> QED
    BY <2>1 DEF Held
<1>8. Shape(h, R2, V2)
  BY <1>1, <1>2, <1>3, <1>5, <1>6, <1>7 DEF Shape
<1> QED
  BY <1>2, <1>8 DEF Good, h

(* Cells that lead to the same cells have the same shape. *)
LEMMA ShapeIsKept ==
  ASSUME NEW h, NEW R, NEW V, Shape(h, R, V), NEW h2, HeapOK(h2), DOMAIN h2 = DOMAIN h,
         NEW V2, V2 \subseteq V,
         \A a, d, c : Leads(h2, V2, a, d, c) <=> Leads(h, V, a, d, c),
         \A c, d : \A b \in DOMAIN h : LinkOK(h2, c, b, d) <=> LinkOK(h, c, b, d)
  PROVE  Shape(h2, R, V2)
<1>1. LinksOK(h2, R, V2)
  <2>1. ASSUME NEW a, NEW d, NEW c, Leads(h2, V2, a, d, c) PROVE LinkOK(h2, c, a, d) /\ c \notin R
    <3>1. Leads(h, V, a, d, c) /\ a \in DOMAIN h
      BY <2>1 DEF Leads
    <3>2. LinkOK(h, c, a, d) /\ c \notin R
      BY <3>1 DEF Shape, LinksOK
    <3> QED
      BY <3>1, <3>2
  <2> QED
    BY <2>1 DEF LinksOK
<1>2. OneLink(h2, V2)
  BY DEF Shape, OneLink
<1>3. Held(h2, R, V2)
  BY DEF Shape, Held
<1>4. R \subseteq DOMAIN h2 /\ V2 \subseteq (DOMAIN h2) \X AllDigits
  BY DEF Shape
<1> QED
  BY <1>1, <1>2, <1>3, <1>4 DEF Shape

(* insert of a pointer to a root: it is one no more.  The digit has no     *)
(* child, or one that was cut off.  The rest stays as it is.               *)
MayTake(h, V, a, d) ==
  \/ Child(h[a], d) = Null /\ CanInsert(h[a])
  \/ Child(h[a], d) # Null /\ <<a, d>> \in V
Linked(m2, m, a, d, p) ==
  /\ DOMAIN m2.heap = DOMAIN m.heap /\ m2.current_size = m.current_size
  /\ \A b \in DOMAIN m.heap : b # a => m2.heap[b] = m.heap[b]
  /\ ArraysOK(m2.heap[a]) /\ SameHeader(m2.heap[a], m.heap[a]) /\ IsNodeCell(m2.heap[a])
  /\ m2.heap[a].current_size =
       m.heap[a].current_size + (IF Child(m.heap[a], d) = Null THEN 1 ELSE 0)
  /\ \A e \in AllDigits : Child(m2.heap[a], e) = IF e = d THEN p ELSE Child(m.heap[a], e)

(* A pointer to a root makes it a child. *)
LEMMA Link ==
  ASSUME NEW m, NEW R, NEW V, NEW F, NEW E, NEW w, Good(m, R, V, F, E, w),
         NEW a \in DOMAIN m.heap, IsNodeCell(m.heap[a]), NEW d \in AllDigits, NEW p \in R,
         LinkOK(m.heap, p, a, d), MayTake(m.heap, V, a, d), NEW m2, m2 = PutChild(m, a, d, p)
  PROVE  Good(m2, R \ {p}, V \ {<<a, d>>}, F, E, w) /\ Linked(m2, m, a, d, p)
<1> DEFINE h == m.heap
           h2 == m2.heap
           n == h[a]
           x == NodeInsert(n, d, p)
           R2 == R \ {p}
           V2 == V \ {<<a, d>>}
<1>1. /\ Shape(h, R, V) /\ LinksOK(h, R, V) /\ OneLink(h, V) /\ Held(h, R, V) /\ HeapOK(h)
      /\ Fixes(h, F) /\ Thick(h, E) /\ AccountOK(m, w)
      /\ R \subseteq DOMAIN h /\ DOMAIN h \subseteq Nat \ {0} /\ V \subseteq (DOMAIN h) \X AllDigits
  BY DEF Good, Shape, HeapOK
<1>2. ArraysOK(n) /\ p \in Nat \ {0} /\ (Child(n, d) = Null => CanInsert(n)) /\ p # Null
  BY <1>1 DEF HeapOK, CellOK, Null, MayTake
<1>3. /\ ArraysOK(x) /\ SameHeader(x, n)
      /\ x.current_size = n.current_size + (IF Child(n, d) = Null THEN 1 ELSE 0)
      /\ \A e \in AllDigits : Child(x, e) = IF e = d THEN p ELSE Child(n, e)
  <2> HIDE DEF n
  <2> QED
    BY <1>2, NodeInsertIs
<1>4. m2 = Store(m, a, x)
  BY DEF PutChild
<1> HIDE DEF x
<1>5. /\ DOMAIN h2 = DOMAIN h /\ h2[a] = x /\ \A b \in DOMAIN h : b # a => h2[b] = h[b]
      /\ m2.current_size = m.current_size
      /\ CellOK(x) => HeapOK(h2)
      /\ CellBytes(x) = CellBytes(n) => AccountOK(m2, w)
  BY <1>1, <1>4, StoreIs
<1> HIDE DEF h, h2
<1>6. /\ CellOK(x) /\ CellBytes(x) = CellBytes(n) /\ IsNodeCell(x)
      /\ \A c, e : \A b \in DOMAIN h : LinkOK(h2, c, b, e) <=> LinkOK(h, c, b, e)
      /\ \A W, b, e, c : b # a => (Leads(h2, W, b, e, c) <=> Leads(h, W, b, e, c))
  <2>1. SameNode(x, n)
    BY <1>3 DEF SameHeader, SameNode
  <2> QED
    BY <1>1, <1>3, <1>5, <2>1, HeaderIsKept DEF h
<1>7. ~\E c : Leads(h, V, a, d, c)
  BY DEF Leads, MayTake, h
<1>8. \A b, e, c : Leads(h2, V2, b, e, c) <=> IF b = a /\ e = d THEN c = p ELSE Leads(h, V, b, e, c)
  <2>1. ASSUME NEW b, NEW e, NEW c, b # a PROVE Leads(h2, V2, b, e, c) <=> Leads(h, V, b, e, c)
    <3>1. Leads(h2, V2, b, e, c) <=> Leads(h, V2, b, e, c)
      BY <1>6, <2>1
    <3>2. Leads(h, V2, b, e, c) <=> Leads(h, V, b, e, c)
      BY <2>1 DEF Leads
    <3> QED
      BY <3>1, <3>2
  <2>2. ASSUME NEW e, NEW c, e # d PROVE Leads(h2, V2, a, e, c) <=> Leads(h, V, a, e, c)
    BY <1>3, <1>5, <1>6, <2>2 DEF Leads, h
  <2>3. ASSUME NEW c PROVE Leads(h2, V2, a, d, c) <=> c = p
    BY <1>2, <1>3, <1>5, <1>6 DEF Leads, h
  <2> QED
    BY <2>1, <2>2, <2>3
<1>9. a \in DOMAIN h /\ LinkOK(h, p, a, d)
  BY DEF h
<1>10. LinksOK(h2, R2, V2)
  <2>1. ASSUME NEW b, NEW e, NEW c, Leads(h2, V2, b, e, c) PROVE LinkOK(h2, c, b, e) /\ c \notin R2
    <3>1. CASE b = a /\ e = d
      BY <1>6, <1>8, <1>9, <2>1, <3>1
    <3>2. CASE ~(b = a /\ e = d)
      <4>1. Leads(h, V, b, e, c) /\ b \in DOMAIN h
        BY <1>8, <2>1, <3>2 DEF Leads
      <4> QED
        BY <1>1, <1>6, <4>1 DEF LinksOK
    <3> QED
      BY <3>1, <3>2
  <2> QED
    BY <2>1 DEF LinksOK
<1>11. OneLink(h2, V2)
  <2>1. \A b, e : ~Leads(h, V, b, e, p)
    BY <1>1 DEF LinksOK
  <2> QED
    BY <1>1, <1>8, <2>1 DEF OneLink
<1>12. Held(h2, R2, V2)
  <2>1. ASSUME NEW c \in DOMAIN h2 \ R2 PROVE \E b, e : Leads(h2, V2, b, e, c)
    <3>1. CASE c = p
      BY <1>8, <3>1
    <3>2. CASE c # p
      <4>1. PICK b, e : Leads(h, V, b, e, c)
        BY <1>1, <1>5, <2>1, <3>2 DEF Held
      <4>2. ~(b = a /\ e = d)
        BY <1>7, <4>1
      <4> QED
        BY <1>8, <4>1, <4>2
    <3> QED
      BY <3>1, <3>2
  <2> QED
    BY <2>1 DEF Held
<1>13. Shape(h2, R2, V2)
  BY <1>1, <1>5, <1>6, <1>10, <1>11, <1>12 DEF Shape
<1>14. Fixes(h2, F)
  <2>1. x.fix_count = n.fix_count /\ IsNodeCell(n)
    BY <1>3 DEF SameHeader, h
  <2>2. n.fix_count = IF a \in F THEN 1 ELSE 0
    BY <1>1, <1>9, <2>1 DEF Fixes
  <2> QED
    BY <1>1, <1>5, <2>1, <2>2 DEF Fixes
<1>15. Thick(h2, E)
  <2>1. n.current_size \in Nat
    BY <1>2, NodeIs
  <2>2. n.current_size > 1 => x.current_size > 1
    BY <1>3, <2>1
  <2>3. ASSUME NEW b \in DOMAIN h2 \ E, IsNodeCell(h2[b]) PROVE h2[b].leaf \/ h2[b].current_size > 1
    <3>1. CASE b = a
      BY <1>1, <1>3, <1>5, <2>2, <2>3, <3>1 DEF Thick, SameHeader, h
    <3>2. CASE b # a
      BY <1>1, <1>5, <2>3, <3>2 DEF Thick
    <3> QED
      BY <3>1, <3>2
  <2> QED
    BY <2>3 DEF Thick
<1>16. Good(m2, R2, V2, F, E, w)
  BY <1>5, <1>6, <1>13, <1>14, <1>15 DEF Good, h2
<1> QED
  BY <1>3, <1>5, <1>6, <1>16 DEF Linked, h, h2

(* The two cases: a first child of the digit, and one in place of another. *)
LEMMA LinkFirst ==
  ASSUME NEW m, NEW R, NEW F, NEW E, NEW w, Good(m, R, {}, F, E, w),
         NEW a \in DOMAIN m.heap, IsNodeCell(m.heap[a]), NEW d \in AllDigits, NEW p \in R,
         LinkOK(m.heap, p, a, d), Child(m.heap[a], d) = Null, CanInsert(m.heap[a]),
         NEW m2, m2 = PutChild(m, a, d, p)
  PROVE  Good(m2, R \ {p}, {}, F, E, w) /\ Linked(m2, m, a, d, p)
<1> DEFINE V == {}
<1>1. MayTake(m.heap, V, a, d) /\ Good(m, R, V, F, E, w)
  BY DEF MayTake
<1>2. V \ {<<a, d>>} = {}
  OBVIOUS
<1> HIDE DEF V
<1>3. Good(m2, R \ {p}, V \ {<<a, d>>}, F, E, w) /\ Linked(m2, m, a, d, p)
  BY <1>1, Link
<1> QED
  BY <1>2, <1>3

(* A pointer to what was cut off is replaced. *)
LEMMA LinkAgain ==
  ASSUME NEW m, NEW R, NEW F, NEW E, NEW w, NEW a \in DOMAIN m.heap, NEW d \in AllDigits,
         Good(m, R, {<<a, d>>}, F, E, w), IsNodeCell(m.heap[a]), NEW p \in R,
         LinkOK(m.heap, p, a, d), Child(m.heap[a], d) # Null,
         NEW m2, m2 = PutChild(m, a, d, p)
  PROVE  Good(m2, R \ {p}, {}, F, E, w) /\ Linked(m2, m, a, d, p)
<1> DEFINE V == {<<a, d>>}
<1>1. MayTake(m.heap, V, a, d) /\ Good(m, R, V, F, E, w)
  BY DEF MayTake
<1>2. V \ {<<a, d>>} = {}
  OBVIOUS
<1> HIDE DEF V
<1>3. Good(m2, R \ {p}, V \ {<<a, d>>}, F, E, w) /\ Linked(m2, m, a, d, p)
  BY <1>1, Link
<1> QED
  BY <1>2, <1>3

(* node_delete of a child that was cut off. *)
Cleared(m2, m, a, d) ==
  /\ DOMAIN m2.heap = DOMAIN m.heap /\ m2.current_size = m.current_size
  /\ \A b \in DOMAIN m.heap : b # a => m2.heap[b] = m.heap[b]
  /\ ArraysOK(m2.heap[a]) /\ SameHeader(m2.heap[a], m.heap[a]) /\ IsNodeCell(m2.heap[a])
  /\ m2.heap[a].current_size = m.heap[a].current_size - 1
  /\ \A e \in AllDigits : Child(m2.heap[a], e) = IF e = d THEN Null ELSE Child(m.heap[a], e)

(* A pointer to what was cut off is deleted. *)
LEMMA Clear ==
  ASSUME NEW m, NEW R, NEW V, NEW F, NEW E, NEW w, Good(m, R, V, F, E, w),
         NEW a \in DOMAIN m.heap, IsNodeCell(m.heap[a]), NEW d \in AllDigits,
         Child(m.heap[a], d) # Null, <<a, d>> \in V,
         NEW m2, m2 = Store(m, a, NodeDelete(m.heap[a], d))
  PROVE  Good(m2, R, V \ {<<a, d>>}, F, E \cup {a}, w) /\ Cleared(m2, m, a, d)
<1> DEFINE h == m.heap
           h2 == m2.heap
           n == h[a]
           x == NodeDelete(n, d)
           V2 == V \ {<<a, d>>}
<1>1. /\ Shape(h, R, V) /\ HeapOK(h) /\ Fixes(h, F) /\ Thick(h, E) /\ AccountOK(m, w)
  BY DEF Good, Shape
<1>2. ArraysOK(n)
  BY <1>1 DEF HeapOK, CellOK
<1>3. /\ ArraysOK(x) /\ SameHeader(x, n) /\ x.current_size = n.current_size - 1
      /\ \A e \in AllDigits : Child(x, e) = IF e = d THEN Null ELSE Child(n, e)
  <2> HIDE DEF n
  <2> QED
    BY <1>2, NodeDeleteIs DEF n
<1>4. m2 = Store(m, a, x)
  OBVIOUS
<1> HIDE DEF x
<1>5. /\ DOMAIN h2 = DOMAIN h /\ h2[a] = x /\ \A b \in DOMAIN h : b # a => h2[b] = h[b]
      /\ m2.current_size = m.current_size
      /\ CellOK(x) => HeapOK(h2)
      /\ CellBytes(x) = CellBytes(n) => AccountOK(m2, w)
  BY <1>1, <1>4, StoreIs
<1> HIDE DEF h, h2
<1>6. /\ CellOK(x) /\ CellBytes(x) = CellBytes(n) /\ IsNodeCell(x)
      /\ \A c, e : \A b \in DOMAIN h : LinkOK(h2, c, b, e) <=> LinkOK(h, c, b, e)
      /\ \A W, b, e, c : b # a => (Leads(h2, W, b, e, c) <=> Leads(h, W, b, e, c))
  <2>1. SameNode(x, n)
    BY <1>3 DEF SameHeader, SameNode
  <2> QED
    BY <1>1, <1>3, <1>5, <2>1, HeaderIsKept DEF h
<1>7. \A b, e, c : Leads(h2, V2, b, e, c) <=> Leads(h, V, b, e, c)
  <2>1. ASSUME NEW b, NEW e, NEW c, b # a PROVE Leads(h2, V2, b, e, c) <=> Leads(h, V, b, e, c)
    <3>1. Leads(h2, V2, b, e, c) <=> Leads(h, V2, b, e, c)
      BY <1>6, <2>1
    <3>2. Leads(h, V2, b, e, c) <=> Leads(h, V, b, e, c)
      BY <2>1 DEF Leads
    <3> QED
      BY <3>1, <3>2
  <2>2. ASSUME NEW e, NEW c, e # d PROVE Leads(h2, V2, a, e, c) <=> Leads(h, V, a, e, c)
    BY <1>3, <1>5, <1>6, <2>2 DEF Leads, h
  <2>3. ASSUME NEW c PROVE ~Leads(h2, V2, a, d, c) /\ ~Leads(h, V, a, d, c)
    BY <1>3, <1>5 DEF Leads, h
  <2> QED
    BY <2>1, <2>2, <2>3
<1>8. Shape(h2, R, V2)
  <2>1. V2 \subseteq V /\ HeapOK(h2)
    BY <1>5, <1>6
  <2> HIDE DEF V2
  <2> QED
    BY <1>1, <1>5, <1>6, <1>7, <2>1, ShapeIsKept
<1>9. Fixes(h2, F)
  BY <1>1, <1>3, <1>5, <1>6 DEF Fixes, SameHeader, h
<1>10. Thick(h2, E \cup {a})
  BY <1>1, <1>5 DEF Thick
<1>11. Good(m2, R, V2, F, E \cup {a}, w)
  BY <1>5, <1>6, <1>8, <1>9, <1>10 DEF Good, h2
<1> QED
  BY <1>3, <1>5, <1>6, <1>11 DEF Cleared, h, h2

(* malloc hands out an address that is free. *)
LEMMA FreshIs ==
  ASSUME NEW m, HeapOK(m.heap)
  PROVE  Fresh(m) \in Nat \ {0} /\ Fresh(m) \notin DOMAIN m.heap
<1> DEFINE D == DOMAIN m.heap
           k == Cardinality(D)
           T == {a \in 1 .. k + 1 : a \notin D}
           Is(a) == a \notin D /\ \A b \in 1 .. a - 1 : b \in D
<1>1. IsFiniteSet(D) /\ k \in Nat
  BY FS_CardinalityType DEF HeapOK
<1>2. Fresh(m) = CHOOSE a \in 1 .. k + 1 : Is(a)
  BY DEF Fresh
<1> HIDE DEF D
<1>3. T # {} /\ T \in SUBSET Nat
  <2>1. SUFFICES ASSUME T = {} PROVE FALSE
    BY <1>1
  <2>2. 1 .. k + 1 \in SUBSET D
    BY <2>1
  <2>3. Cardinality(1 .. k + 1) <= k
    BY <1>1, <2>2, FS_Subset
  <2> HIDE DEF k
  <2>4. Cardinality(1 .. k + 1) = k + 1
    <3>1. 1 \in Int /\ k + 1 \in Int /\ ~(1 > k + 1) /\ (k + 1) - 1 + 1 = k + 1
      BY <1>1
    <3>2. Cardinality(1 .. k + 1) = IF 1 > k + 1 THEN 0 ELSE (k + 1) - 1 + 1
      BY <3>1, FS_Interval
    <3> QED
      BY <3>1, <3>2
  <2> QED
    BY <1>1, <2>3, <2>4
<1> HIDE DEF k
<1>4. PICK a \in T : \A t \in T : a <= t
  <2> HIDE DEF T
  <2> QED
    BY <1>3, LeastNumber
<1>5. ASSUME NEW b \in 1 .. a - 1 PROVE b \in D
  <2>1. a \in 1 .. k + 1 /\ b \in 1 .. k + 1 /\ ~(a <= b)
    BY <1>1, <1>4
  <2> QED
    BY <1>4, <2>1
<1>6. a \in 1 .. k + 1 /\ Is(a)
  BY <1>4, <1>5
<1>7. Fresh(m) \in 1 .. k + 1 /\ Is(Fresh(m))
  <2> HIDE DEF Is
  <2> QED
    BY <1>2, <1>6
<1> QED
  BY <1>1, <1>7 DEF D

(* malloc of a cell without children: another root. *)
IsNew(x) == IsNodeCell(x) => x.fix_count = 0 /\ \A e \in AllDigits : Child(x, e) = Null
Added(m2, m, f, x) ==
  /\ f \in Nat \ {0} /\ f \notin DOMAIN m.heap /\ DOMAIN m2.heap = DOMAIN m.heap \cup {f}
  /\ m2.heap[f] = x /\ \A b \in DOMAIN m.heap : m2.heap[b] = m.heap[b]

(* malloc: a new cell is a root, and not yet in the account. *)
LEMMA New ==
  ASSUME NEW m, NEW R, NEW V, NEW F, NEW E, NEW w, Good(m, R, V, F, E, w),
         NEW x, CellOK(x), IsNew(x), NEW m2, m2 = Malloc(m, x), NEW f, f = Fresh(m),
         NEW w2, w2 = w - CellBytes(x)
  PROVE  Good(m2, R \cup {f}, V, F, E \cup {f}, w2) /\ Added(m2, m, f, x)
<1> DEFINE h == m.heap
           h2 == m2.heap
           D == DOMAIN h
           R2 == R \cup {f}
<1>1. /\ Shape(h, R, V) /\ LinksOK(h, R, V) /\ OneLink(h, V) /\ Held(h, R, V) /\ HeapOK(h)
      /\ Fixes(h, F) /\ Thick(h, E) /\ AccountOK(m, w) /\ R \subseteq D /\ V \subseteq D \X AllDigits
  BY DEF Good, Shape
<1>2. f \in Nat \ {0} /\ f \notin D
  BY <1>1, FreshIs
<1>3. m = [heap |-> h, current_size |-> m.current_size] /\ w \in Int /\ m.current_size = Weight(h) + w
  BY <1>1 DEF AccountOK
<1>4. m2 = [heap |-> [a \in D \cup {f} |-> IF a = f THEN x ELSE h[a]],
            current_size |-> m.current_size]
  BY <1>3 DEF Malloc
<1>5. h2 = [a \in D \cup {f} |-> IF a = f THEN x ELSE h[a]] /\ m2.current_size = m.current_size
  BY <1>4
<1> HIDE DEF h, h2
<1>6. DOMAIN h2 = D \cup {f} /\ h2[f] = x /\ (\A b \in D : h2[b] = h[b])
      /\ h2 = [b \in DOMAIN h2 |-> h2[b]]
  BY <1>2, <1>5
<1>7. HeapOK(h2)
  <2>1. IsFiniteSet(D \cup {f})
    BY <1>1, FS_AddElement DEF HeapOK
  <2> QED
    BY <1>1, <1>2, <1>6, <2>1 DEF HeapOK
<1>8. Weight(h2) = Weight(h) + CellBytes(x) /\ CellBytes(x) \in Nat /\ Weight(h) \in Nat
  <2>1. Weight(h2) = Weight(h) + CellBytes(x)
    BY ONLY <1>1, <1>2, <1>6, CellOK(x), WeightWith
  <2> QED
    BY <1>1, <2>1, WeightIs, BytesAre
<1>9. \A b, e, c : Leads(h2, V, b, e, c) <=> Leads(h, V, b, e, c)
  BY <1>2, <1>6 DEF Leads, IsNew
<1>10. \A b, e, c : Leads(h, V, b, e, c) => LinkOK(h2, c, b, e) /\ c \in D
  <2>1. ASSUME NEW b, NEW e, NEW c, Leads(h, V, b, e, c) PROVE LinkOK(h2, c, b, e) /\ c \in D
    <3>1. LinkOK(h, c, b, e) /\ b \in D
      BY <1>1, <2>1 DEF LinksOK, Leads
    <3>2. c \in D
      BY <3>1 DEF LinkOK
    <3>3. h2[b] = h[b] /\ h2[c] = h[c] /\ c \in DOMAIN h2
      BY <1>6, <3>1, <3>2
    <3> QED
      BY <3>1, <3>2, <3>3 DEF LinkOK
  <2> QED
    BY <2>1
<1>11. LinksOK(h2, R2, V)
  BY <1>1, <1>2, <1>9, <1>10 DEF LinksOK
<1>12. OneLink(h2, V)
  BY <1>1, <1>9 DEF OneLink
<1>13. Held(h2, R2, V)
  BY <1>1, <1>6, <1>9 DEF Held
<1>14. Shape(h2, R2, V)
  BY <1>1, <1>6, <1>7, <1>11, <1>12, <1>13 DEF Shape
<1>15. Fixes(h2, F)
  BY <1>1, <1>2, <1>6 DEF Fixes, IsNew
<1>16. Thick(h2, E \cup {f})
  BY <1>1, <1>6 DEF Thick
<1>17. AccountOK(m2, w - CellBytes(x))
  <2>1. m2 = [heap |-> m2.heap, current_size |-> m2.current_size]
    BY <1>4
  <2>2. w - CellBytes(x) \in Int /\ m2.current_size = Weight(h2) + (w - CellBytes(x))
    BY <1>3, <1>5, <1>8
  <2> QED
    BY <1>6, <2>1, <2>2 DEF AccountOK, h2
<1>18. Good(m2, R2, V, F, E \cup {f}, w - CellBytes(x))
  BY <1>14, <1>15, <1>16, <1>17 DEF Good, h2
<1> QED
  BY <1>2, <1>6, <1>18 DEF Added, h, h2

(* free of a root that leads nowhere any more. *)
LeadsNowhere(h, V, c) == \A d, x : ~Leads(h, V, c, d, x)
Freed(m2, m, c) ==
  /\ DOMAIN m2.heap = DOMAIN m.heap \ {c}
  /\ \A b \in DOMAIN m.heap : b # c => m2.heap[b] = m.heap[b]
  /\ CellBytes(m.heap[c]) \in Nat

(* free: a root that leads nowhere any more goes, and what it led to was   *)
(* taken over or cut off.                                                  *)
LEMMA FreeRoot ==
  ASSUME NEW m, NEW R, NEW V, NEW F, NEW E, NEW w, Good(m, R, V, F, E, w),
         NEW c \in R, LeadsNowhere(m.heap, V, c), NEW m2, m2 = Free(m, c),
         NEW V2, V2 = {v \in V : v[1] # c}, NEW w2, w2 = w + CellBytes(m.heap[c])
  PROVE  Good(m2, R \ {c}, V2, F \ {c}, E \ {c}, w2) /\ Freed(m2, m, c)
<1> DEFINE h == m.heap
           h2 == m2.heap
           D == DOMAIN h
           R2 == R \ {c}
<1>1. /\ Shape(h, R, V) /\ LinksOK(h, R, V) /\ OneLink(h, V) /\ Held(h, R, V) /\ HeapOK(h)
      /\ Fixes(h, F) /\ Thick(h, E) /\ AccountOK(m, w) /\ R \subseteq D /\ V \subseteq D \X AllDigits
  BY DEF Good, Shape
<1>2. m = [heap |-> h, current_size |-> m.current_size] /\ w \in Int /\ m.current_size = Weight(h) + w
  BY <1>1 DEF AccountOK
<1>3. m2 = [heap |-> [b \in D \ {c} |-> h[b]], current_size |-> m.current_size]
  BY <1>2 DEF Free
<1>4. h2 = [b \in D \ {c} |-> h[b]] /\ m2.current_size = m.current_size
  BY <1>3
<1> HIDE DEF h, h2
<1>5. DOMAIN h2 = D \ {c} /\ c \in D /\ (\A b \in D : b # c => h2[b] = h[b])
      /\ h2 = [b \in DOMAIN h2 |-> h2[b]]
  BY <1>1, <1>4
<1>6. HeapOK(h2)
  <2>1. IsFiniteSet(D \ {c})
    BY <1>1, FS_RemoveElement DEF HeapOK
  <2> QED
    BY <1>1, <1>5, <2>1 DEF HeapOK
<1>7. Weight(h) = Weight(h2) + CellBytes(h[c]) /\ CellBytes(h[c]) \in Nat /\ Weight(h2) \in Nat
  <2>1. CellOK(h[c]) /\ c \notin DOMAIN h2 /\ D = DOMAIN h2 \cup {c} /\ \A b \in DOMAIN h2 : h[b] = h2[b]
    BY <1>1, <1>5 DEF HeapOK
  <2>2. Weight(h) = Weight(h2) + CellBytes(h[c])
    <3> DEFINE y == h[c]
    <3>1. CellOK(y) /\ h[c] = y
      BY <2>1
    <3> HIDE DEF y
    <3>2. Weight(h) = Weight(h2) + CellBytes(y)
      BY <1>6, <2>1, <3>1, WeightWith
    <3> QED
      BY <3>2 DEF y
  <2> QED
    BY <1>6, <2>1, <2>2, WeightIs, BytesAre
<1>8. \A e, x : ~Leads(h, V, c, e, x)
  BY DEF LeadsNowhere, h
<1>9. \A b, e, x : Leads(h2, V2, b, e, x) <=> Leads(h, V, b, e, x)
  <2>1. ASSUME NEW b, NEW e, NEW x PROVE Leads(h2, V2, b, e, x) <=> Leads(h, V, b, e, x)
    <3>1. CASE b = c
      <4>1. ~Leads(h2, V2, b, e, x)
        BY <1>5, <3>1 DEF Leads
      <4> QED
        BY <1>8, <3>1, <4>1
    <3>2. CASE b # c
      <4>1. <<b, e>> \in V2 <=> <<b, e>> \in V
        BY <3>2
      <4> QED
        BY <1>5, <3>2, <4>1 DEF Leads
    <3> QED
      BY <3>1, <3>2
  <2> QED
    BY <2>1
<1>10. \A b, e, x : Leads(h, V, b, e, x) => LinkOK(h2, x, b, e) /\ x \in D \ {c}
  <2>1. ASSUME NEW b, NEW e, NEW x, Leads(h, V, b, e, x) PROVE LinkOK(h2, x, b, e) /\ x \in D \ {c}
    <3>1. LinkOK(h, x, b, e) /\ b \in D /\ x \notin R /\ b # c
      BY <1>1, <1>8, <2>1 DEF LinksOK, Leads
    <3>2. x \in D /\ x # c
      BY <3>1 DEF LinkOK
    <3>3. h2[b] = h[b] /\ h2[x] = h[x] /\ x \in DOMAIN h2
      BY <1>5, <3>1, <3>2
    <3> QED
      BY <3>1, <3>2, <3>3 DEF LinkOK
  <2> QED
    BY <2>1
<1>11. LinksOK(h2, R2, V2)
  BY <1>1, <1>9, <1>10 DEF LinksOK
<1>12. OneLink(h2, V2)
  BY <1>1, <1>9 DEF OneLink
<1>13. Held(h2, R2, V2)
  BY <1>1, <1>5, <1>9 DEF Held
<1>14. V2 \subseteq (DOMAIN h2) \X AllDigits
  <2>1. ASSUME NEW v \in V2 PROVE v \in (DOMAIN h2) \X AllDigits
    <3>1. v \in D \X AllDigits /\ v[1] # c
      BY <1>1
    <3> QED
      BY <1>5, <3>1
  <2> QED
    BY <2>1
<1>15. Shape(h2, R2, V2)
  <2>1. R2 \subseteq DOMAIN h2
    BY <1>1, <1>5
  <2> QED
    BY <1>6, <1>11, <1>12, <1>13, <1>14, <2>1 DEF Shape
<1>16. Fixes(h2, F \ {c})
  BY <1>1, <1>5 DEF Fixes
<1>17. Thick(h2, E \ {c})
  BY <1>1, <1>5 DEF Thick
<1>18. AccountOK(m2, w + CellBytes(h[c]))
  <2>1. m2 = [heap |-> m2.heap, current_size |-> m2.current_size]
    BY <1>3
  <2>2. w + CellBytes(h[c]) \in Int /\ m2.current_size = Weight(h2) + (w + CellBytes(h[c]))
    BY <1>2, <1>4, <1>7
  <2> QED
    BY <1>5, <2>1, <2>2 DEF AccountOK, h2
<1>19. Good(m2, R2, V2, F \ {c}, E \ {c}, w + CellBytes(h[c]))
  BY <1>15, <1>16, <1>17, <1>18 DEF Good, h2
<1> QED
  BY <1>4, <1>5, <1>7, <1>19 DEF Freed, h, h2

(* increase_node_size and decrease_node_size of a root. *)
Replaced(m2, m, c, f, t) ==
  /\ f \in Nat \ {0} /\ f \notin DOMAIN m.heap
  /\ DOMAIN m2.heap = (DOMAIN m.heap \ {c}) \cup {f}
  /\ \A b \in DOMAIN m.heap : b # c => m2.heap[b] = m.heap[b]
  /\ ArraysOK(m2.heap[f]) /\ m2.heap[f].type = t /\ m2.heap[f].leaf = m.heap[c].leaf
  /\ m2.heap[f].depth = m.heap[c].depth /\ m2.heap[f].key = m.heap[c].key
  /\ m2.heap[f].current_size = m.heap[c].current_size /\ IsNodeCell(m2.heap[f])
  /\ \A e \in AllDigits : Child(m2.heap[f], e) = Child(m.heap[c], e)

(* A root is replaced by a copy of another type, which is not fixed. *)
LEMMA Resize ==
  ASSUME NEW m, NEW R, NEW V, NEW F, NEW E, NEW w, Good(m, R, V, F, E, w),
         NEW c \in R \ E, IsNodeCell(m.heap[c]), \A d : <<c, d>> \notin V,
         NEW t \in 1 .. 4, m.heap[c].current_size <= Capacity[t],
         NEW m2, m2 = Resized(m, c, t), NEW f, f = Fresh(m)
  PROVE  Good(m2, (R \ {c}) \cup {f}, V, F \ {c}, E, w) /\ Replaced(m2, m, c, f, t)
<1> DEFINE h == m.heap
           h2 == m2.heap
           D == DOMAIN h
           n == h[c]
           x == Copied(n, t)
           R2 == (R \ {c}) \cup {f}
           s2 == m.current_size + (NodeSize[t] - NodeSize[n.type])
<1>1. /\ Shape(h, R, V) /\ LinksOK(h, R, V) /\ OneLink(h, V) /\ Held(h, R, V) /\ HeapOK(h)
      /\ Fixes(h, F) /\ Thick(h, E) /\ AccountOK(m, w) /\ R \subseteq D /\ V \subseteq D \X AllDigits
  BY DEF Good, Shape
<1>2. f \in Nat \ {0} /\ f \notin D /\ c \in D /\ c # f
  BY <1>1, FreshIs
<1>3. ArraysOK(n) /\ (n.leaf <=> n.depth = Digits)
  BY <1>1, <1>2 DEF HeapOK, CellOK
<1>4. /\ ArraysOK(x) /\ x.type = t /\ x.leaf = n.leaf /\ x.depth = n.depth /\ x.key = n.key
      /\ x.fix_count = 0 /\ x.current_size = n.current_size
      /\ \A e \in AllDigits : Child(x, e) = Child(n, e)
  <2>1. n.current_size <= Capacity[t]
    OBVIOUS
  <2> HIDE DEF n
  <2> QED
    BY <1>3, <2>1, CopiedIs
<1>5. m = [heap |-> h, current_size |-> m.current_size] /\ w \in Int /\ m.current_size = Weight(h) + w
  BY <1>1 DEF AccountOK
<1>6. m2 = [heap |-> [a \in (D \cup {f}) \ {c} |-> IF a = f THEN x ELSE h[a]], current_size |-> s2]
  <2> DEFINE g == [a \in D \cup {f} |-> IF a = f THEN x ELSE h[a]]
  <2>1. Malloc(m, x) = [heap |-> g, current_size |-> m.current_size]
    BY <1>5 DEF Malloc
  <2>2. DOMAIN g = D \cup {f} /\ [a \in (D \cup {f}) \ {c} |-> g[a]]
          = [a \in (D \cup {f}) \ {c} |-> IF a = f THEN x ELSE h[a]]
    OBVIOUS
  <2> HIDE DEF g, x
  <2>3. Free(Malloc(m, x), c) = [heap |-> [a \in (D \cup {f}) \ {c} |-> g[a]], current_size |-> m.current_size]
    BY <2>1, <2>2 DEF Free
  <2>4. m2 = Account(Free(Malloc(m, x), c), NodeSize[t] - NodeSize[n.type])
    BY DEF Resized, x
  <2> QED
    BY <2>2, <2>3, <2>4 DEF Account
<1>7. h2 = [a \in (D \cup {f}) \ {c} |-> IF a = f THEN x ELSE h[a]] /\ m2.current_size = s2
  BY <1>6
<1> HIDE DEF h, h2, x, s2
<1>8. DOMAIN h2 = (D \ {c}) \cup {f} /\ h2[f] = x /\ (\A b \in D : b # c => h2[b] = h[b])
      /\ h2 = [b \in DOMAIN h2 |-> h2[b]]
  BY <1>2, <1>7
<1>9. IsNodeCell(x) /\ CellOK(x) /\ CellBytes(x) = NodeSize[t] /\ CellBytes(n) = NodeSize[n.type]
      /\ CellOK(n)
  BY <1>3, <1>4, NodeIs DEF CellOK
<1>10. HeapOK(h2)
  <2>1. IsFiniteSet((D \ {c}) \cup {f})
    BY <1>1, FS_AddElement, FS_RemoveElement DEF HeapOK
  <2> QED
    BY <1>1, <1>2, <1>8, <1>9, <2>1 DEF HeapOK
<1>11. /\ Weight(h2) = Weight(h) - CellBytes(n) + CellBytes(x) /\ CellBytes(x) \in Int
       /\ CellBytes(n) \in Int /\ Weight(h) \in Int
  <2> DEFINE g == [b \in D \ {c} |-> h[b]]
  <2>1. DOMAIN g = D \ {c} /\ \A b \in D \ {c} : g[b] = h[b]
    OBVIOUS
  <2> HIDE DEF g
  <2>2. HeapOK(g)
    <3>1. IsFiniteSet(D \ {c})
      BY <1>1, FS_RemoveElement DEF HeapOK
    <3> QED
      BY <1>1, <2>1, <3>1 DEF HeapOK
  <2>3. Weight(h) = Weight(g) + CellBytes(n)
    <3>1. c \notin DOMAIN g /\ D = DOMAIN g \cup {c} /\ h[c] = n /\ \A b \in DOMAIN g : h[b] = g[b]
      BY <1>2, <2>1
    <3>2. CellOK(n)
      BY <1>9
    <3> HIDE DEF n
    <3>3. DOMAIN h = DOMAIN g \cup {c}
      BY <3>1 DEF D
    <3> HIDE DEF D, h
    <3> QED
      BY ONLY <2>2, <3>1, <3>2, <3>3, WeightWith
  <2>4. Weight(h2) = Weight(g) + CellBytes(x)
    <3>1. f \notin DOMAIN g /\ DOMAIN h2 = DOMAIN g \cup {f} /\ \A b \in DOMAIN g : h2[b] = g[b]
      BY <1>2, <1>8, <2>1
    <3>2. h2[f] = x /\ CellOK(x)
      BY <1>8, <1>9
    <3> QED
      BY ONLY <2>2, <3>1, <3>2, WeightWith
  <2>5. CellBytes(x) \in Nat /\ CellBytes(n) \in Nat /\ Weight(g) \in Nat
    BY <1>9, <2>2, BytesAre, WeightIs
  <2> QED
    BY <2>3, <2>4, <2>5
<1>12. \A b, e, y : Leads(h2, V, b, e, y) <=>
                      IF b = f THEN Leads(h, V, c, e, y) ELSE b # c /\ Leads(h, V, b, e, y)
  <2>1. ASSUME NEW e, NEW y PROVE Leads(h2, V, f, e, y) <=> Leads(h, V, c, e, y)
    <3>1. <<f, e>> \notin V /\ <<c, e>> \notin V
      BY <1>1, <1>2
    <3>2. IsNodeCell(h[c])
      BY DEF h
    <3> QED
      BY <1>2, <1>4, <1>8, <1>9, <3>1, <3>2 DEF Leads
  <2>2. ASSUME NEW b, NEW e, NEW y, b # f
        PROVE  Leads(h2, V, b, e, y) <=> b # c /\ Leads(h, V, b, e, y)
    BY <1>2, <1>8, <2>2 DEF Leads
  <2> QED
    BY <2>1, <2>2
<1>13. ASSUME NEW b, NEW e, NEW y, Leads(h, V, b, e, y)
       PROVE  /\ LinkOK(h2, y, IF b = c THEN f ELSE b, e) /\ y \in D /\ y # c /\ y \notin R
  <2>1. LinkOK(h, y, b, e) /\ b \in D /\ y \notin R
    BY <1>1, <1>13 DEF LinksOK, Leads
  <2>2. y \in D /\ y # c
    BY <2>1 DEF LinkOK
  <2>3. h2[y] = h[y] /\ y \in DOMAIN h2
    BY <1>8, <2>2
  <2>4. CASE b = c
    BY <1>4, <1>8, <2>1, <2>2, <2>3, <2>4 DEF LinkOK
  <2>5. CASE b # c
    <3>1. h2[b] = h[b]
      BY <1>8, <2>1, <2>5
    <3> QED
      BY <2>1, <2>2, <2>3, <2>5, <3>1 DEF LinkOK
  <2> QED
    BY <2>4, <2>5
<1>14. LinksOK(h2, R2, V)
  <2>1. ASSUME NEW b, NEW e, NEW y, Leads(h2, V, b, e, y) PROVE LinkOK(h2, y, b, e) /\ y \notin R2
    <3>1. CASE b = f
      <4>1. Leads(h, V, c, e, y)
        BY <1>12, <2>1, <3>1
      <4> QED
        BY <1>2, <1>13, <3>1, <4>1
    <3>2. CASE b # f
      <4>1. b # c /\ Leads(h, V, b, e, y)
        BY <1>12, <2>1, <3>2
      <4> QED
        BY <1>2, <1>13, <4>1
    <3> QED
      BY <3>1, <3>2
  <2> QED
    BY <2>1 DEF LinksOK
<1>15. OneLink(h2, V)
  <2>1. ASSUME NEW a, NEW d, NEW b, NEW e, NEW y, Leads(h2, V, a, d, y), Leads(h2, V, b, e, y)
        PROVE  a = b /\ d = e
    <3> DEFINE a1 == IF a = f THEN c ELSE a
               b1 == IF b = f THEN c ELSE b
    <3>1. Leads(h, V, a1, d, y) /\ Leads(h, V, b1, e, y) /\ (a # f => a # c) /\ (b # f => b # c)
      BY <1>12, <2>1
    <3>2. a1 = b1 /\ d = e
      BY <1>1, <3>1 DEF OneLink
    <3> QED
      BY <3>1, <3>2
  <2> QED
    BY <2>1 DEF OneLink
<1>16. Held(h2, R2, V)
  <2>1. ASSUME NEW y \in DOMAIN h2 \ R2 PROVE \E b, e : Leads(h2, V, b, e, y)
    <3>1. y \in D \ R
      BY <1>8, <2>1
    <3>2. PICK b, e : Leads(h, V, b, e, y)
      BY <1>1, <3>1 DEF Held
    <3>3. b # f
      BY <1>2, <3>2 DEF Leads
    <3>4. CASE b = c
      BY <1>12, <3>2, <3>4
    <3>5. CASE b # c
      BY <1>12, <3>2, <3>3, <3>5
    <3> QED
      BY <3>4, <3>5
  <2> QED
    BY <2>1 DEF Held
<1>17. Shape(h2, R2, V)
  <2>1. R2 \subseteq DOMAIN h2
    BY <1>1, <1>8
  <2>2. V \subseteq (DOMAIN h2) \X AllDigits
    <3>1. ASSUME NEW v \in V PROVE v \in (DOMAIN h2) \X AllDigits
      <4>1. v \in D \X AllDigits /\ v = <<v[1], v[2]>>
        BY <1>1
      <4>2. v[1] # c
        BY <4>1
      <4> QED
        BY <1>8, <4>1, <4>2
    <3> QED
      BY <3>1
  <2> QED
    BY <1>10, <1>14, <1>15, <1>16, <2>1, <2>2 DEF Shape
<1>18. Fixes(h2, F \ {c})
  BY <1>1, <1>2, <1>4, <1>8 DEF Fixes
<1>19. Thick(h2, E)
  <2>1. n.leaf \/ n.current_size > 1
    BY <1>1, <1>2 DEF Thick, h
  <2> QED
    BY <1>1, <1>4, <1>8, <2>1 DEF Thick
<1>20. AccountOK(m2, w)
  <2>1. m2 = [heap |-> m2.heap, current_size |-> m2.current_size]
    BY <1>6
  <2>2. m2.current_size = Weight(h2) + w
    BY <1>5, <1>7, <1>9, <1>11 DEF s2
  <2> QED
    BY <1>5, <1>8, <2>1, <2>2 DEF AccountOK, h2
<1>21. Good(m2, R2, V, F \ {c}, E, w)
  BY <1>17, <1>18, <1>19, <1>20 DEF Good, h2
<1> QED
  BY <1>2, <1>4, <1>8, <1>9, <1>21 DEF Replaced, h, h2

(* fix_node and unfix_node. *)
WithFix(n, z) == [n EXCEPT !.fix_count = z]
LEMMA FixKeepsTheRest ==
  ASSUME NEW n, ArraysOK(n), NEW z \in Int
  PROVE  LET x == WithFix(n, z) IN
         /\ ArraysOK(x) /\ SameNode(x, n) /\ x.fix_count = z /\ x.current_size = n.current_size
         /\ \A e \in AllDigits : Child(x, e) = Child(n, e)
<1> DEFINE x == WithFix(n, z)
<1>1. Structure(n) /\ n \in NodeRec /\ n.current_size = Cardinality(Present(n))
      /\ n.current_size <= Capacity[n.type]
  BY DEF ArraysOK, Structure
<1>2. /\ x \in NodeRec /\ SameNode(x, n) /\ x.fix_count = z /\ x.current_size = n.current_size
      /\ x.keys = n.keys /\ x.children = n.children
  <2> DEFINE K == KeyArrays
             C == Seq(Nat)
             T == 1 .. 4
             D == 1 .. Digits
  <2>1. n \in [type : T, leaf : BOOLEAN, depth : D, key : Nat, current_size : Nat,
               fix_count : Int, keys : K, children : C]
    BY <1>1 DEF NodeRec
  <2> HIDE DEF K, C, T, D
  <2>2. x \in [type : T, leaf : BOOLEAN, depth : D, key : Nat, current_size : Nat,
               fix_count : Int, keys : K, children : C]
        /\ SameNode(x, n) /\ x.fix_count = z /\ x.current_size = n.current_size
        /\ x.keys = n.keys /\ x.children = n.children
    BY <2>1 DEF WithFix, SameNode
  <2> QED
    BY <2>2 DEF NodeRec, K, C, T, D
<1> HIDE DEF x
<1>3. \A e \in AllDigits : Child(x, e) = Child(n, e)
  BY <1>2 DEF SameNode, Child, Slot, UnsortedSlot, IndexedSlot, DirectSlot
<1>4. Structure(x)
  BY <1>1, <1>2 DEF Structure, UnsortedOK, IndexedOK, SameNode
<1>5. Present(x) = Present(n)
  BY <1>3 DEF Present
<1>6. ArraysOK(x)
  BY <1>1, <1>2, <1>4, <1>5 DEF ArraysOK, SameNode
<1> QED
  BY <1>2, <1>3, <1>6 DEF x

(* What fixing a node leaves as it is. *)
OnlyFixDiffers(x, n) ==
  /\ IsNodeCell(x) /\ ArraysOK(x) /\ SameNode(x, n) /\ x.current_size = n.current_size
  /\ \A e \in AllDigits : Child(x, e) = Child(n, e)
LEMMA SetFix ==
  ASSUME NEW m, NEW R, NEW V, NEW F, NEW E, NEW w, Good(m, R, V, F, E, w),
         NEW a \in DOMAIN m.heap, IsNodeCell(m.heap[a]),
         NEW F2, F2 \subseteq DOMAIN m.heap, \A b : b # a => (b \in F2 <=> b \in F),
         NEW z \in Int, z = IF a \in F2 THEN 1 ELSE 0,
         NEW m2, m2 = Store(m, a, WithFix(m.heap[a], z))
  PROVE  /\ Good(m2, R, V, F2, E, w) /\ DOMAIN m2.heap = DOMAIN m.heap
         /\ m2.current_size = m.current_size
         /\ \A b \in DOMAIN m.heap : b # a => m2.heap[b] = m.heap[b]
         /\ OnlyFixDiffers(m2.heap[a], m.heap[a])
<1> DEFINE h == m.heap
           h2 == m2.heap
           n == h[a]
           x == WithFix(n, z)
<1>1. /\ Shape(h, R, V) /\ HeapOK(h) /\ Fixes(h, F) /\ Thick(h, E) /\ AccountOK(m, w)
  BY DEF Good, Shape
<1>2. ArraysOK(n)
  BY <1>1 DEF HeapOK, CellOK
<1>3. /\ ArraysOK(x) /\ SameNode(x, n) /\ x.fix_count = z /\ x.current_size = n.current_size
      /\ \A e \in AllDigits : Child(x, e) = Child(n, e)
  <2> HIDE DEF n
  <2> QED
    BY <1>2, FixKeepsTheRest
<1>4. m2 = Store(m, a, x)
  OBVIOUS
<1> HIDE DEF x
<1>5. /\ DOMAIN h2 = DOMAIN h /\ h2[a] = x /\ \A b \in DOMAIN h : b # a => h2[b] = h[b]
      /\ m2.current_size = m.current_size
      /\ CellOK(x) => HeapOK(h2)
      /\ CellBytes(x) = CellBytes(n) => AccountOK(m2, w)
  BY <1>1, <1>4, StoreIs
<1> HIDE DEF h, h2
<1>6. /\ CellOK(x) /\ CellBytes(x) = CellBytes(n) /\ IsNodeCell(x)
      /\ \A c, e : \A b \in DOMAIN h : LinkOK(h2, c, b, e) <=> LinkOK(h, c, b, e)
      /\ \A W, b, e, c : b # a => (Leads(h2, W, b, e, c) <=> Leads(h, W, b, e, c))
  BY <1>1, <1>3, <1>5, HeaderIsKept DEF h
<1>7. \A b, e, c : Leads(h2, V, b, e, c) <=> Leads(h, V, b, e, c)
  <2>1. ASSUME NEW e, NEW c PROVE Leads(h2, V, a, e, c) <=> Leads(h, V, a, e, c)
    BY <1>3, <1>5, <1>6 DEF Leads, h
  <2> QED
    BY <1>6, <2>1
<1>8. Shape(h2, R, V)
  BY <1>1, <1>5, <1>6, <1>7, ShapeIsKept
<1>9. Fixes(h2, F2)
  BY <1>1, <1>3, <1>5 DEF Fixes, h
<1>10. Thick(h2, E)
  BY <1>1, <1>3, <1>5 DEF Thick, SameNode, h
<1>11. Good(m2, R, V, F2, E, w)
  BY <1>5, <1>6, <1>8, <1>9, <1>10 DEF Good, h2
<1> QED
  BY <1>3, <1>5, <1>6, <1>11 DEF h, h2, OnlyFixDiffers

(* fix_node and unfix_node write the fix count of one node. *)
LEMMA FixStores ==
  ASSUME NEW m, m = [heap |-> m.heap, current_size |-> m.current_size],
         NEW a \in DOMAIN m.heap, ArraysOK(m.heap[a])
  PROVE  /\ Fix(m, a) = Store(m, a, WithFix(m.heap[a], m.heap[a].fix_count + 1))
         /\ Unfix(m, a) = Store(m, a, WithFix(m.heap[a], m.heap[a].fix_count - 1))
         /\ m.heap[a].fix_count \in Int
<1> DEFINE h == m.heap
           n == h[a]
<1>1. n \in NodeRec
  BY DEF ArraysOK, Structure
<1>2. n.fix_count \in Int
  BY <1>1 DEF NodeRec
<1>3. ASSUME NEW z
      PROVE  [m EXCEPT !.heap[a].fix_count = z] = [m EXCEPT !.heap[a] = WithFix(n, z)]
  BY DEF WithFix
<1> QED
  BY <1>2, <1>3 DEF Fix, Unfix, Store

Refixed(m2, m, a) ==
  /\ DOMAIN m2.heap = DOMAIN m.heap /\ m2.current_size = m.current_size
  /\ \A b \in DOMAIN m.heap : b # a => m2.heap[b] = m.heap[b]
  /\ OnlyFixDiffers(m2.heap[a], m.heap[a])

(* A node that is not fixed is fixed. *)
LEMMA FixIs ==
  ASSUME NEW m, NEW R, NEW V, NEW F, NEW E, NEW w, Good(m, R, V, F, E, w),
         NEW a \in DOMAIN m.heap \ F, IsNodeCell(m.heap[a]), NEW m2, m2 = Fix(m, a)
  PROVE  Good(m2, R, V, F \cup {a}, E, w) /\ Refixed(m2, m, a)
<1> DEFINE h == m.heap
           F2 == F \cup {a}
<1>1. Fixes(h, F) /\ HeapOK(h) /\ m = [heap |-> m.heap, current_size |-> m.current_size]
  BY DEF Good, Shape, AccountOK
<1>2. ArraysOK(h[a]) /\ h[a].fix_count = 0 /\ F2 \subseteq DOMAIN h
  BY <1>1 DEF Fixes, HeapOK, CellOK
<1>3. m2 = Store(m, a, WithFix(m.heap[a], 1))
  BY <1>1, <1>2, FixStores
<1>4. \A b : b # a => (b \in F2 <=> b \in F)
  OBVIOUS
<1>5. a \in F2
  OBVIOUS
<1> HIDE DEF F2
<1>6. 1 \in Int /\ 1 = IF a \in F2 THEN 1 ELSE 0
  BY <1>5
<1>7. /\ Good(m2, R, V, F2, E, w) /\ DOMAIN m2.heap = DOMAIN m.heap
      /\ m2.current_size = m.current_size
      /\ \A b \in DOMAIN m.heap : b # a => m2.heap[b] = m.heap[b]
      /\ OnlyFixDiffers(m2.heap[a], m.heap[a])
  BY <1>2, <1>3, <1>4, <1>6, SetFix
<1> QED
  BY <1>7 DEF F2, Refixed

(* A node that is fixed is unfixed. *)
LEMMA UnfixIs ==
  ASSUME NEW m, NEW R, NEW V, NEW F, NEW E, NEW w, Good(m, R, V, F, E, w),
         NEW a \in F, IsNodeCell(m.heap[a]), NEW m2, m2 = Unfix(m, a)
  PROVE  Good(m2, R, V, F \ {a}, E, w) /\ Refixed(m2, m, a)
<1> DEFINE h == m.heap
           F2 == F \ {a}
<1>1. Fixes(h, F) /\ HeapOK(h) /\ m = [heap |-> m.heap, current_size |-> m.current_size]
  BY DEF Good, Shape, AccountOK
<1>2. a \in DOMAIN h /\ ArraysOK(h[a]) /\ h[a].fix_count = 1 /\ F2 \subseteq DOMAIN h
  BY <1>1 DEF Fixes, HeapOK, CellOK
<1>3. m2 = Store(m, a, WithFix(m.heap[a], 0))
  BY <1>1, <1>2, FixStores
<1>4. \A b : b # a => (b \in F2 <=> b \in F)
  OBVIOUS
<1>5. a \notin F2
  OBVIOUS
<1> HIDE DEF F2
<1>6. 0 \in Int /\ 0 = IF a \in F2 THEN 1 ELSE 0
  BY <1>5
<1>7. /\ Good(m2, R, V, F2, E, w) /\ DOMAIN m2.heap = DOMAIN m.heap
      /\ m2.current_size = m.current_size
      /\ \A b \in DOMAIN m.heap : b # a => m2.heap[b] = m.heap[b]
      /\ OnlyFixDiffers(m2.heap[a], m.heap[a])
  BY <1>2, <1>3, <1>4, <1>6, SetFix
<1> QED
  BY <1>7 DEF F2, Refixed

(* A frame gets another page. *)
LEMMA StoreFrame ==
  ASSUME NEW m, NEW R, NEW V, NEW F, NEW E, NEW w, Good(m, R, V, F, E, w),
         NEW a \in DOMAIN m.heap, ~IsNodeCell(m.heap[a]), NEW page \in CachedPages,
         NEW m2, m2 = Store(m, a, [page_id |-> page])
  PROVE  /\ Good(m2, R, V, F, E, w) /\ DOMAIN m2.heap = DOMAIN m.heap
         /\ m2.current_size = m.current_size
         /\ \A b \in DOMAIN m.heap : b # a => m2.heap[b] = m.heap[b]
<1> DEFINE h == m.heap
           h2 == m2.heap
           x == [page_id |-> page]
<1>1. /\ Shape(h, R, V) /\ HeapOK(h) /\ Fixes(h, F) /\ Thick(h, E) /\ AccountOK(m, w)
  BY DEF Good, Shape
<1>2. ~IsNodeCell(x) /\ CellOK(x) /\ CellBytes(x) = FrameSize
  BY FrameIs
<1> HIDE DEF x
<1>3. CellBytes(x) = CellBytes(h[a])
  BY <1>2 DEF CellBytes
<1>4. /\ DOMAIN h2 = DOMAIN h /\ h2[a] = x /\ \A b \in DOMAIN h : b # a => h2[b] = h[b]
      /\ m2.current_size = m.current_size /\ HeapOK(h2) /\ AccountOK(m2, w)
  <2>1. m2 = Store(m, a, x)
    BY DEF x
  <2> QED
    BY <1>1, <1>2, <1>3, <2>1, StoreIs
<1> HIDE DEF h, h2
<1>5. \A b \in DOMAIN h : IsNodeCell(h2[b]) <=> IsNodeCell(h[b])
  BY <1>2, <1>4 DEF h
<1>6. \A b \in DOMAIN h : IsNodeCell(h[b]) => h2[b] = h[b]
  BY <1>4 DEF h
<1>7. \A b, e, c : Leads(h2, V, b, e, c) <=> Leads(h, V, b, e, c)
  BY <1>4, <1>5, <1>6 DEF Leads
<1>8. ASSUME NEW b, NEW e, NEW c, Leads(h, V, b, e, c) PROVE LinkOK(h2, c, b, e)
  <2>1. LinkOK(h, c, b, e) /\ b \in DOMAIN h /\ IsNodeCell(h[b])
    BY <1>1, <1>8 DEF Shape, LinksOK, Leads
  <2> QED
    BY <1>4, <1>5, <1>6, <2>1 DEF LinkOK
<1>9. Shape(h2, R, V)
  <2>1. LinksOK(h2, R, V)
    BY <1>1, <1>7, <1>8 DEF LinksOK, Shape
  <2>2. OneLink(h2, V) /\ Held(h2, R, V)
    BY <1>1, <1>4, <1>7 DEF OneLink, Held, Shape
  <2> QED
    BY <1>1, <1>4, <2>1, <2>2 DEF Shape
<1>10. Fixes(h2, F) /\ Thick(h2, E)
  BY <1>1, <1>4, <1>5, <1>6 DEF Fixes, Thick
<1> QED
  BY <1>4, <1>9, <1>10 DEF Good, h, h2

(* The account, and nodes that have more than one child again. *)
SameHeap(m2, m) == m2.heap = m.heap

(* The account is corrected. *)
LEMMA AccountIs ==
  ASSUME NEW m, NEW R, NEW V, NEW F, NEW E, NEW w, Good(m, R, V, F, E, w), NEW b \in Int,
         NEW m2, m2 = Account(m, b), NEW w2, w2 = w + b
  PROVE  Good(m2, R, V, F, E, w2) /\ SameHeap(m2, m)
<1>1. m = [heap |-> m.heap, current_size |-> m.current_size] /\ w \in Int
      /\ m.current_size = Weight(m.heap) + w /\ HeapOK(m.heap)
      /\ m.heap = [a \in DOMAIN m.heap |-> m.heap[a]]
  BY DEF Good, AccountOK, Shape
<1>2. m2 = [heap |-> m.heap, current_size |-> m.current_size + b]
  BY <1>1 DEF Account
<1>3. m2.heap = m.heap /\ m2.current_size = m.current_size + b
  BY <1>2
<1>4. Weight(m.heap) \in Nat
  BY <1>1, WeightIs
<1>5. AccountOK(m2, w + b)
  BY <1>1, <1>2, <1>3, <1>4 DEF AccountOK
<1> QED
  BY <1>3, <1>5 DEF Good, SameHeap

(* Where nodes have children enough, they need no exception. *)
LEMMA Thicken ==
  ASSUME NEW m, NEW R, NEW V, NEW F, NEW E, NEW w, Good(m, R, V, F, E, w), NEW E2,
         \A a \in (E \ E2) \cap DOMAIN m.heap :
           IsNodeCell(m.heap[a]) => m.heap[a].leaf \/ m.heap[a].current_size > 1
  PROVE  Good(m, R, V, F, E2, w)
BY DEF Good, Thick

-----------------------------------------------------------------------------
(* The operations.  A node that takes in what its digit has not yet stays  *)
(* the node it is, and all other nodes stay as they are.                   *)
Grown(m2, m, a, d) ==
  /\ DOMAIN m.heap \subseteq DOMAIN m2.heap
  /\ \A b \in DOMAIN m.heap : IsNodeCell(m.heap[b]) /\ b # a => m2.heap[b] = m.heap[b]
  /\ IsNodeCell(m2.heap[a]) /\ ArraysOK(m2.heap[a]) /\ SameHeader(m2.heap[a], m.heap[a])
  /\ m2.heap[a].current_size =
       m.heap[a].current_size + (IF Child(m.heap[a], d) = Null THEN 1 ELSE 0)
  /\ \A e \in AllDigits : e # d => Child(m2.heap[a], e) = Child(m.heap[a], e)

(* What a node in memory has. *)
LEMMA CellIs ==
  ASSUME NEW m, NEW R, NEW V, NEW F, NEW E, NEW w, Good(m, R, V, F, E, w),
         NEW a \in DOMAIN m.heap, IsNodeCell(m.heap[a])
  PROVE  ArraysOK(m.heap[a]) /\ (m.heap[a].leaf <=> m.heap[a].depth = Digits)
BY DEF Good, Shape, HeapOK, CellOK

(* insert of a reference into a leaf. *)
LEMMA PutFrameIs ==
  ASSUME NEW m, NEW R, NEW F, NEW E, NEW w, Good(m, R, {}, F, E, w),
         NEW a \in DOMAIN m.heap, IsNodeCell(m.heap[a]), m.heap[a].leaf, NEW d \in AllDigits,
         Child(m.heap[a], d) = Null => CanInsert(m.heap[a]), NEW page \in CachedPages,
         NEW m2, m2 = PutFrame(m, a, d, page)
  PROVE  Good(m2, R, {}, F, E, w) /\ Grown(m2, m, a, d)
<1> DEFINE frame == Child(m.heap[a], d)
           x == [page_id |-> page]
<1>1. ArraysOK(m.heap[a]) /\ R \subseteq DOMAIN m.heap /\ HeapOK(m.heap) /\ w \in Int
  BY CellIs DEF Good, Shape, AccountOK
<1>2. CASE frame # Null
  <2>1. m2 = Store(m, frame, x)
    BY <1>2 DEF PutFrame, ChildOf
  <2>2. Leads(m.heap, {}, a, d, frame)
    BY <1>2 DEF Leads
  <2>3. frame \in DOMAIN m.heap /\ ~IsNodeCell(m.heap[frame])
    <3>1. LinkOK(m.heap, frame, a, d)
      BY <2>2 DEF Good, Shape, LinksOK
    <3> QED
      BY <3>1 DEF LinkOK
  <2> HIDE DEF frame
  <2>4. /\ Good(m2, R, {}, F, E, w) /\ DOMAIN m2.heap = DOMAIN m.heap
        /\ \A b \in DOMAIN m.heap : b # frame => m2.heap[b] = m.heap[b]
    BY <2>1, <2>3, StoreFrame
  <2>5. frame # a
    BY <2>3
  <2> QED
    <3>1. m2.heap[a] = m.heap[a] /\ m.heap[a].current_size \in Nat /\ IsNodeCell(m.heap[a])
      BY <1>1, <2>4, <2>5, NodeIs
    <3>2. SameHeader(m2.heap[a], m.heap[a])
      BY <3>1 DEF SameHeader
    <3>3. Child(m.heap[a], d) # Null
      BY <1>2 DEF frame
    <3>4. m2.heap[a].current_size =
            m.heap[a].current_size + (IF Child(m.heap[a], d) = Null THEN 1 ELSE 0)
      BY <3>1, <3>3
    <3>5. \A b \in DOMAIN m.heap : IsNodeCell(m.heap[b]) /\ b # a => m2.heap[b] = m.heap[b]
      BY <2>3, <2>4
    <3> QED
      BY <1>1, <2>4, <3>1, <3>2, <3>4, <3>5 DEF Grown
<1>3. CASE frame = Null
  <2> DEFINE m1 == Malloc(m, x)
             f == Fresh(m)
             m3 == PutChild(m1, a, d, f)
             v == w - FrameSize
  <2>1. m2 = Account(m3, FrameSize)
    BY <1>3 DEF PutFrame, ChildOf
  <2>2. ~IsNodeCell(x) /\ CellOK(x) /\ CellBytes(x) = FrameSize
    BY FrameIs
  <2> HIDE DEF x
  <2>3. /\ Good(m1, R \cup {f}, {}, F, E \cup {f}, v)
        /\ f \in Nat \ {0} /\ f \notin DOMAIN m.heap /\ DOMAIN m1.heap = DOMAIN m.heap \cup {f}
        /\ m1.heap[f] = x /\ \A b \in DOMAIN m.heap : m1.heap[b] = m.heap[b]
    <3>1. m1 = Malloc(m, x) /\ f = Fresh(m) /\ v = w - CellBytes(x) /\ IsNew(x)
      BY <2>2 DEF IsNew
    <3> HIDE DEF m1, f, v
    <3>2. Good(m1, R \cup {f}, {}, F, E \cup {f}, v) /\ Added(m1, m, f, x)
      BY <2>2, <3>1, New
    <3> QED
      BY <3>2 DEF Added
  <2>4. v + FrameSize = w /\ FrameSize \in Int
    BY <1>1, Parameters
  <2> HIDE DEF m1, f, v
  <2>5. Good(m1, R \cup {f}, {}, F, E, v)
    <3>1. \A b \in ((E \cup {f}) \ E) \cap DOMAIN m1.heap :
            IsNodeCell(m1.heap[b]) => m1.heap[b].leaf \/ m1.heap[b].current_size > 1
      BY <2>2, <2>3
    <3> QED
      BY <2>3, <3>1, Thicken
  <2>6. a \in DOMAIN m1.heap /\ m1.heap[a] = m.heap[a] /\ a # f
    BY <2>3
  <2>7. LinkOK(m1.heap, f, a, d)
    BY <2>2, <2>3, <2>6 DEF LinkOK
  <2>8. Child(m1.heap[a], d) = Null /\ CanInsert(m1.heap[a]) /\ IsNodeCell(m1.heap[a])
    BY <1>3, <2>6
  <2>9. Good(m3, (R \cup {f}) \ {f}, {}, F, E, v) /\ Linked(m3, m1, a, d, f)
    <3>1. f \in R \cup {f} /\ m3 = PutChild(m1, a, d, f)
      OBVIOUS
    <3> HIDE DEF m3
    <3> QED
      BY <2>5, <2>6, <2>7, <2>8, <3>1, LinkFirst
  <2>10. (R \cup {f}) \ {f} = R
    BY <1>1, <2>3
  <2> HIDE DEF m3
  <2>11. Good(m3, R, {}, F, E, v)
    BY <2>9, <2>10
  <2>12. Good(m2, R, {}, F, E, w) /\ m2.heap = m3.heap
    BY <2>1, <2>11, <2>4, AccountIs DEF SameHeap
  <2> QED
    <3>1. DOMAIN m.heap \subseteq DOMAIN m2.heap
      BY <2>3, <2>9, <2>12 DEF Linked
    <3>2. \A b \in DOMAIN m.heap : IsNodeCell(m.heap[b]) /\ b # a => m2.heap[b] = m.heap[b]
      BY <2>3, <2>9, <2>12 DEF Linked
    <3>3. /\ IsNodeCell(m2.heap[a]) /\ ArraysOK(m2.heap[a]) /\ SameHeader(m2.heap[a], m.heap[a])
          /\ m2.heap[a].current_size =
               m.heap[a].current_size + (IF Child(m.heap[a], d) = Null THEN 1 ELSE 0)
          /\ \A e \in AllDigits : e # d => Child(m2.heap[a], e) = Child(m.heap[a], e)
      BY <2>6, <2>9, <2>12 DEF Linked
    <3> QED
      BY <2>12, <3>1, <3>2, <3>3 DEF Grown
<1> QED
  BY <1>2, <1>3
(* A leaf for one key: another root. *)
NewNodes(m2, m) ==
  /\ DOMAIN m.heap \subseteq DOMAIN m2.heap
  /\ \A b \in DOMAIN m.heap : IsNodeCell(m.heap[b]) => m2.heap[b] = m.heap[b]

(* A new leaf is a root, with one frame below it, and the account is       *)
(* right.                                                                  *)
LEMMA NewLeafIs ==
  ASSUME NEW m, NEW R, NEW F, NEW E, NEW w, Good(m, R, {}, F, E, w),
         NEW key \in Nat, NEW page \in CachedPages, NEW m2, m2 = NewLeaf(m, key, page),
         NEW f, f = Fresh(m)
  PROVE  /\ Good(m2, R \cup {f}, {}, F, E, w) /\ NewNodes(m2, m)
         /\ f \in DOMAIN m2.heap \ DOMAIN m.heap /\ f \in Nat \ {0}
         /\ IsNodeCell(m2.heap[f]) /\ m2.heap[f].leaf
         /\ m2.heap[f].depth = Digits /\ m2.heap[f].key = key
<1> DEFINE n == NewNode(1, TRUE, Digits, key)
           m1 == Malloc(m, n)
           m3 == Account(m1, NodeSize[1])
           d == Digit(key, Digits)
           w1 == w - NodeSize[1]
<1>1. /\ ArraysOK(n) /\ n.type = 1 /\ n.leaf = TRUE /\ n.depth = Digits /\ n.key = key
      /\ n.fix_count = 0 /\ CanInsert(n) /\ \A e \in AllDigits : Child(n, e) = Null
  <2> DEFINE yes == TRUE
             t == 1
  <2>1. t \in 1 .. 4 /\ yes \in BOOLEAN /\ Digits \in 1 .. Digits
    BY Parameters
  <2>2. n = NewNode(t, yes, Digits, key)
    OBVIOUS
  <2> HIDE DEF n, yes, t
  <2>3. /\ ArraysOK(n) /\ n.type = t /\ n.leaf = yes /\ n.depth = Digits /\ n.key = key
        /\ n.fix_count = 0 /\ CanInsert(n) /\ \A e \in AllDigits : Child(n, e) = Null
    BY <2>1, <2>2, NewNodeIs
  <2> QED
    BY <2>3 DEF yes, t
<1>2. m2 = PutFrame(m3, f, d, page) /\ w \in Int /\ NodeSize[1] \in Int /\ d \in AllDigits
  <2>1. Digits \in 1 .. Digits /\ NodeSize[1] \in Int
    BY Parameters
  <2> QED
    BY <2>1, DigitIs DEF NewLeaf, Good, AccountOK
<1> HIDE DEF n, d
<1>3. CellOK(n) /\ CellBytes(n) = NodeSize[1] /\ IsNodeCell(n)
  BY <1>1, NodeIs DEF CellOK
<1>4. Good(m1, R \cup {f}, {}, F, E \cup {f}, w1) /\ Added(m1, m, f, n)
  <2>1. m1 = Malloc(m, n) /\ w1 = w - CellBytes(n) /\ IsNew(n)
    BY <1>1, <1>3 DEF IsNew
  <2> HIDE DEF m1, w1
  <2> QED
    BY <1>3, <2>1, New
<1> HIDE DEF m1
<1>5. Good(m3, R \cup {f}, {}, F, E \cup {f}, w) /\ m3.heap = m1.heap
  <2>1. w1 + NodeSize[1] = w
    BY <1>2
  <2> DEFINE z == NodeSize[1]
  <2>2. z \in Int /\ m3 = Account(m1, z) /\ w = w1 + z /\ w \in Int /\ w1 \in Int
    BY <1>2, <2>1
  <2> DEFINE R1 == R \cup {f}
             E1 == E \cup {f}
  <2>3. Good(m1, R1, {}, F, E1, w1)
    BY <1>4
  <2> HIDE DEF w1, z, m3, R1, E1
  <2>4. Good(m3, R1, {}, F, E1, w) /\ SameHeap(m3, m1)
    BY ONLY <2>2, <2>3, AccountIs
  <2> QED
    BY <2>4 DEF R1, E1, SameHeap
<1> HIDE DEF m3
<1>6. Good(m2, R \cup {f}, {}, F, E \cup {f}, w) /\ Grown(m2, m3, f, d)
  <2>1. f \in DOMAIN m3.heap /\ IsNodeCell(m3.heap[f]) /\ m3.heap[f].leaf /\ CanInsert(m3.heap[f])
    BY <1>1, <1>3, <1>4, <1>5 DEF Added
  <2> QED
    BY <1>2, <1>5, <2>1, PutFrameIs
<1>7. /\ IsNodeCell(m2.heap[f]) /\ m2.heap[f].leaf /\ m2.heap[f].depth = Digits
      /\ m2.heap[f].key = key /\ f \in DOMAIN m2.heap
  BY <1>1, <1>4, <1>5, <1>6 DEF Grown, SameHeader, Added
<1>8. Good(m2, R \cup {f}, {}, F, E, w)
  <2>1. \A b \in ((E \cup {f}) \ E) \cap DOMAIN m2.heap :
          IsNodeCell(m2.heap[b]) => m2.heap[b].leaf \/ m2.heap[b].current_size > 1
    BY <1>7
  <2> QED
    BY <1>6, <2>1, Thicken
<1>9. NewNodes(m2, m)
  BY <1>4, <1>5, <1>6 DEF Grown, NewNodes, Added
<1> QED
  BY <1>4, <1>7, <1>8, <1>9 DEF Added

(* insert of a reference into a node that its key belongs below. *)
Takes(n, d, key) ==
  /\ Child(n, d) = Null => CanInsert(n)
  /\ ~n.leaf => Child(n, d) = Null /\ Digit(key, n.depth) = d /\ Agree(n.key, key, n.depth - 1)

(* A reference enters a node that takes it: the frame below a leaf, a leaf *)
(* with the frame below an inner node.                                     *)
LEMMA PutReferenceIs ==
  ASSUME NEW m, NEW R, NEW F, NEW E, NEW w, Good(m, R, {}, F, E, w),
         NEW a \in DOMAIN m.heap, IsNodeCell(m.heap[a]), NEW d \in AllDigits, NEW key \in Nat,
         Takes(m.heap[a], d, key), NEW page \in CachedPages,
         NEW m2, m2 = PutReference(m, a, d, key, page)
  PROVE  Good(m2, R, {}, F, E, w) /\ Grown(m2, m, a, d)
<1>1. CASE m.heap[a].leaf
  <2>1. m2 = PutFrame(m, a, d, page) /\ (Child(m.heap[a], d) = Null => CanInsert(m.heap[a]))
    BY <1>1 DEF PutReference, Takes
  <2> QED
    BY <1>1, <2>1, PutFrameIs
<1>2. CASE ~m.heap[a].leaf
  <2> DEFINE m1 == NewLeaf(m, key, page)
             f == Fresh(m)
             n == m.heap[a]
  <2>1. m2 = PutChild(m1, a, d, f)
    BY <1>2 DEF PutReference
  <2>2. /\ Good(m1, R \cup {f}, {}, F, E, w) /\ NewNodes(m1, m)
        /\ f \in DOMAIN m1.heap \ DOMAIN m.heap
        /\ IsNodeCell(m1.heap[f]) /\ m1.heap[f].leaf
        /\ m1.heap[f].depth = Digits /\ m1.heap[f].key = key
    BY NewLeafIs
  <2> HIDE DEF m1, f
  <2>3. a \in DOMAIN m1.heap /\ m1.heap[a] = n
    BY <2>2 DEF NewNodes
  <2>4. /\ Child(n, d) = Null /\ CanInsert(n) /\ Digit(key, n.depth) = d
        /\ Agree(n.key, key, n.depth - 1)
    BY <1>2 DEF Takes
  <2>5. n.depth < Digits
    <3>1. n.depth \in 1 .. Digits /\ n.depth # Digits
      BY <1>2, CellIs, NodeIs
    <3> QED
      BY <3>1, Parameters
  <2>6. LinkOK(m1.heap, f, a, d)
    BY <1>2, <2>2, <2>3, <2>4, <2>5 DEF LinkOK
  <2>7. R \subseteq DOMAIN m.heap
    BY DEF Good, Shape
  <2> HIDE DEF n
  <2>8. Good(m2, (R \cup {f}) \ {f}, {}, F, E, w) /\ Linked(m2, m1, a, d, f)
    <3>1. f \in R \cup {f} /\ IsNodeCell(m1.heap[a]) /\ Child(m1.heap[a], d) = Null
          /\ CanInsert(m1.heap[a])
      BY <2>3, <2>4 DEF n
    <3> QED
      BY <2>1, <2>2, <2>3, <2>6, <3>1, LinkFirst
  <2>9. (R \cup {f}) \ {f} = R
    BY <2>2, <2>7
  <2>10. Grown(m2, m, a, d)
    <3>1. DOMAIN m.heap \subseteq DOMAIN m2.heap
      BY <2>2, <2>8 DEF Linked, NewNodes
    <3>2. \A b \in DOMAIN m.heap : IsNodeCell(m.heap[b]) /\ b # a => m2.heap[b] = m.heap[b]
      BY <2>2, <2>8 DEF Linked, NewNodes
    <3>3. /\ IsNodeCell(m2.heap[a]) /\ ArraysOK(m2.heap[a]) /\ SameHeader(m2.heap[a], m.heap[a])
          /\ m2.heap[a].current_size =
               m.heap[a].current_size + (IF Child(m.heap[a], d) = Null THEN 1 ELSE 0)
          /\ \A e \in AllDigits : e # d => Child(m2.heap[a], e) = Child(m.heap[a], e)
      BY <2>3, <2>8 DEF Linked, n
    <3> QED
      BY <3>1, <3>2, <3>3 DEF Grown
  <2> QED
    BY <2>8, <2>9, <2>10
<1> QED
  BY <1>1, <1>2
(* An inner node without children: another root. *)
IsEmptyInner(n, depth, key) ==
  /\ IsNodeCell(n) /\ ~n.leaf /\ n.type = 1 /\ n.depth = depth /\ n.key = key /\ n.current_size = 0
  /\ ArraysOK(n) /\ CanInsert(n) /\ \A e \in AllDigits : Child(n, e) = Null
AddedInner(m1, m, f, depth, key) ==
  /\ f \in Nat \ {0} /\ f \notin DOMAIN m.heap /\ DOMAIN m1.heap = DOMAIN m.heap \cup {f}
  /\ IsEmptyInner(m1.heap[f], depth, key)
  /\ \A b \in DOMAIN m.heap : m1.heap[b] = m.heap[b]

(* A new inner node is a root without children. *)
LEMMA NewInnerIs ==
  ASSUME NEW m, NEW R, NEW F, NEW w, Good(m, R, {}, F, {}, w),
         NEW key \in Nat, NEW depth \in 1 .. Digits, depth < Digits,
         NEW m1, m1 = Malloc(m, NewNode(1, FALSE, depth, key)), NEW f, f = Fresh(m),
         NEW w2, w2 = w - NodeSize[1]
  PROVE  Good(m1, R \cup {f}, {}, F, {f}, w2) /\ AddedInner(m1, m, f, depth, key)
<1> DEFINE n == NewNode(1, FALSE, depth, key)
           E == {}
<1>1. /\ ArraysOK(n) /\ n.type = 1 /\ n.leaf = FALSE /\ n.depth = depth /\ n.key = key
      /\ n.current_size = 0
      /\ n.fix_count = 0 /\ CanInsert(n) /\ \A e \in AllDigits : Child(n, e) = Null
  <2> DEFINE no == FALSE
             t == 1
  <2>1. t \in 1 .. 4 /\ no \in BOOLEAN
    OBVIOUS
  <2>2. n = NewNode(t, no, depth, key)
    OBVIOUS
  <2> HIDE DEF n, no, t
  <2>3. /\ ArraysOK(n) /\ n.type = t /\ n.leaf = no /\ n.depth = depth /\ n.key = key
        /\ n.current_size = 0
        /\ n.fix_count = 0 /\ CanInsert(n) /\ \A e \in AllDigits : Child(n, e) = Null
    BY <2>1, <2>2, NewNodeIs
  <2> QED
    BY <2>3 DEF no, t
<1>2. m1 = Malloc(m, n) /\ Good(m, R, {}, F, E, w)
  OBVIOUS
<1>3. E \cup {f} = {f}
  OBVIOUS
<1> HIDE DEF n, E
<1>4. CellOK(n) /\ CellBytes(n) = NodeSize[1] /\ IsNodeCell(n)
  <2>1. depth # Digits
    BY Parameters
  <2> QED
    BY <1>1, <2>1, NodeIs DEF CellOK
<1>5. IsNew(n) /\ f = Fresh(m) /\ w2 = w - CellBytes(n)
  BY <1>1, <1>4 DEF IsNew
<1>6. Good(m1, R \cup {f}, {}, F, E \cup {f}, w2) /\ Added(m1, m, f, n)
  BY ONLY <1>2, <1>4, <1>5, New
<1>7. IsEmptyInner(m1.heap[f], depth, key)
  BY <1>1, <1>4, <1>6 DEF IsEmptyInner, Added
<1> QED
  BY <1>3, <1>6, <1>7 DEF Added, AddedInner

(* Below it go a root that differs in the digit at its depth, and a leaf.  *)
Diverges(n, key, depth) ==
  /\ depth = Depth(n.key, key) /\ depth < n.depth

(* Where a key leaves the prefix of a node, the digits differ. *)
LEMMA DivergesAt ==
  ASSUME NEW n, ArraysOK(n), NEW key \in Nat, NEW depth, Diverges(n, key, depth)
  PROVE  /\ depth \in 1 .. Digits /\ depth < Digits /\ depth < n.depth /\ n.key \in Nat
         /\ Digit(n.key, depth) \in AllDigits /\ Digit(key, depth) \in AllDigits
         /\ Digit(n.key, depth) # Digit(key, depth)
         /\ Agree(key, n.key, depth - 1) /\ Agree(key, key, depth - 1)
<1>1. n.key \in Nat /\ n.depth \in 1 .. Digits
  BY NodeIs
<1>2. depth \in 1 .. Digits /\ depth < Digits /\ depth < n.depth
  <2>1. Depth(n.key, key) \in 1 .. Digits
    BY DepthIs
  <2> QED
    BY <1>1, <2>1, Parameters DEF Diverges
<1>3. Digit(n.key, depth) # Digit(key, depth) /\ Agree(n.key, key, depth - 1)
  BY <1>2, DepthIs DEF Diverges
<1>4. Digit(n.key, depth) \in AllDigits /\ Digit(key, depth) \in AllDigits
  BY <1>1, <1>2, DigitIs
<1>5. Agree(key, n.key, depth - 1) /\ Agree(key, key, depth - 1)
  BY <1>3 DEF Agree
<1> QED
  BY <1>1, <1>2, <1>3, <1>4, <1>5

(* The new root has two children: the old one, and the leaf of the key. *)
LEMMA NewRootIs ==
  ASSUME NEW F, Good(mem, {root}, {}, F, {}, 0), IsNodeCell(mem.heap[root]),
         step.key \in Nat, call.page \in CachedPages,
         Depth(mem.heap[root].key, step.key) < mem.heap[root].depth, NEW f, f = Fresh(mem)
  PROVE  /\ Good(NewRoot(mem), {f}, {}, F, {}, 0) /\ NewNodes(NewRoot(mem), mem)
         /\ IsNodeCell(NewRoot(mem).heap[f]) /\ f \notin DOMAIN mem.heap
<1> DEFINE n == mem.heap[root]
           key == step.key
           depth == Depth(n.key, key)
           m1 == Malloc(mem, NewNode(1, FALSE, depth, key))
           d == Digit(n.key, depth)
           e == Digit(key, depth)
           m2 == PutChild(m1, f, d, root)
           m3 == Account(m2, NodeSize[1])
           m4 == PutReference(m3, f, e, key, call.page)
           w == 0 - NodeSize[1]
<1>1. NewRoot(mem) = m4
  BY DEF NewRoot
<1>2. root \in DOMAIN mem.heap
  BY DEF Good, Shape
<1>3. ArraysOK(n) /\ Diverges(n, key, depth)
  BY <1>2, CellIs DEF Diverges
<1> HIDE DEF n, key, depth
<1>4. /\ depth \in 1 .. Digits /\ depth < Digits /\ depth < n.depth
      /\ d \in AllDigits /\ e \in AllDigits /\ d # e
      /\ Agree(key, n.key, depth - 1) /\ Agree(key, key, depth - 1) /\ key \in Nat
  <2>1. key \in Nat
    BY DEF key
  <2> QED
    BY <1>3, <2>1, DivergesAt
<1>5. /\ Good(m1, {root} \cup {f}, {}, F, {f}, w)
      /\ f \in Nat \ {0} /\ f \notin DOMAIN mem.heap /\ DOMAIN m1.heap = DOMAIN mem.heap \cup {f}
      /\ IsEmptyInner(m1.heap[f], depth, key)
      /\ \A b \in DOMAIN mem.heap : m1.heap[b] = mem.heap[b]
  <2>1. m1 = Malloc(mem, NewNode(1, FALSE, depth, key)) /\ f = Fresh(mem)
    OBVIOUS
  <2>2. depth \in 1 .. Digits /\ depth < Digits /\ key \in Nat /\ Good(mem, {root}, {}, F, {}, 0)
    BY <1>4
  <2>3. w = 0 - NodeSize[1]
    OBVIOUS
  <2> HIDE DEF m1, w
  <2> QED
    <3>1. Good(m1, {root} \cup {f}, {}, F, {f}, w) /\ AddedInner(m1, mem, f, depth, key)
      BY ONLY <2>1, <2>2, <2>3, NewInnerIs
    <3> QED
      BY <3>1 DEF AddedInner
<1> HIDE DEF m1, d, e
<1>6. m1.heap[root] = n /\ root # f /\ f \in DOMAIN m1.heap /\ root \in DOMAIN m1.heap /\ IsNodeCell(n)
  BY <1>2, <1>5 DEF n
<1>7. Good(m2, ({root} \cup {f}) \ {root}, {}, F, {f}, w) /\ Linked(m2, m1, f, d, root)
  <2>1. LinkOK(m1.heap, root, f, d)
    BY <1>4, <1>5, <1>6 DEF LinkOK, IsEmptyInner, d
  <2>2. /\ IsNodeCell(m1.heap[f]) /\ Child(m1.heap[f], d) = Null /\ CanInsert(m1.heap[f])
        /\ root \in {root} \cup {f} /\ m2 = PutChild(m1, f, d, root) /\ d \in AllDigits
    BY <1>4, <1>5 DEF IsEmptyInner
  <2> HIDE DEF m2
  <2> QED
    BY ONLY <1>5, <1>6, <2>1, <2>2, LinkFirst
<1>8. ({root} \cup {f}) \ {root} = {f}
  BY <1>6
<1> HIDE DEF m2
<1>9. Good(m3, {f}, {}, F, {f}, 0) /\ m3.heap = m2.heap
  <2> DEFINE z == NodeSize[1]
  <2>1. z \in Int /\ m3 = Account(m2, z) /\ 0 = w + z
    BY Parameters
  <2> HIDE DEF z, m3, w
  <2>2. Good(m2, {f}, {}, F, {f}, w)
    BY <1>7, <1>8
  <2> QED
    BY ONLY SMTT(30), <2>1, <2>2, AccountIs DEF SameHeap
<1> HIDE DEF m3
<1>10. /\ f \in DOMAIN m3.heap /\ IsNodeCell(m3.heap[f]) /\ Takes(m3.heap[f], e, key)
       /\ m3.heap[f].current_size = 1 /\ Child(m3.heap[f], e) = Null
  <2>1. Child(m3.heap[f], e) = Null /\ m3.heap[f].current_size = 1 /\ f \in DOMAIN m3.heap
    BY <1>4, <1>5, <1>7, <1>9 DEF Linked, IsEmptyInner
  <2>2. IsNodeCell(m3.heap[f]) /\ m3.heap[f].type = 1 /\ ~m3.heap[f].leaf
        /\ m3.heap[f].depth = depth /\ m3.heap[f].key = key
    BY <1>5, <1>7, <1>9 DEF Linked, IsEmptyInner, SameHeader
  <2>3. CanInsert(m3.heap[f])
    BY <2>1, <2>2, Parameters DEF CanInsert
  <2> QED
    BY <1>4, <2>1, <2>2, <2>3 DEF Takes, e
<1>11. Good(m4, {f}, {}, F, {f}, 0) /\ Grown(m4, m3, f, e)
  <2>1. m4 = PutReference(m3, f, e, key, call.page)
    OBVIOUS
  <2> HIDE DEF m4
  <2> QED
    BY ONLY <1>4, <1>9, <1>10, <2>1, call.page \in CachedPages, PutReferenceIs
<1> HIDE DEF m4
<1>12. Good(m4, {f}, {}, F, {}, 0)
  <2>1. m4.heap[f].current_size = 2
    BY <1>10, <1>11 DEF Grown
  <2>2. \A b \in ({f} \ {}) \cap DOMAIN m4.heap :
          IsNodeCell(m4.heap[b]) => m4.heap[b].leaf \/ m4.heap[b].current_size > 1
    BY <2>1
  <2> QED
    BY <1>11, <2>2, Thicken
<1>13. NewNodes(m4, mem)
  BY <1>5, <1>7, <1>9, <1>11 DEF NewNodes, Grown, Linked
<1>14. IsNodeCell(m4.heap[f])
  BY <1>11 DEF Grown
<1> QED
  BY <1>1, <1>5, <1>12, <1>13, <1>14
(* A node that has a parent grows or shrinks: the parent gets the new one. *)
Swapped(m2, m, a, d, c, f) ==
  /\ f \in Nat \ {0} /\ f \notin DOMAIN m.heap /\ DOMAIN m2.heap = (DOMAIN m.heap \ {c}) \cup {f}
  /\ \A b \in DOMAIN m.heap : b # c /\ b # a => m2.heap[b] = m.heap[b]
  /\ a # c /\ IsNodeCell(m2.heap[a]) /\ ArraysOK(m2.heap[a])
  /\ SameHeader(m2.heap[a], m.heap[a]) /\ m2.heap[a].current_size = m.heap[a].current_size
  /\ \A e \in AllDigits : Child(m2.heap[a], e) = IF e = d THEN f ELSE Child(m.heap[a], e)
HasGrown(n, o, t) ==
  /\ IsNodeCell(n) /\ n.type = t /\ n.leaf = o.leaf /\ n.depth = o.depth /\ n.key = o.key
  /\ n.current_size = o.current_size
IsLinked(h, R, a, d, c) ==
  /\ a \in DOMAIN h /\ IsNodeCell(h[a]) /\ d \in AllDigits /\ c \in DOMAIN h /\ R \subseteq DOMAIN h
  /\ Child(h[a], d) = c /\ c # Null /\ c # a /\ LinkOK(h, c, a, d) /\ c \notin R
  /\ ArraysOK(h[a]) /\ (h[a].leaf <=> h[a].depth = Digits)
  /\ (IsNodeCell(h[c]) <=> ~h[a].leaf)

(* What a child is to its parent. *)
LEMMA LinkedNode ==
  ASSUME NEW m, NEW R, NEW V, NEW F, NEW E, NEW w, Good(m, R, V, F, E, w),
         NEW a, NEW d, NEW c, Leads(m.heap, V, a, d, c)
  PROVE  IsLinked(m.heap, R, a, d, c)
<1>1. a \in DOMAIN m.heap /\ IsNodeCell(m.heap[a]) /\ d \in AllDigits
      /\ Child(m.heap[a], d) = c /\ c # Null
  BY DEF Leads
<1>2. LinkOK(m.heap, c, a, d) /\ c \notin R /\ R \subseteq DOMAIN m.heap
  BY DEF Good, Shape, LinksOK
<1>3. ArraysOK(m.heap[a]) /\ (m.heap[a].leaf <=> m.heap[a].depth = Digits)
  BY <1>1, CellIs
<1>4. m.heap[a].depth \in Nat /\ m.heap[a].leaf \in BOOLEAN
  BY <1>3, NodeIs
<1>5. c \in DOMAIN m.heap /\ (IsNodeCell(m.heap[c]) <=> ~m.heap[a].leaf)
  BY <1>2 DEF LinkOK
<1>6. c # a
  <2>1. SUFFICES ASSUME c = a PROVE FALSE
    OBVIOUS
  <2>2. ~m.heap[a].leaf
    BY <1>1, <1>5, <2>1
  <2> QED
    BY <1>2, <1>4, <2>1, <2>2 DEF LinkOK
<1> QED
  BY <1>1, <1>2, <1>3, <1>5, <1>6 DEF IsLinked

(* A child is replaced by a copy of another type, and its parent told of   *)
(* it.                                                                     *)
LEMMA SwapIs ==
  ASSUME NEW m, NEW R, NEW F, NEW w, Good(m, R, {}, F, {}, w),
         NEW a, NEW d, NEW c, Leads(m.heap, {}, a, d, c), IsNodeCell(m.heap[c]), c \notin F,
         NEW t \in 1 .. 4, m.heap[c].current_size <= Capacity[t], NEW f, f = Fresh(m),
         NEW m2, m2 = PutChild(Resized(m, c, t), a, d, f)
  PROVE  /\ Good(m2, R, {}, F, {}, w) /\ Swapped(m2, m, a, d, c, f)
         /\ HasGrown(m2.heap[f], m.heap[c], t)
<1> DEFINE V == {<<a, d>>}
           m1 == Resized(m, c, t)
           R1 == R \cup {c}
           R2 == (R1 \ {c}) \cup {f}
<1>1. /\ a \in DOMAIN m.heap /\ IsNodeCell(m.heap[a]) /\ d \in AllDigits /\ c \in DOMAIN m.heap
      /\ Child(m.heap[a], d) = c /\ c # Null /\ c # a /\ LinkOK(m.heap, c, a, d) /\ c \notin R
      /\ ArraysOK(m.heap[a]) /\ (IsNodeCell(m.heap[c]) <=> ~m.heap[a].leaf)
      /\ R \subseteq DOMAIN m.heap
  <2>1. IsLinked(m.heap, R, a, d, c)
    BY LinkedNode
  <2> QED
    BY <2>1 DEF IsLinked
<1>2. Good(m, R1, V, F, {}, w)
  <2>1. Good(m, R \cup {c}, {} \cup {<<a, d>>}, F, {}, w)
    BY Cut
  <2>2. {} \cup {<<a, d>>} = V
    OBVIOUS
  <2> QED
    BY <2>1, <2>2
<1>3. c \in R1 \ {} /\ (\A e : <<c, e>> \notin V) /\ F \ {c} = F
  BY <1>1
<1>4. m1 = Resized(m, c, t) /\ f = Fresh(m) /\ m2 = PutChild(m1, a, d, f)
      /\ IsNodeCell(m.heap[c]) /\ m.heap[c].current_size <= Capacity[t] /\ t \in 1 .. 4
  OBVIOUS
<1> HIDE DEF V, m1, R1
<1>5. Good(m1, R2, V, F, {}, w) /\ Replaced(m1, m, c, f, t)
  <2>1. Good(m1, (R1 \ {c}) \cup {f}, V, F \ {c}, {}, w) /\ Replaced(m1, m, c, f, t)
    BY ONLY <1>2, <1>3, <1>4, Resize
  <2> QED
    BY <1>3, <2>1
<1>6. /\ a \in DOMAIN m1.heap /\ m1.heap[a] = m.heap[a] /\ a # f /\ f \in DOMAIN m1.heap
      /\ Child(m1.heap[a], d) # Null /\ IsNodeCell(m1.heap[a])
  BY <1>1, <1>5 DEF Replaced
<1>7. LinkOK(m1.heap, f, a, d)
  BY <1>1, <1>5, <1>6 DEF Replaced, LinkOK
<1>8. f \in R2 /\ R2 \ {f} = R
  BY <1>1, <1>5 DEF R1, Replaced
<1> HIDE DEF R2
<1>9. Good(m2, R, {}, F, {}, w) /\ Linked(m2, m1, a, d, f)
  <2>1. Good(m1, R2, {<<a, d>>}, F, {}, w)
    BY <1>5 DEF V
  <2>2. Good(m2, R2 \ {f}, {}, F, {}, w) /\ Linked(m2, m1, a, d, f)
    BY ONLY <1>1, <1>4, <1>6, <1>7, <1>8, <2>1, LinkAgain
  <2> QED
    BY <1>8, <2>2
<1>10. Swapped(m2, m, a, d, c, f)
  <2>1. /\ f \in Nat \ {0} /\ f \notin DOMAIN m.heap
        /\ DOMAIN m2.heap = (DOMAIN m.heap \ {c}) \cup {f}
        /\ \A b \in DOMAIN m.heap : b # c /\ b # a => m2.heap[b] = m.heap[b]
    BY <1>5, <1>9 DEF Replaced, Linked
  <2>2. m.heap[a].current_size \in Nat
    BY <1>1, NodeIs
  <2>3. /\ IsNodeCell(m2.heap[a]) /\ ArraysOK(m2.heap[a])
        /\ SameHeader(m2.heap[a], m.heap[a]) /\ m2.heap[a].current_size = m.heap[a].current_size
        /\ \A e \in AllDigits : Child(m2.heap[a], e) = IF e = d THEN f ELSE Child(m.heap[a], e)
    BY <1>6, <1>9, <2>2 DEF Linked
  <2> QED
    BY <1>1, <2>1, <2>3 DEF Swapped
<1>11. HasGrown(m2.heap[f], m.heap[c], t)
  BY <1>5, <1>6, <1>9 DEF Replaced, Linked, HasGrown
<1> QED
  BY <1>9, <1>10, <1>11

(* node_delete: a frame goes, or a node without children. *)
Taken(m2, m, a, d) ==
  /\ DOMAIN m2.heap = DOMAIN m.heap \ {Child(m.heap[a], d)} /\ a \in DOMAIN m2.heap
  /\ \A b \in DOMAIN m2.heap : b # a => m2.heap[b] = m.heap[b]
  /\ IsNodeCell(m2.heap[a]) /\ ArraysOK(m2.heap[a]) /\ SameHeader(m2.heap[a], m.heap[a])
  /\ m2.heap[a].current_size =
       m.heap[a].current_size - (IF Child(m.heap[a], d) = Null THEN 0 ELSE 1)
  /\ \A e \in AllDigits : Child(m2.heap[a], e) = IF e = d THEN Null ELSE Child(m.heap[a], e)

(* node_delete: the child goes, and its bytes. *)
LEMMA RemovedIs ==
  ASSUME NEW m, NEW R, NEW F, NEW w, Good(m, R, {}, F, {}, w),
         NEW a \in DOMAIN m.heap, IsNodeCell(m.heap[a]), NEW d \in AllDigits,
         NEW c, c = Child(m.heap[a], d), c \notin F,
         ~m.heap[a].leaf /\ c # Null => m.heap[c].current_size = 0,
         NEW m2, m2 = Removed(m, a, d)
  PROVE  Good(m2, R, {}, F, {a}, w) /\ Taken(m2, m, a, d)
<1>1. ArraysOK(m.heap[a]) /\ m.heap[a].current_size \in Nat /\ w \in Int /\ Null \notin DOMAIN m.heap
  <2>1. ArraysOK(m.heap[a]) /\ w \in Int /\ DOMAIN m.heap \subseteq Nat \ {0}
    BY CellIs DEF Good, AccountOK, Shape, HeapOK
  <2> QED
    BY <2>1, NodeIs DEF Null
<1>2. CASE c = Null
  <2>1. m2 = m
    BY <1>2 DEF Removed, ChildOf
  <2>2. Good(m2, R, {}, F, {a}, w)
    BY <2>1, Thicken
  <2>3. DOMAIN m.heap \ {c} = DOMAIN m.heap /\ SameHeader(m.heap[a], m.heap[a])
    BY <1>1, <1>2 DEF SameHeader
  <2>4. m.heap[a].current_size = m.heap[a].current_size - (IF c = Null THEN 0 ELSE 1)
    BY <1>1, <1>2
  <2>5. \A e \in AllDigits : Child(m.heap[a], e) = IF e = d THEN Null ELSE Child(m.heap[a], e)
    BY <1>2
  <2> QED
    BY <1>1, <2>1, <2>2, <2>3, <2>4, <2>5 DEF Taken
<1>3. CASE c # Null
  <2> DEFINE V == {<<a, d>>}
             m1 == Free(m, c)
             m3 == Store(m1, a, NodeDelete(m.heap[a], d))
             x == CellBytes(m.heap[c])
             y == IF m.heap[a].leaf THEN FrameSize ELSE NodeSize[m.heap[c].type]
             v == w + x
  <2>1. m2 = Account(m3, -y)
    BY <1>3 DEF Removed, ChildOf
  <2>2. IsLinked(m.heap, R, a, d, c) /\ Leads(m.heap, {}, a, d, c)
    <3>1. Leads(m.heap, {}, a, d, c)
      BY <1>3 DEF Leads
    <3> QED
      BY <3>1, LinkedNode
  <2>3. y = x
    BY <2>2 DEF CellBytes, IsLinked
  <2> HIDE DEF y
  <2>4. Good(m, R \cup {c}, V, F, {}, w)
    <3>1. Good(m, R \cup {c}, {} \cup {<<a, d>>}, F, {}, w)
      BY <2>2, Cut
    <3>2. {} \cup {<<a, d>>} = V
      OBVIOUS
    <3> QED
      BY <3>1, <3>2
  <2>5. LeadsNowhere(m.heap, V, c)
    <3>1. CASE m.heap[a].leaf
      BY <2>2, <3>1 DEF LeadsNowhere, Leads, IsLinked
    <3>2. CASE ~m.heap[a].leaf
      <4>1. ArraysOK(m.heap[c]) /\ m.heap[c].current_size = 0
        BY <1>3, <2>2, <3>2, CellIs DEF IsLinked
      <4>2. \A e \in AllDigits : Child(m.heap[c], e) = Null
        BY <4>1, SizeIs
      <4> QED
        BY <4>2 DEF LeadsNowhere, Leads
    <3> QED
      BY <3>1, <3>2
  <2>6. /\ V = {u \in V : u[1] # c} /\ F \ {c} = F /\ {} \ {c} = {} /\ (R \cup {c}) \ {c} = R
        /\ c \in R \cup {c} /\ m1 = Free(m, c) /\ v = w + CellBytes(m.heap[c])
    BY <2>2 DEF IsLinked
  <2> HIDE DEF V, m1, v
  <2>7. Good(m1, R, V, F, {}, v) /\ Freed(m1, m, c)
    <3>1. Good(m1, (R \cup {c}) \ {c}, V, F \ {c}, {} \ {c}, v) /\ Freed(m1, m, c)
      BY ONLY <2>4, <2>5, <2>6, FreeRoot
    <3> QED
      BY <2>6, <3>1
  <2>8. a \in DOMAIN m1.heap /\ m1.heap[a] = m.heap[a]
    BY <2>2, <2>7 DEF Freed, IsLinked
  <2>9. Good(m3, R, {}, F, {a}, v) /\ Cleared(m3, m1, a, d)
    <3>1. m3 = Store(m1, a, NodeDelete(m1.heap[a], d)) /\ IsNodeCell(m1.heap[a])
          /\ Child(m1.heap[a], d) # Null /\ <<a, d>> \in V /\ d \in AllDigits
      BY <1>3, <2>8 DEF V
    <3> HIDE DEF m3
    <3>2. Good(m3, R, V \ {<<a, d>>}, F, {} \cup {a}, v) /\ Cleared(m3, m1, a, d)
      BY ONLY <2>7, <2>8, <3>1, Clear
    <3>3. V \ {<<a, d>>} = {} /\ {} \cup {a} = {a}
      BY DEF V
    <3> QED
      BY <3>2, <3>3
  <2> HIDE DEF m3
  <2>10. Good(m2, R, {}, F, {a}, w) /\ SameHeap(m2, m3)
    <3> DEFINE z == -y
    <3>1. x \in Nat
      BY <2>7 DEF Freed
    <3>2. z \in Int /\ m2 = Account(m3, z) /\ w = v + z
      BY <1>1, <2>1, <2>3, <3>1 DEF v
    <3> HIDE DEF z
    <3> QED
      BY ONLY <2>9, <3>2, AccountIs
  <2>11. DOMAIN m2.heap = DOMAIN m.heap \ {c} /\ a \in DOMAIN m2.heap
    BY <2>7, <2>8, <2>9, <2>10 DEF Freed, Cleared, SameHeap
  <2>12. \A b \in DOMAIN m2.heap : b # a => m2.heap[b] = m.heap[b]
    BY <2>7, <2>8, <2>9, <2>10, <2>11 DEF Freed, Cleared, SameHeap
  <2>13. /\ IsNodeCell(m2.heap[a]) /\ ArraysOK(m2.heap[a]) /\ SameHeader(m2.heap[a], m.heap[a])
         /\ m2.heap[a].current_size = m.heap[a].current_size - 1
         /\ \A e \in AllDigits : Child(m2.heap[a], e) = IF e = d THEN Null ELSE Child(m.heap[a], e)
    BY <2>8, <2>9, <2>10 DEF Cleared, SameHeap
  <2> QED
    BY <1>3, <2>10, <2>11, <2>12, <2>13 DEF Taken
<1> QED
  BY <1>2, <1>3

(* A node without frames or children goes, or is put back. *)
LEMMA FreeNodeIs ==
  ASSUME NEW m, NEW R, NEW V, NEW F, NEW E, NEW w, Good(m, R, V, F, E, w),
         NEW c \in R, IsNodeCell(m.heap[c]), LeadsNowhere(m.heap, V, c), NEW m2, m2 = FreeNode(m, c),
         NEW V2, V2 = {v \in V : v[1] # c}
  PROVE  /\ Good(m2, R \ {c}, V2, F \ {c}, E \ {c}, w)
         /\ Freed(m2, m, c)
<1> DEFINE m1 == Free(m, c)
           x == CellBytes(m.heap[c])
           v == w + x
           z == -x
           R2 == R \ {c}
           F2 == F \ {c}
           E2 == E \ {c}
<1>1. m1 = Free(m, c) /\ v = w + CellBytes(m.heap[c])
  OBVIOUS
<1>2. m2 = Account(m1, z)
  BY DEF FreeNode, CellBytes
<1>3. w \in Int
  BY DEF Good, AccountOK
<1> HIDE DEF m1, v
<1>4. Good(m1, R2, V2, F2, E2, v) /\ Freed(m1, m, c)
  BY <1>1, FreeRoot
<1>5. z \in Int /\ w = v + z
  BY <1>1, <1>3, <1>4 DEF Freed
<1> HIDE DEF z, R2, F2, E2
<1>6. Good(m2, R2, V2, F2, E2, w) /\ SameHeap(m2, m1)
  BY ONLY <1>2, <1>4, <1>5, AccountIs
<1> QED
  BY <1>4, <1>6 DEF SameHeap, Freed, R2, F2, E2
(* A new node between a node and its child takes both. *)
LEMMA GoesDeeper ==
  ASSUME NEW a, NEW c, NEW key, a.depth \in 1 .. Digits - 1,
         Agree(a.key, c.key, a.depth - 1), Digit(c.key, a.depth) = Digit(key, a.depth),
         Agree(a.key, key, a.depth - 1)
  PROVE  a.depth < Depth(c.key, key)
<1> DEFINE k == a.depth
<1>1. k \in 0 .. Digits - 1 /\ Digits \in Nat
  BY Parameters
<1>2. Agree(c.key, key, k)
  <2>1. ASSUME NEW i \in 1 .. k PROVE Digit(c.key, i) = Digit(key, i)
    <3>1. CASE i = k
      BY <3>1
    <3>2. CASE i # k
      <4>1. i \in 1 .. k - 1
        BY <1>1, <3>2
      <4> QED
        BY <4>1 DEF Agree
    <3> QED
      BY <3>1, <3>2
  <2> QED
    BY <2>1 DEF Agree
<1> HIDE DEF k
<1>3. k < Depth(c.key, key)
  BY <1>1, <1>2, DepthIs
<1> QED
  BY <1>3 DEF k

(* A node between parent and child has two children, too. *)
LEMMA BranchedIs ==
  ASSUME NEW m, NEW R, NEW F, Good(m, R, {}, F, {}, 0),
         NEW a, a = step.node, NEW d, d = NextDigit, NEW c, Leads(m.heap, {}, a, d, c),
         ~m.heap[a].leaf, Agree(m.heap[a].key, step.key, m.heap[a].depth - 1),
         d = Digit(step.key, m.heap[a].depth), step.key \in Nat, call.page \in CachedPages,
         Depth(m.heap[c].key, step.key) < m.heap[c].depth
  PROVE  /\ Good(Branched(m), R, {}, F, {}, 0) /\ a \in DOMAIN Branched(m).heap
         /\ IsNodeCell(Branched(m).heap[a]) /\ DOMAIN m.heap \subseteq DOMAIN Branched(m).heap
         /\ \A b \in DOMAIN m.heap : IsNodeCell(m.heap[b]) => IsNodeCell(Branched(m).heap[b])
<1> DEFINE n == m.heap[c]
           p == m.heap[a]
           key == step.key
           depth == Depth(n.key, key)
           f == Fresh(m)
           m1 == Malloc(m, NewNode(1, FALSE, depth, key))
           e == Digit(key, depth)
           d2 == Digit(n.key, depth)
           m2 == PutReference(m1, f, e, key, call.page)
           m3 == PutChild(m2, f, d2, c)
           m4 == PutChild(m3, a, d, f)
           w == 0 - NodeSize[1]
           V == {<<a, d>>}
           R1 == R \cup {f}
           R2 == R1 \cup {c}
<1>1. Branched(m) = Account(m4, NodeSize[1])
  <2>1. ChildOf(m, step.node, NextDigit) = c
    BY DEF Leads, ChildOf
  <2> QED
    BY <2>1 DEF Branched
<1>2. IsLinked(m.heap, R, a, d, c) /\ IsNodeCell(n)
  <2>1. IsLinked(m.heap, R, a, d, c)
    BY LinkedNode
  <2> QED
    BY <2>1 DEF IsLinked
<1>3. ArraysOK(n) /\ Diverges(n, key, depth) /\ key \in Nat /\ c \in DOMAIN m.heap
      /\ a \in DOMAIN m.heap /\ IsNodeCell(p) /\ a # c /\ d \in AllDigits /\ R \subseteq DOMAIN m.heap
      /\ Child(p, d) = c /\ c # Null /\ c \notin R
  BY <1>2, CellIs DEF Diverges, IsLinked
<1>4. p.depth < depth
  <2>1. p.depth \in 1 .. Digits - 1
    <3>1. p.depth \in 1 .. Digits /\ p.depth # Digits
      BY <1>2, NodeIs DEF IsLinked
    <3> QED
      BY <3>1, Parameters
  <2>2. Agree(p.key, n.key, p.depth - 1) /\ Digit(n.key, p.depth) = d
    BY <1>2 DEF IsLinked, LinkOK
  <2> HIDE DEF p, n
  <2>3. Digit(n.key, p.depth) = Digit(key, p.depth) /\ Agree(p.key, key, p.depth - 1)
    BY <2>2 DEF p
  <2> QED
    BY <2>1, <2>2, <2>3, GoesDeeper
<1>5. d = Digit(key, p.depth) /\ Agree(p.key, key, p.depth - 1) /\ ~p.leaf
  OBVIOUS
<1> HIDE DEF n, p, key, depth
<1>6. /\ depth \in 1 .. Digits /\ depth < Digits /\ depth < n.depth
      /\ d2 \in AllDigits /\ e \in AllDigits /\ d2 # e
      /\ Agree(key, n.key, depth - 1) /\ Agree(key, key, depth - 1)
  BY <1>3, DivergesAt
<1>7. Good(m1, R1, {}, F, {f}, w) /\ AddedInner(m1, m, f, depth, key)
  <2>1. m1 = Malloc(m, NewNode(1, FALSE, depth, key)) /\ f = Fresh(m) /\ w = 0 - NodeSize[1]
    OBVIOUS
  <2>2. depth \in 1 .. Digits /\ depth < Digits /\ key \in Nat /\ Good(m, R, {}, F, {}, 0)
    BY <1>3, <1>6
  <2> HIDE DEF m1, f, w
  <2> QED
    BY ONLY <2>1, <2>2, NewInnerIs
<1> HIDE DEF f, m1, d2, e, R1, R2, V
<1>8. /\ f \in DOMAIN m1.heap /\ IsNodeCell(m1.heap[f]) /\ Takes(m1.heap[f], e, key)
      /\ m1.heap[f].current_size = 0 /\ Child(m1.heap[f], e) = Null
      /\ f \notin DOMAIN m.heap /\ f # a /\ f # c /\ f \in Nat \ {0}
  <2>1. IsEmptyInner(m1.heap[f], depth, key) /\ f \in DOMAIN m1.heap /\ f \notin DOMAIN m.heap
        /\ f \in Nat \ {0}
    BY <1>7 DEF AddedInner
  <2> QED
    BY <1>3, <1>6, <2>1 DEF IsEmptyInner, Takes, e
<1>9. Good(m2, R1, {}, F, {f}, w) /\ Grown(m2, m1, f, e)
  <2>1. m2 = PutReference(m1, f, e, key, call.page) /\ call.page \in CachedPages
    OBVIOUS
  <2> HIDE DEF m2
  <2> QED
    BY ONLY <1>3, <1>6, <1>7, <1>8, <2>1, PutReferenceIs
<1> HIDE DEF m2
<1>10. /\ a \in DOMAIN m2.heap /\ c \in DOMAIN m2.heap /\ m2.heap[a] = p /\ m2.heap[c] = n
       /\ \A b \in DOMAIN m.heap : IsNodeCell(m.heap[b]) => m2.heap[b] = m.heap[b]
       /\ DOMAIN m.heap \subseteq DOMAIN m2.heap
  <2>1. \A b \in DOMAIN m.heap : b \in DOMAIN m1.heap /\ m1.heap[b] = m.heap[b] /\ b # f
    BY <1>7 DEF AddedInner
  <2>2. \A b \in DOMAIN m.heap : IsNodeCell(m.heap[b]) => m2.heap[b] = m.heap[b]
    BY <1>9, <2>1 DEF Grown
  <2>3. DOMAIN m.heap \subseteq DOMAIN m2.heap
    BY <1>9, <2>1 DEF Grown
  <2>4. m2.heap[a] = p /\ m2.heap[c] = n
    BY <1>2, <1>3, <2>2 DEF p, n
  <2> QED
    BY <1>3, <2>2, <2>3, <2>4
<1>11. Good(m2, R2, V, F, {f}, w)
  <2>1. Leads(m2.heap, {}, a, d, c)
    BY <1>3, <1>10 DEF Leads
  <2>2. Good(m2, R1 \cup {c}, {} \cup {<<a, d>>}, F, {f}, w)
    BY <1>9, <2>1, Cut
  <2>3. {} \cup {<<a, d>>} = V /\ R1 \cup {c} = R2
    BY DEF V, R2
  <2> QED
    BY <2>2, <2>3
<1>12. /\ f \in DOMAIN m2.heap /\ IsNodeCell(m2.heap[f]) /\ ~m2.heap[f].leaf
       /\ m2.heap[f].depth = depth /\ m2.heap[f].key = key /\ m2.heap[f].type = 1
       /\ m2.heap[f].current_size = 1 /\ Child(m2.heap[f], d2) = Null
  <2>1. IsEmptyInner(m1.heap[f], depth, key)
    BY <1>7 DEF AddedInner
  <2>2. m2.heap[f].current_size = 1 /\ Child(m2.heap[f], d2) = Null
    BY <1>6, <1>8, <1>9, <2>1 DEF IsEmptyInner, Grown
  <2> QED
    BY <1>8, <1>9, <2>1, <2>2 DEF IsEmptyInner, Grown, SameHeader
<1>13. Good(m3, R1, V, F, {f}, w) /\ Linked(m3, m2, f, d2, c)
  <2>1. CanInsert(m2.heap[f])
    BY <1>12, Parameters DEF CanInsert
  <2>2. MayTake(m2.heap, V, f, d2)
    BY <1>12, <2>1 DEF MayTake
  <2>3. LinkOK(m2.heap, c, f, d2)
    BY <1>2, <1>6, <1>10, <1>12 DEF LinkOK, d2
  <2>4. c \in R2 /\ m3 = PutChild(m2, f, d2, c)
    BY DEF R2
  <2> HIDE DEF m3
  <2>5. Good(m3, R2 \ {c}, V \ {<<f, d2>>}, F, {f}, w) /\ Linked(m3, m2, f, d2, c)
    BY ONLY <1>6, <1>11, <1>12, <2>2, <2>3, <2>4, Link
  <2>6. R2 \ {c} = R1 /\ V \ {<<f, d2>>} = V
    BY <1>3, <1>8 DEF R1, R2, V
  <2> QED
    BY <2>5, <2>6
<1> HIDE DEF m3
<1>14. Good(m3, R1, {<<a, d>>}, F, {}, w)
  <2>1. m3.heap[f].current_size = 2
    BY <1>12, <1>13 DEF Linked
  <2>2. \A b \in ({f} \ {}) \cap DOMAIN m3.heap :
          IsNodeCell(m3.heap[b]) => m3.heap[b].leaf \/ m3.heap[b].current_size > 1
    BY <2>1
  <2>3. Good(m3, R1, V, F, {}, w)
    BY <1>13, <2>2, Thicken
  <2> QED
    BY <2>3 DEF V
<1>15. /\ a \in DOMAIN m3.heap /\ m3.heap[a] = p /\ f \in DOMAIN m3.heap
       /\ IsNodeCell(m3.heap[f]) /\ m3.heap[f].depth = depth /\ m3.heap[f].key = key
  BY <1>8, <1>10, <1>12, <1>13 DEF Linked, SameHeader
<1>16. Good(m4, R, {}, F, {}, w) /\ Linked(m4, m3, a, d, f)
  <2>1. LinkOK(m3.heap, f, a, d)
    BY <1>4, <1>5, <1>15 DEF LinkOK
  <2>2. f \in R1 /\ m4 = PutChild(m3, a, d, f) /\ IsNodeCell(m3.heap[a])
        /\ Child(m3.heap[a], d) # Null /\ d \in AllDigits
    BY <1>3, <1>15 DEF R1
  <2> HIDE DEF m4
  <2>3. Good(m4, R1 \ {f}, {}, F, {}, w) /\ Linked(m4, m3, a, d, f)
    BY ONLY <1>14, <1>15, <2>1, <2>2, LinkAgain
  <2>4. R1 \ {f} = R
    BY <1>3, <1>8 DEF R1
  <2> QED
    BY <2>3, <2>4
<1> HIDE DEF m4
<1>17. Good(Branched(m), R, {}, F, {}, 0) /\ SameHeap(Branched(m), m4)
  <2> DEFINE z == NodeSize[1]
             m5 == Branched(m)
  <2>1. z \in Int /\ m5 = Account(m4, z) /\ 0 = w + z
    BY <1>1, Parameters
  <2> HIDE DEF z, m5, w
  <2>2. Good(m5, R, {}, F, {}, 0) /\ SameHeap(m5, m4)
    BY ONLY <1>16, <2>1, AccountIs
  <2> QED
    BY <2>2 DEF m5
<1>18. DOMAIN m.heap \subseteq DOMAIN Branched(m).heap
  BY <1>10, <1>13, <1>16, <1>17 DEF Linked, SameHeap
<1>19. IsNodeCell(Branched(m).heap[a])
  BY <1>16, <1>17 DEF Linked, SameHeap
<1>20. ASSUME NEW b \in DOMAIN m.heap, IsNodeCell(m.heap[b]) PROVE IsNodeCell(Branched(m).heap[b])
  <2>1. CASE b = a
    BY <1>19, <2>1
  <2>2. CASE b # a
    <3>1. b # f /\ m2.heap[b] = m.heap[b]
      BY <1>8, <1>10, <1>20
    <3>2. b \in DOMAIN m2.heap
      BY <1>10
    <3>3. m3.heap[b] = m.heap[b] /\ b \in DOMAIN m3.heap
      BY <1>13, <3>1, <3>2 DEF Linked
    <3>4. m4.heap[b] = m.heap[b]
      BY <1>16, <2>2, <3>3 DEF Linked
    <3> QED
      BY <1>17, <1>20, <3>4 DEF SameHeap
  <2> QED
    BY <2>1, <2>2
<1> QED
  BY <1>3, <1>17, <1>18, <1>19, <1>20

(* decrease_node_size: the next smaller type has room for the children. *)
LEMMA DecreaseIs ==
  ASSUME NEW n, ArraysOK(n), n.current_size > 0, ~CanDelete(n)
  PROVE  n.type - 1 \in 1 .. 4 /\ n.current_size <= Capacity[n.type - 1]
<1>1. n.type \in 1 .. 4 /\ n.current_size \in Nat
  BY NodeIs
<1>2. n.type # 1
  BY <1>1 DEF CanDelete
<1>3. n.type - 1 \in 1 .. 4
  BY <1>1, <1>2
<1>4. Capacity[n.type - 1] \in Nat
  BY <1>3, Parameters
<1>5. ~(n.current_size > Capacity[n.type - 1])
  BY <1>2 DEF CanDelete
<1> QED
  BY <1>1, <1>3, <1>4, <1>5

(* A node that is full has a type above. *)
LEMMA IncreaseIs ==
  ASSUME NEW n, ArraysOK(n), ~CanInsert(n)
  PROVE  /\ n.type + 1 \in 1 .. 4 /\ n.current_size < Capacity[n.type + 1]
         /\ n.current_size <= Capacity[n.type + 1]
<1>1. n.type \in 1 .. 4 /\ n.current_size \in Nat /\ n.type # 4 /\ n.current_size <= Capacity[n.type]
  BY NodeIs DEF CanInsert, ArraysOK
<1>2. n.type \in 1 .. 3 /\ n.type + 1 \in 1 .. 4
  BY <1>1
<1>3. Capacity[n.type] < Capacity[n.type + 1]
  BY <1>2, Parameters
<1>4. Capacity[n.type] \in Nat /\ Capacity[n.type + 1] \in Nat
  BY <1>2, Parameters
<1> QED
  BY <1>1, <1>2, <1>3, <1>4

(* Without the frame: what is left, and what takes the place of the node. *)
Rest(rest, m, a, leaf) ==
  /\ a \in DOMAIN rest.heap /\ IsNodeCell(rest.heap[a]) /\ ArraysOK(rest.heap[a])
  /\ SameHeader(rest.heap[a], m.heap[a]) /\ rest.heap[a].current_size >= 1
  /\ \A b \in DOMAIN m.heap : IsNodeCell(m.heap[b]) /\ b # a /\ b # leaf =>
       b \in DOMAIN rest.heap /\ rest.heap[b] = m.heap[b]
Outcome(r, rest, a) ==
  \/ r.mem = rest /\ r.top = a /\ rest.heap[a].current_size > 1
  \/ /\ rest.heap[a].current_size = 1
     /\ r.mem = FreeNode(rest, a) /\ r.top = SingleChild(rest.heap[a])
  \/ /\ rest.heap[a].current_size > 1 /\ ~CanDelete(rest.heap[a])
     /\ r.mem = Decreased(rest, a) /\ r.top = Fresh(rest)

LEMMA WithoutFrameIs ==
  ASSUME NEW m, NEW R, NEW F, Good(m, R, {}, F, {}, 0), \A b \in F : IsNodeCell(m.heap[b]),
         NEW a, NEW d, NEW leaf, Leads(m.heap, {}, a, d, leaf), IsNodeCell(m.heap[leaf]),
         m.heap[leaf].leaf, leaf \notin F, NEW last \in AllDigits,
         NEW r, r = WithoutFrame(m, a, d, last)
  PROVE  \E rest : Good(rest, R, {}, F, {a}, 0) /\ Rest(rest, m, a, leaf) /\ Outcome(r, rest, a)
<1> DEFINE less == Removed(m, leaf, last)
           n == less.heap[leaf]
           c == Child(m.heap[leaf], last)
<1>1. IsLinked(m.heap, R, a, d, leaf) /\ ChildOf(m, a, d) = leaf
  <2>1. IsLinked(m.heap, R, a, d, leaf)
    BY LinkedNode
  <2> QED
    BY <2>1 DEF IsLinked, ChildOf
<1>2. /\ a \in DOMAIN m.heap /\ IsNodeCell(m.heap[a]) /\ d \in AllDigits /\ leaf \in DOMAIN m.heap
      /\ Child(m.heap[a], d) = leaf /\ leaf # Null /\ leaf # a /\ ~m.heap[a].leaf
      /\ ArraysOK(m.heap[a]) /\ F \subseteq DOMAIN m.heap /\ Null \notin DOMAIN m.heap
  BY <1>1 DEF IsLinked, Good, Shape, HeapOK, Fixes, Null
<1>3. c # Null => c \in DOMAIN m.heap /\ ~IsNodeCell(m.heap[c])
  <2>1. SUFFICES ASSUME c # Null PROVE c \in DOMAIN m.heap /\ ~IsNodeCell(m.heap[c])
    OBVIOUS
  <2>2. Leads(m.heap, {}, leaf, last, c)
    BY <1>2, <2>1 DEF Leads
  <2>3. IsLinked(m.heap, R, leaf, last, c)
    BY <2>2, LinkedNode
  <2> QED
    BY <2>3 DEF IsLinked
<1>4. c \notin F /\ c = Child(m.heap[leaf], last) /\ less = Removed(m, leaf, last)
  BY <1>2, <1>3
<1> HIDE DEF c, less
<1>5. Good(less, R, {}, F, {leaf}, 0) /\ Taken(less, m, leaf, last)
  BY <1>2, <1>4, RemovedIs
<1>6. /\ leaf \in DOMAIN less.heap /\ IsNodeCell(n) /\ ArraysOK(n) /\ n.leaf /\ n.current_size \in Nat
  BY <1>5, NodeIs DEF Taken, SameHeader
<1>7. Good(less, R, {}, F, {}, 0)
  <2>1. \A b \in ({leaf} \ {}) \cap DOMAIN less.heap :
          IsNodeCell(less.heap[b]) => less.heap[b].leaf \/ less.heap[b].current_size > 1
    BY <1>6
  <2> QED
    BY <1>5, <2>1, Thicken
<1>8. \A b \in DOMAIN m.heap : IsNodeCell(m.heap[b]) /\ b # leaf =>
        b \in DOMAIN less.heap /\ less.heap[b] = m.heap[b]
  BY <1>2, <1>3, <1>4, <1>5 DEF Taken
<1>9. a \in DOMAIN less.heap /\ less.heap[a] = m.heap[a] /\ Leads(less.heap, {}, a, d, leaf)
  BY <1>2, <1>8 DEF Leads
<1>10. m.heap[a].current_size \in Nat /\ m.heap[a].current_size > 1
  BY <1>2, NodeIs DEF Good, Thick
<1>11. /\ n.current_size > 0 /\ CanDelete(n) => r = [mem |-> less, top |-> a]
       /\ n.current_size > 0 /\ ~CanDelete(n) =>
            r = [mem |-> PutChild(Decreased(less, leaf), a, d, Fresh(less)), top |-> a]
       /\ LET rest == Removed(less, a, d) IN
          /\ n.current_size = 0 /\ rest.heap[a].current_size = 1 =>
               r = [mem |-> FreeNode(rest, a), top |-> SingleChild(rest.heap[a])]
          /\ n.current_size = 0 /\ rest.heap[a].current_size # 1 =>
               r = IF CanDelete(rest.heap[a]) THEN [mem |-> rest, top |-> a]
                   ELSE [mem |-> Decreased(rest, a), top |-> Fresh(rest)]
  <2> DEFINE rest == Removed(less, a, d)
             z == n.current_size
             y == rest.heap[a].current_size
  <2>1. r = CASE z > 0 /\ CanDelete(n) -> [mem |-> less, top |-> a]
              [] z > 0 /\ ~CanDelete(n) ->
                   [mem |-> PutChild(Decreased(less, leaf), a, d, Fresh(less)), top |-> a]
              [] z = 0 /\ y = 1 -> [mem |-> FreeNode(rest, a), top |-> SingleChild(rest.heap[a])]
              [] z = 0 /\ y # 1 ->
                   IF CanDelete(rest.heap[a]) THEN [mem |-> rest, top |-> a]
                   ELSE [mem |-> Decreased(rest, a), top |-> Fresh(rest)]
    BY <1>1 DEF WithoutFrame, less
  <2>2. z > 0 => z # 0
    BY <1>6
  <2> HIDE DEF z, y, rest, n
  <2>3. /\ z > 0 /\ CanDelete(n) => r = [mem |-> less, top |-> a]
        /\ z > 0 /\ ~CanDelete(n) =>
             r = [mem |-> PutChild(Decreased(less, leaf), a, d, Fresh(less)), top |-> a]
        /\ z = 0 /\ y = 1 => r = [mem |-> FreeNode(rest, a), top |-> SingleChild(rest.heap[a])]
        /\ z = 0 /\ y # 1 =>
               r = IF CanDelete(rest.heap[a]) THEN [mem |-> rest, top |-> a]
                   ELSE [mem |-> Decreased(rest, a), top |-> Fresh(rest)]
    BY ONLY <2>1, <2>2
  <2> QED
    BY <2>3 DEF z, y, rest
<1>12. CASE n.current_size > 0 /\ CanDelete(n)
  <2>1. r.mem = less /\ r.top = a
    BY <1>11, <1>12
  <2>2. Good(less, R, {}, F, {a}, 0)
    BY <1>7, Thicken
  <2>3. Rest(less, m, a, leaf)
    BY <1>2, <1>8, <1>9, <1>10 DEF Rest, SameHeader
  <2>4. Outcome(r, less, a)
    BY <1>9, <1>10, <2>1 DEF Outcome
  <2> QED
    BY <2>2, <2>3, <2>4
<1>13. CASE n.current_size > 0 /\ ~CanDelete(n)
  <2> DEFINE f == Fresh(less)
             t == n.type - 1
             rest == PutChild(Resized(less, leaf, t), a, d, f)
  <2>1. r.mem = rest /\ r.top = a
    BY <1>11, <1>13 DEF Decreased
  <2>2. t \in 1 .. 4 /\ n.current_size <= Capacity[t]
    BY <1>6, <1>13, DecreaseIs
  <2>3. f = Fresh(less) /\ rest = PutChild(Resized(less, leaf, t), a, d, f)
    OBVIOUS
  <2> HIDE DEF f, t, rest
  <2>4. /\ Good(rest, R, {}, F, {}, 0) /\ Swapped(rest, less, a, d, leaf, f)
        /\ HasGrown(rest.heap[f], less.heap[leaf], t)
    <3>1. IsNodeCell(less.heap[leaf]) /\ less.heap[leaf].current_size <= Capacity[t] /\ leaf \notin F
      BY <1>6, <2>2
    <3> QED
      BY ONLY <1>7, <1>9, <2>2, <2>3, <3>1, SwapIs
  <2>5. Good(rest, R, {}, F, {a}, 0)
    BY <2>4, Thicken
  <2>6. Rest(rest, m, a, leaf)
    <3>1. /\ a \in DOMAIN rest.heap /\ IsNodeCell(rest.heap[a]) /\ ArraysOK(rest.heap[a])
          /\ SameHeader(rest.heap[a], m.heap[a])
          /\ rest.heap[a].current_size = m.heap[a].current_size
      BY <1>2, <1>9, <2>4 DEF Swapped
    <3>2. \A b \in DOMAIN m.heap : IsNodeCell(m.heap[b]) /\ b # a /\ b # leaf =>
            b \in DOMAIN rest.heap /\ rest.heap[b] = m.heap[b]
      BY <1>8, <2>4 DEF Swapped
    <3> QED
      BY <1>10, <3>1, <3>2 DEF Rest
  <2>7. Outcome(r, rest, a)
    BY <1>9, <1>10, <2>1, <2>4 DEF Outcome, Swapped
  <2> QED
    BY <2>5, <2>6, <2>7
<1>14. CASE n.current_size = 0
  <2> DEFINE rest == Removed(less, a, d)
             y == rest.heap[a].current_size
  <2>1. /\ y = 1 => r = [mem |-> FreeNode(rest, a), top |-> SingleChild(rest.heap[a])]
        /\ y # 1 => r = IF CanDelete(rest.heap[a]) THEN [mem |-> rest, top |-> a]
                        ELSE [mem |-> Decreased(rest, a), top |-> Fresh(rest)]
    BY <1>11, <1>14
  <2>2. rest = Removed(less, a, d)
    OBVIOUS
  <2> HIDE DEF rest
  <2>3. Good(rest, R, {}, F, {a}, 0) /\ Taken(rest, less, a, d)
    <3>1. /\ IsNodeCell(less.heap[a]) /\ leaf = Child(less.heap[a], d) /\ leaf \notin F
          /\ (~less.heap[a].leaf /\ leaf # Null => less.heap[leaf].current_size = 0)
          /\ d \in AllDigits /\ a \in DOMAIN less.heap
      BY <1>2, <1>9, <1>14
    <3> QED
      BY ONLY <1>7, <2>2, <3>1, RemovedIs
  <2>4. y = m.heap[a].current_size - 1 /\ y \in Nat /\ y >= 1
    BY <1>2, <1>9, <1>10, <2>3 DEF Taken
  <2>5. Rest(rest, m, a, leaf)
    <3>1. /\ a \in DOMAIN rest.heap /\ IsNodeCell(rest.heap[a]) /\ ArraysOK(rest.heap[a])
          /\ SameHeader(rest.heap[a], m.heap[a])
      BY <1>9, <2>3 DEF Taken
    <3>2. \A b \in DOMAIN m.heap : IsNodeCell(m.heap[b]) /\ b # a /\ b # leaf =>
            b \in DOMAIN rest.heap /\ rest.heap[b] = m.heap[b]
      BY <1>2, <1>8, <1>9, <2>3 DEF Taken
    <3> QED
      BY <2>4, <3>1, <3>2 DEF Rest
  <2>6. Outcome(r, rest, a)
    <3>1. CASE y = 1
      BY <2>1, <3>1 DEF Outcome
    <3>2. CASE y # 1
      <4>1. y > 1
        <5>1. y \in Nat /\ y >= 1 /\ y # 1
          BY <2>4, <3>2
        <5> HIDE DEF y
        <5> QED
          BY ONLY <5>1
      <4> QED
        BY <2>1, <3>2, <4>1 DEF Outcome
    <3> QED
      BY <3>1, <3>2
  <2> QED
    BY <2>3, <2>5, <2>6
<1> QED
  BY <1>6, <1>12, <1>13, <1>14
(* A node with one child goes, the child takes its place: at the root, or  *)
(* below a parent.                                                         *)
LEMMA OnlyChild ==
  ASSUME NEW m, NEW R, NEW V, NEW F, NEW E, NEW w, Good(m, R, V, F, E, w),
         NEW a \in DOMAIN m.heap, IsNodeCell(m.heap[a]), m.heap[a].current_size = 1,
         \A e : <<a, e>> \notin V
  PROVE  \E d \in AllDigits : /\ Leads(m.heap, V, a, d, SingleChild(m.heap[a]))
                              /\ LeadsNowhere(m.heap, V \cup {<<a, d>>}, a)
<1>1. ArraysOK(m.heap[a])
  BY CellIs
<1>2. PICK d \in AllDigits :
        /\ Child(m.heap[a], d) # Null /\ SingleChild(m.heap[a]) = Child(m.heap[a], d)
        /\ \A e \in AllDigits : e # d => Child(m.heap[a], e) = Null
  BY <1>1, SizeIs
<1>3. Leads(m.heap, V, a, d, SingleChild(m.heap[a]))
  BY <1>2 DEF Leads
<1>4. LeadsNowhere(m.heap, V \cup {<<a, d>>}, a)
  BY <1>2 DEF LeadsNowhere, Leads
<1> QED
  BY <1>3, <1>4

(* A root with one child goes, and the child is the root. *)
LEMMA RootCollapses ==
  ASSUME NEW m, NEW F, NEW a, Good(m, {a}, {}, F, {a}, 0), IsNodeCell(m.heap[a]),
         ~m.heap[a].leaf, m.heap[a].current_size = 1,
         NEW m2, m2 = FreeNode(m, a), NEW x, x = SingleChild(m.heap[a])
  PROVE  /\ Good(m2, {x}, {}, F \ {a}, {}, 0) /\ x # Null /\ IsNodeCell(m2.heap[x])
<1>1. a \in DOMAIN m.heap /\ \A e : <<a, e>> \notin {}
  BY DEF Good, Shape
<1>2. PICK d \in AllDigits : Leads(m.heap, {}, a, d, x) /\ LeadsNowhere(m.heap, {} \cup {<<a, d>>}, a)
  BY <1>1, OnlyChild
<1>3. IsLinked(m.heap, {a}, a, d, x)
  BY <1>2, LinkedNode
<1> DEFINE R2 == {a} \cup {x}
           V2 == {} \cup {<<a, d>>}
<1>4. Good(m, R2, V2, F, {a}, 0)
  BY <1>2, Cut
<1>5. {} = {v \in V2 : v[1] # a} /\ R2 \ {a} = {x} /\ {a} \ {a} = {} /\ a \in R2
  BY <1>3 DEF IsLinked
<1>6. LeadsNowhere(m.heap, V2, a)
  BY <1>2
<1> HIDE DEF R2, V2
<1>7. Good(m2, R2 \ {a}, {}, F \ {a}, {a} \ {a}, 0) /\ Freed(m2, m, a)
  BY <1>4, <1>5, <1>6, FreeNodeIs
<1>8. x # Null /\ IsNodeCell(m2.heap[x])
  BY <1>3, <1>7 DEF IsLinked, Freed
<1> QED
  BY <1>5, <1>7, <1>8

(* Two links make one. *)
LEMMA LinksJoin ==
  ASSUME NEW h, NEW p, NEW e, NEW a, NEW d, NEW x, LinkOK(h, a, p, e), LinkOK(h, x, a, d),
         ~h[p].leaf, ~h[a].leaf, ArraysOK(h[p]), ArraysOK(h[a]), ArraysOK(h[x])
  PROVE  LinkOK(h, x, p, e)
<1> DEFINE i == h[p].depth
           j == h[a].depth
           k == h[x].depth
<1>1. i \in 1 .. Digits /\ j \in 1 .. Digits /\ k \in 1 .. Digits /\ Digits \in Nat
  BY NodeIs, Parameters
<1>2. /\ i < j /\ Digit(h[a].key, i) = e /\ Agree(h[p].key, h[a].key, i - 1)
      /\ j < k /\ Agree(h[a].key, h[x].key, j - 1)
      /\ x \in DOMAIN h /\ IsNodeCell(h[x])
  BY DEF LinkOK
<1> HIDE DEF i, j, k
<1>3. i < k /\ i \in 1 .. j - 1 /\ 1 .. i - 1 \subseteq 1 .. j - 1
  BY <1>1, <1>2
<1>4. Digit(h[x].key, i) = e
  BY <1>2, <1>3 DEF Agree
<1>5. Agree(h[p].key, h[x].key, i - 1)
  BY <1>2, <1>3 DEF Agree
<1> QED
  BY <1>2, <1>3, <1>4, <1>5 DEF LinkOK, i, k

StillThere(m2, m, c) ==
  \A b \in DOMAIN m.heap : IsNodeCell(m.heap[b]) /\ b # c => b \in DOMAIN m2.heap /\ IsNodeCell(m2.heap[b])

(* Below another node, the parent is told of the child. *)
LEMMA NodeCollapses ==
  ASSUME NEW m, NEW R, NEW F, NEW a, Good(m, R, {}, F, {a}, 0), NEW p, NEW e,
         Leads(m.heap, {}, p, e, a), ~m.heap[p].leaf, ~m.heap[a].leaf,
         m.heap[a].current_size = 1, a \notin F, NEW m2,
         m2 = PutChild(FreeNode(m, a), p, e, SingleChild(m.heap[a]))
  PROVE  Good(m2, R, {}, F, {}, 0) /\ StillThere(m2, m, a)
<1> DEFINE x == SingleChild(m.heap[a])
           m1 == FreeNode(m, a)
           V1 == {<<p, e>>}
           R1 == R \cup {a}
           R2 == R1 \cup {x}
<1>1. IsLinked(m.heap, R, p, e, a)
  BY LinkedNode
<1>2. /\ p \in DOMAIN m.heap /\ IsNodeCell(m.heap[p]) /\ e \in AllDigits /\ a \in DOMAIN m.heap
      /\ Child(m.heap[p], e) = a /\ a # Null /\ a # p /\ LinkOK(m.heap, a, p, e) /\ a \notin R
      /\ ArraysOK(m.heap[p]) /\ IsNodeCell(m.heap[a]) /\ R \subseteq DOMAIN m.heap
  BY <1>1 DEF IsLinked
<1>3. Good(m, R1, V1, F, {a}, 0)
  <2>1. Good(m, R \cup {a}, {} \cup {<<p, e>>}, F, {a}, 0)
    BY Cut
  <2>2. {} \cup {<<p, e>>} = V1
    OBVIOUS
  <2> QED
    BY <2>1, <2>2
<1>4. \A g : <<a, g>> \notin V1
  BY <1>2
<1> HIDE DEF V1
<1>5. PICK d \in AllDigits : Leads(m.heap, V1, a, d, x) /\ LeadsNowhere(m.heap, V1 \cup {<<a, d>>}, a)
  BY <1>2, <1>3, <1>4, OnlyChild
<1> HIDE DEF x, R1
<1>6. IsLinked(m.heap, R1, a, d, x)
  BY <1>3, <1>5, LinkedNode
<1>7. /\ LinkOK(m.heap, x, a, d) /\ x \in DOMAIN m.heap /\ x # a /\ x \notin R /\ IsNodeCell(m.heap[x])
      /\ ArraysOK(m.heap[a])
  BY <1>6 DEF IsLinked, R1
<1>8. LinkOK(m.heap, x, p, e)
  <2>1. ArraysOK(m.heap[x])
    BY <1>7, CellIs
  <2> QED
    BY <1>2, <1>7, <2>1, LinksJoin
<1> DEFINE V2 == V1 \cup {<<a, d>>}
<1>9. Good(m, R2, V2, F, {a}, 0)
  BY <1>3, <1>5, Cut
<1>10. V1 = {v \in V2 : v[1] # a} /\ {a} \ {a} = {} /\ a \in R2 /\ F \ {a} = F /\ x \in R2
       /\ (R2 \ {a}) \ {x} = R /\ x \in R2 \ {a}
  BY <1>2, <1>7 DEF V1, R1
<1>11. LeadsNowhere(m.heap, V2, a) /\ m1 = FreeNode(m, a) /\ IsNodeCell(m.heap[a])
       /\ m2 = PutChild(m1, p, e, x)
  BY <1>2, <1>5 DEF x
<1> HIDE DEF V2, R2, m1
<1>12. Good(m1, R2 \ {a}, V1, F, {}, 0) /\ Freed(m1, m, a)
  <2>1. Good(m1, R2 \ {a}, V1, F \ {a}, {a} \ {a}, 0) /\ Freed(m1, m, a)
    BY ONLY <1>9, <1>10, <1>11, FreeNodeIs
  <2> QED
    BY <1>10, <2>1
<1>13. /\ p \in DOMAIN m1.heap /\ m1.heap[p] = m.heap[p] /\ x \in DOMAIN m1.heap
       /\ m1.heap[x] = m.heap[x]
  BY <1>2, <1>7, <1>12 DEF Freed
<1>14. Good(m2, R, {}, F, {}, 0) /\ Linked(m2, m1, p, e, x)
  <2>1. LinkOK(m1.heap, x, p, e)
    BY <1>8, <1>13 DEF LinkOK
  <2>2. Good(m1, R2 \ {a}, {<<p, e>>}, F, {}, 0)
    BY <1>12 DEF V1
  <2>3. IsNodeCell(m1.heap[p]) /\ Child(m1.heap[p], e) # Null
    BY <1>2, <1>13
  <2>4. Good(m2, (R2 \ {a}) \ {x}, {}, F, {}, 0) /\ Linked(m2, m1, p, e, x)
    BY ONLY <1>2, <1>10, <1>11, <1>13, <2>1, <2>2, <2>3, LinkAgain
  <2> QED
    BY <1>10, <2>4
<1>15. StillThere(m2, m, a)
  BY <1>12, <1>14 DEF StillThere, Freed, Linked
<1> QED
  BY <1>14, <1>15

(* The pointer to a child that stays is written once more. *)
LEMMA LinkTheSame ==
  ASSUME NEW m, NEW R, NEW F, NEW E, NEW w, Good(m, R, {}, F, E, w),
         NEW p, NEW e, NEW a, Leads(m.heap, {}, p, e, a), NEW m2, m2 = PutChild(m, p, e, a)
  PROVE  Good(m2, R, {}, F, E, w) /\ StillThere(m2, m, Null)
<1>1. IsLinked(m.heap, R, p, e, a)
  BY LinkedNode
<1>2. Good(m, R \cup {a}, {<<p, e>>}, F, E, w)
  <2>1. Good(m, R \cup {a}, {} \cup {<<p, e>>}, F, E, w)
    BY Cut
  <2>2. {} \cup {<<p, e>>} = {<<p, e>>}
    OBVIOUS
  <2> QED
    BY <2>1, <2>2
<1> DEFINE R1 == R \cup {a}
<1>3. /\ p \in DOMAIN m.heap /\ e \in AllDigits /\ IsNodeCell(m.heap[p]) /\ a \in R1
      /\ LinkOK(m.heap, a, p, e) /\ Child(m.heap[p], e) # Null /\ R1 \ {a} = R
      /\ m2 = PutChild(m, p, e, a)
  BY <1>1 DEF IsLinked
<1> HIDE DEF R1
<1>4. Good(m2, R1 \ {a}, {}, F, E, w) /\ Linked(m2, m, p, e, a)
  <2>1. Good(m, R1, {<<p, e>>}, F, E, w)
    BY <1>2 DEF R1
  <2> QED
    BY ONLY <1>3, <2>1, LinkAgain
<1> QED
  BY <1>3, <1>4 DEF StillThere, Linked

-----------------------------------------------------------------------------
(* The invariant.  Between the steps of a call the memory is a tree below  *)
(* the root, with the nodes of F fixed.                                    *)
MemOK(m, r, F) ==
  Good(m, {r} \ {Null}, {}, F, {}, 0) /\ (r # Null => IsNodeCell(m.heap[r]))
IsKey(k) == \E key \in CachedKeys : k = Transform(key)

(* A stack of invocations, with those of more depth above. *)
Frames == [node : Nat, next : Nat \ {0}]
IsStack(s) == s \in Seq(Frames) /\ s # << >>
NodesOf(s) == {s[i].node : i \in 1 .. Len(s)}
Deepens(h, s) ==
  /\ \A i \in 1 .. Len(s) : s[i].node \in DOMAIN h /\ IsNodeCell(h[s[i].node])
  /\ \A i, j \in 1 .. Len(s) : i < j => h[s[i].node].depth < h[s[j].node].depth
Apart(h, s) ==
  /\ \A i \in 1 .. Len(s) : s[i].node \in DOMAIN h /\ IsNodeCell(h[s[i].node])
  /\ \A i, j \in 1 .. Len(s) : s[i].node = s[j].node => i = j
Visited(h, s) ==
  {v \in (DOMAIN h) \X AllDigits :
     \E i \in 1 .. Len(s) : /\ s[i].node = v[1]
                            /\ \E j \in 1 .. s[i].next - 1 : Order(h[v[1]])[j] = v[2]}

Simple(kind) == step \in [do : {kind}, key : CachedKeys]
AtRest == step = Idle /\ MemOK(mem, root, {})
Inserting == Simple("insert") /\ call.kind = "insert" /\ MemOK(mem, root, {})
Deleting == Simple("delete_reference") /\ MemOK(mem, root, {})
Getting == Simple("get_page") /\ MemOK(mem, root, {})
InsertingBelow ==
  /\ step \in [do : {"insert_recursive"}, key : Nat, node : Nat]
  /\ call.kind = "insert" /\ IsKey(step.key)
  /\ root # Null /\ MemOK(mem, root, {step.node}) /\ IsNodeCell(Node)
  /\ step.node # root => CanInsert(Node) /\ Agree(Node.key, step.key, Node.depth - 1)
DeletingBelow ==
  /\ step \in [do : {"delete_reference_recursive"}, key : Nat, parent : Nat, node : Nat]
  /\ IsKey(step.key) /\ root # Null /\ MemOK(mem, root, {step.parent})
  /\ Leads(mem.heap, {}, step.parent, Digit(step.key, mem.heap[step.parent].depth), step.node)
  /\ ~mem.heap[step.parent].leaf /\ ~Node.leaf
GettingBelow ==
  /\ step \in [do : {"get_page_recursive"}, key : Nat, node : Nat]
  /\ IsKey(step.key) /\ root # Null /\ MemOK(mem, root, {step.node}) /\ IsNodeCell(Node)
AboutToUpdate ==
  step = [do |-> "update_range"] /\ call.kind = "update_range" /\ MemOK(mem, root, {})
Updating ==
  /\ step = [do |-> "update_range", stack |-> step.stack] /\ IsStack(step.stack)
  /\ call.kind = "update_range" /\ root # Null
  /\ MemOK(mem, root, NodesOf(step.stack)) /\ Deepens(mem.heap, step.stack)
AboutToDestroy == step = [do |-> "destroy"] /\ MemOK(mem, root, {})
Destroying ==
  /\ step = [do |-> "destroy", stack |-> step.stack] /\ IsStack(step.stack)
  /\ Apart(mem.heap, step.stack)
  /\ \E F, E, w : Good(mem, NodesOf(step.stack), Visited(mem.heap, step.stack), F, E, w)
Empty(m) ==
  /\ m = [heap |-> m.heap, current_size |-> m.current_size]
  /\ m.heap = [a \in DOMAIN m.heap |-> m.heap[a]] /\ DOMAIN m.heap = {}
Departed == step = Gone /\ Empty(mem)

Phase ==
  \/ AtRest \/ Inserting \/ Deleting \/ Getting
  \/ InsertingBelow \/ DeletingBelow \/ GettingBelow
  \/ AboutToUpdate \/ Updating \/ AboutToDestroy \/ Destroying \/ Departed
Calling ==
  /\ recent \in Seq(CachedKeys) /\ Len(recent) < RingLength
  /\ call \in CacheCalls \cup {NoCall} /\ answer \in CachedPages \cup {0}
HeapInv == Calling /\ Phase

LEMMA PhaseIs ==
  ASSUME Phase
  PROVE  /\ step = Idle => AtRest
         /\ step.do = "insert" => Inserting
         /\ step.do = "delete_reference" => Deleting
         /\ step.do = "get_page" => Getting
         /\ step.do = "insert_recursive" => InsertingBelow
         /\ step.do = "delete_reference_recursive" => DeletingBelow
         /\ step.do = "get_page_recursive" => GettingBelow
         /\ step = [do |-> "update_range"] => AboutToUpdate
         /\ Walking("update_range") => Updating
         /\ step = [do |-> "destroy"] => AboutToDestroy
         /\ Walking("destroy") => Destroying
         /\ step = Gone => Departed
<1> DEFINE Goal == /\ step = Idle => AtRest
                   /\ step.do = "insert" => Inserting
                   /\ step.do = "delete_reference" => Deleting
                   /\ step.do = "get_page" => Getting
                   /\ step.do = "insert_recursive" => InsertingBelow
                   /\ step.do = "delete_reference_recursive" => DeletingBelow
                   /\ step.do = "get_page_recursive" => GettingBelow
                   /\ step = [do |-> "update_range"] => AboutToUpdate
                   /\ Walking("update_range") => Updating
                   /\ step = [do |-> "destroy"] => AboutToDestroy
                   /\ Walking("destroy") => Destroying
                   /\ step = Gone => Departed
<1>1. CASE AtRest
  <2>1. step = [do |-> "nothing"]
    BY <1>1 DEF AtRest, Idle
  <2> QED
    BY <1>1, <2>1 DEF Walking, Gone
<1>2. CASE Inserting
  <2>1. step.do = "insert"
    BY <1>2 DEF Inserting, Simple
  <2> QED
    BY <1>2, <2>1 DEF Walking, Gone, Idle
<1>3. CASE Deleting
  <2>1. step.do = "delete_reference"
    BY <1>3 DEF Deleting, Simple
  <2> QED
    BY <1>3, <2>1 DEF Walking, Gone, Idle
<1>4. CASE Getting
  <2>1. step.do = "get_page"
    BY <1>4 DEF Getting, Simple
  <2> QED
    BY <1>4, <2>1 DEF Walking, Gone, Idle
<1>5. CASE InsertingBelow
  <2>1. step.do = "insert_recursive"
    BY <1>5 DEF InsertingBelow
  <2> QED
    BY <1>5, <2>1 DEF Walking, Gone, Idle
<1>6. CASE DeletingBelow
  <2>1. step.do = "delete_reference_recursive"
    BY <1>6 DEF DeletingBelow
  <2> QED
    BY <1>6, <2>1 DEF Walking, Gone, Idle
<1>7. CASE GettingBelow
  <2>1. step.do = "get_page_recursive"
    BY <1>7 DEF GettingBelow
  <2> QED
    BY <1>7, <2>1 DEF Walking, Gone, Idle
<1>8. CASE AboutToUpdate
  <2>1. step = [do |-> "update_range"]
    BY <1>8 DEF AboutToUpdate
  <2>2. step.do = "update_range" /\ "stack" \notin DOMAIN step
    BY <2>1
  <2> QED
    BY <1>8, <2>2 DEF Walking, Gone, Idle
<1>9. CASE Updating
  <2>1. step = [do |-> "update_range", stack |-> step.stack]
    BY <1>9 DEF Updating
  <2>2. step.do = "update_range" /\ step # [do |-> "update_range"]
    <3>1. step.do = "update_range" /\ "stack" \in DOMAIN step
      BY <2>1
    <3>2. "stack" \notin DOMAIN [do |-> "update_range"]
      OBVIOUS
    <3> QED
      BY <3>1, <3>2
  <2> QED
    BY <1>9, <2>2 DEF Walking, Gone, Idle
<1>10. CASE AboutToDestroy
  <2>1. step = [do |-> "destroy"]
    BY <1>10 DEF AboutToDestroy
  <2>2. step.do = "destroy" /\ "stack" \notin DOMAIN step
    BY <2>1
  <2> QED
    BY <1>10, <2>2 DEF Walking, Gone, Idle
<1>11. CASE Destroying
  <2>1. step = [do |-> "destroy", stack |-> step.stack]
    BY <1>11 DEF Destroying
  <2>2. step.do = "destroy" /\ step # [do |-> "destroy"]
    <3>1. step.do = "destroy" /\ "stack" \in DOMAIN step
      BY <2>1
    <3>2. "stack" \notin DOMAIN [do |-> "destroy"]
      OBVIOUS
    <3> QED
      BY <3>1, <3>2
  <2> QED
    BY <1>11, <2>2 DEF Walking, Gone, Idle
<1>12. CASE Departed
  <2>1. step.do = "gone"
    BY <1>12 DEF Departed, Gone
  <2> QED
    BY <1>12, <2>1 DEF Walking, Idle
<1> QED
  BY <1>1, <1>2, <1>3, <1>4, <1>5, <1>6, <1>7, <1>8, <1>9, <1>10, <1>11, <1>12 DEF Phase

(* What a call has. *)
LEMMA CallIs ==
  ASSUME Calling
  PROVE  /\ call.kind = "insert" => call.key \in CachedKeys /\ call.page \in CachedPages
         /\ call.kind = "update_range" => /\ call.from \in CachedKeys /\ call.to \in CachedKeys
                                          /\ call.page \in CachedPages
<1>1. call \in CacheCalls \cup {NoCall}
  BY DEF Calling
<1>2. ASSUME call.kind = "insert" PROVE call \in [kind : {"insert"}, key : CachedKeys, page : CachedPages]
  BY <1>1, <1>2 DEF CacheCalls, NoCall
<1>3. ASSUME call.kind = "update_range"
      PROVE  call \in [kind : {"update_range"}, from : CachedKeys, to : CachedKeys, page : CachedPages]
  BY <1>1, <1>3 DEF CacheCalls, NoCall
<1> QED
  BY <1>2, <1>3

(* Memory with a root, and without. *)
LEMMA MemIs ==
  ASSUME NEW m, NEW r, NEW F, MemOK(m, r, F), r # Null
  PROVE  Good(m, {r}, {}, F, {}, 0) /\ IsNodeCell(m.heap[r]) /\ r \in DOMAIN m.heap
<1>1. {r} \ {Null} = {r}
  OBVIOUS
<1>2. Good(m, {r}, {}, F, {}, 0) /\ IsNodeCell(m.heap[r])
  BY <1>1 DEF MemOK
<1>3. {r} \subseteq DOMAIN m.heap
  BY <1>2 DEF Good, Shape
<1> QED
  BY <1>2, <1>3

(* A tree below a root is a memory with a root. *)
LEMMA MemAgain ==
  ASSUME NEW m, NEW r, NEW F, Good(m, {r}, {}, F, {}, 0), IsNodeCell(m.heap[r])
  PROVE  MemOK(m, r, F) /\ r # Null /\ r \in DOMAIN m.heap /\ r \in Nat
<1>1. HeapOK(m.heap) /\ {r} \subseteq DOMAIN m.heap
  BY DEF Good, Shape
<1>2. DOMAIN m.heap \subseteq Nat \ {0}
  BY <1>1 DEF HeapOK
<1>3. r \in DOMAIN m.heap /\ r # Null /\ r \in Nat
  BY <1>1, <1>2 DEF Null
<1>4. {r} \ {Null} = {r}
  BY <1>3
<1> QED
  BY <1>3, <1>4 DEF MemOK

(* A memory without a root has no roots. *)
LEMMA MemWithoutRoot ==
  ASSUME NEW m, NEW F
  PROVE  Good(m, {}, {}, F, {}, 0) <=> MemOK(m, Null, F)
<1>1. {Null} \ {Null} = {}
  OBVIOUS
<1> QED
  BY <1>1 DEF MemOK

(* The ring has room for a key. *)
Ring == recent \in Seq(CachedKeys) /\ Len(recent) < RingLength

(* The ring never fills up. *)
LEMMA RememberedIs ==
  ASSUME Ring, NEW key \in CachedKeys, NEW all, all = Remembered(key)
  PROVE  all \in Seq(CachedKeys) /\ Len(all) < RingLength
<1> DEFINE longer == Append(recent, key)
<1>1. RingLength \in Nat \ {0}
  BY RadixHeapAssumption
<1>2. longer \in Seq(CachedKeys) /\ Len(longer) = Len(recent) + 1 /\ Len(recent) \in Nat
  BY DEF Ring
<1>3. all = IF Len(longer) = RingLength THEN Tail(longer) ELSE longer
  BY DEF Remembered
<1> HIDE DEF longer
<1>4. Tail(longer) \in Seq(CachedKeys) /\ Len(Tail(longer)) = Len(longer) - 1
  BY <1>2
<1> QED
  BY <1>1, <1>2, <1>3, <1>4 DEF Ring

(* After a call, and on the way to the next step of one. *)
LEMMA AfterCall ==
  ASSUME Return, recent' \in Seq(CachedKeys), Len(recent') < RingLength,
         answer' \in CachedPages \cup {0}, MemOK(mem', root', {})
  PROVE  HeapInv'
<1>1. call' = NoCall /\ step' = Idle
  BY DEF Return
<1>2. Calling'
  BY <1>1 DEF Calling
<1>3. AtRest'
  BY <1>1 DEF AtRest
<1> QED
  BY <1>2, <1>3 DEF HeapInv, Phase

(* A call that goes on is the same call. *)
LEMMA CallingStays ==
  ASSUME Calling, UNCHANGED <<call, answer>>, recent' \in Seq(CachedKeys), Len(recent') < RingLength
  PROVE  Calling'
BY DEF Calling

(* A call that returns without an answer leaves ring and answer as they    *)
(* are.                                                                    *)
LEMMA AfterReturn ==
  ASSUME Calling, Return, UNCHANGED <<recent, answer>>, MemOK(mem', root', {})
  PROVE  HeapInv'
BY AfterCall DEF Calling

(* Keys keep their value on the way. *)
LEMMA KeyIs ==
  ASSUME NEW k, IsKey(k)
  PROVE  k \in Nat /\ InverseTransform(k) \in CachedKeys
BY TransformIs DEF IsKey

(* The digits of a key at a node and at the leaves. *)
LEMMA DigitOfNode ==
  ASSUME NEW n, ArraysOK(n), NEW key \in Nat
  PROVE  Digit(key, n.depth) \in AllDigits /\ Digit(key, Digits) \in AllDigits
<1>1. n.depth \in 1 .. Digits
  BY NodeIs
<1>2. Digits \in 1 .. Digits
  BY RKeysAssumption
<1> QED
  BY <1>1, <1>2, DigitIs

(* insert. *)
LEMMA InsertFirstKeeps ==
  ASSUME Calling, Inserting, InsertFirst
  PROVE  HeapInv'
<1>1. /\ step.key \in CachedKeys /\ call.kind = "insert" /\ MemOK(mem, root, {})
      /\ root = Null /\ mem' = NewLeaf(mem, Transform(step.key), call.page) /\ root' = Fresh(mem)
      /\ recent' = Remembered(step.key) /\ Return /\ answer' = answer
  BY DEF Inserting, Simple, InsertFirst
<1>2. call.page \in CachedPages
  BY <1>1, CallIs
<1> DEFINE key == Transform(step.key)
           page == call.page
           w == 0
           R == {}
           f == root'
           m2 == mem'
<1>3. Good(mem, R, {}, {}, {}, w)
  BY <1>1, MemWithoutRoot
<1>4. key \in Nat
  BY <1>1, TransformIs
<1>5. m2 = NewLeaf(mem, key, page) /\ f = Fresh(mem) /\ page \in CachedPages
  BY <1>1, <1>2
<1>6. R \cup {f} = {f}
  OBVIOUS
<1> HIDE DEF key, page, w, R, f, m2
<1>7. Good(m2, R \cup {f}, {}, {}, {}, w) /\ IsNodeCell(m2.heap[f])
  BY ONLY <1>3, <1>4, <1>5, NewLeafIs
<1>8. MemOK(mem', root', {})
  BY <1>6, <1>7, MemAgain DEF w, f, m2
<1>9. Ring /\ answer' \in CachedPages \cup {0}
  BY <1>1 DEF Calling, Ring
<1>10. recent' \in Seq(CachedKeys) /\ Len(recent') < RingLength
  BY <1>1, <1>9, RememberedIs
<1> QED
  BY <1>1, <1>8, <1>9, <1>10, AfterCall

(* The root is fixed, and is the first on the way. *)
LEMMA InsertFromRootKeeps ==
  ASSUME Calling, Inserting, InsertFromRoot
  PROVE  HeapInv'
<1> DEFINE k == Transform(step.key)
           m2 == mem'
           F == {}
           F2 == {root}
           w == 0
<1>1. /\ step.key \in CachedKeys /\ call.kind = "insert" /\ MemOK(mem, root, {}) /\ root # Null
      /\ m2 = Fix(mem, root) /\ recent' = Remembered(step.key)
      /\ step' = [do |-> "insert_recursive", key |-> k, node |-> root]
      /\ root' = root /\ UNCHANGED <<call, answer>>
  BY DEF Inserting, Simple, InsertFromRoot
<1>2. Good(mem, {root}, {}, F, {}, w) /\ IsNodeCell(mem.heap[root]) /\ root \in DOMAIN mem.heap \ F
  BY <1>1, MemIs
<1>3. F \cup {root} = F2
  OBVIOUS
<1>4. k \in Nat /\ IsKey(k)
  BY <1>1, TransformIs DEF IsKey
<1> HIDE DEF k, m2, F, F2, w
<1>5. Good(m2, {root}, {}, F \cup {root}, {}, w) /\ Refixed(m2, mem, root)
  BY ONLY <1>1, <1>2, FixIs
<1>6. IsNodeCell(m2.heap[root])
  BY <1>5 DEF Refixed, OnlyFixDiffers
<1>7. MemOK(m2, root, F2) /\ root \in Nat
  BY <1>3, <1>5, <1>6, MemAgain DEF w
<1>8. step' \in [do : {"insert_recursive"}, key : Nat, node : Nat]
  BY <1>1, <1>4, <1>7
<1>9. step'.node = root /\ step'.key = k
  BY <1>1
<1>10. InsertingBelow'
  BY <1>1, <1>4, <1>6, <1>7, <1>8, <1>9 DEF InsertingBelow, Node, m2, F2
<1>11. Ring
  BY DEF Calling, Ring
<1>12. recent' \in Seq(CachedKeys) /\ Len(recent') < RingLength
  BY <1>1, <1>11, RememberedIs
<1>13. Calling'
  BY <1>1, <1>12, CallingStays
<1> QED
  BY <1>10, <1>13 DEF HeapInv, Phase

(* The ring without its oldest key. *)
LEMMA MakeRoomKeeps ==
  ASSUME Calling, Inserting, MakeRoom
  PROVE  HeapInv'
<1>1. /\ MemOK(mem, root, {}) /\ UNCHANGED <<mem, root, answer>>
      /\ recent \in Seq(CachedKeys) /\ Len(recent) < RingLength /\ RingLength \in Nat
  BY RadixHeapAssumption DEF Inserting, MakeRoom, Calling
<1>2. CASE recent = << >>
  <2>1. Return /\ UNCHANGED recent
    BY <1>2 DEF MakeRoom
  <2> QED
    BY <1>1, <2>1, AfterReturn
<1>3. CASE recent # << >>
  <2>1. /\ step' = [do |-> "delete_reference", key |-> Head(recent)]
        /\ recent' = Tail(recent) /\ call' = call
    BY <1>3 DEF MakeRoom
  <2>2. Head(recent) \in CachedKeys /\ Tail(recent) \in Seq(CachedKeys)
        /\ Len(Tail(recent)) = Len(recent) - 1 /\ Len(recent) \in Nat
    BY <1>1, <1>3
  <2>3. Len(recent') < RingLength
    BY <1>1, <2>1, <2>2
  <2>4. Deleting'
    BY <1>1, <2>1, <2>2 DEF Deleting, Simple
  <2>5. Calling'
    BY <1>1, <2>1, <2>2, <2>3, CallingStays
  <2> QED
    BY <2>4, <2>5 DEF HeapInv, Phase
<1> QED
  BY <1>2, <1>3

(* The node a call is at. *)
LEMMA AtNode ==
  ASSUME InsertingBelow
  PROVE  /\ Good(mem, {root}, {}, {step.node}, {}, 0) /\ IsNodeCell(mem.heap[root])
         /\ step.node \in DOMAIN mem.heap /\ IsNodeCell(mem.heap[step.node])
         /\ ArraysOK(mem.heap[step.node]) /\ root # Null
         /\ (mem.heap[step.node].leaf <=> mem.heap[step.node].depth = Digits)
         /\ step.key \in Nat /\ InverseTransform(step.key) \in CachedKeys /\ call.kind = "insert"
<1>1. /\ MemOK(mem, root, {step.node}) /\ root # Null /\ IsNodeCell(mem.heap[step.node])
      /\ IsKey(step.key) /\ call.kind = "insert"
  BY DEF InsertingBelow, Node
<1> DEFINE F == {step.node}
           a == step.node
           w == 0
<1>2. Good(mem, {root}, {}, F, {}, w) /\ IsNodeCell(mem.heap[root])
  BY <1>1, MemIs
<1>3. a \in DOMAIN mem.heap
  BY <1>2 DEF Good, Fixes
<1>4. step.key \in Nat /\ InverseTransform(step.key) \in CachedKeys
  BY <1>1, KeyIs
<1>5. IsNodeCell(mem.heap[a])
  BY <1>1
<1> HIDE DEF F, a, w
<1>6. ArraysOK(mem.heap[a]) /\ (mem.heap[a].leaf <=> mem.heap[a].depth = Digits)
  BY ONLY <1>2, <1>3, <1>5, CellIs
<1> QED
  BY <1>1, <1>2, <1>3, <1>4, <1>6 DEF F, a, w

(* The root grows, and is not fixed. *)
LEMMA GrowRootKeeps ==
  ASSUME Calling, InsertingBelow, GrowRoot
  PROVE  HeapInv'
<1> DEFINE t == mem.heap[root].type + 1
           m2 == mem'
           f == root'
           F == {root}
           w == 0
           R == {root}
           E == {}
           V == {}
<1>1. /\ step.node = root /\ ~CanInsert(mem.heap[root]) /\ m2 = Resized(mem, root, t) /\ f = Fresh(mem)
      /\ step' = [do |-> "insert", key |-> InverseTransform(step.key)]
      /\ UNCHANGED <<recent, call, answer>>
  BY DEF GrowRoot, Node, Increased
<1>2. Good(mem, R, V, F, E, w) /\ root \in DOMAIN mem.heap /\ IsNodeCell(mem.heap[root])
      /\ ArraysOK(mem.heap[root]) /\ InverseTransform(step.key) \in CachedKeys /\ call.kind = "insert"
  BY <1>1, AtNode
<1>3. t \in 1 .. 4 /\ mem.heap[root].current_size <= Capacity[t]
  BY <1>1, <1>2, IncreaseIs
<1>4. root \in R \ E /\ (\A d : <<root, d>> \notin V)
  OBVIOUS
<1>5. (R \ {root}) \cup {f} = {f} /\ F \ {root} = {}
  OBVIOUS
<1> HIDE DEF t, m2, f, F, w, R, E, V
<1>6. Good(m2, (R \ {root}) \cup {f}, V, F \ {root}, E, w) /\ Replaced(m2, mem, root, f, t)
  <2>1. Good(mem, R, V, F, E, w) /\ root \in R \ E /\ IsNodeCell(mem.heap[root]) /\ (\A d : <<root, d>> \notin V)
    BY ONLY <1>2, <1>4
  <2>2. t \in 1 .. 4 /\ mem.heap[root].current_size <= Capacity[t]
    BY ONLY <1>3
  <2>3. m2 = Resized(mem, root, t) /\ f = Fresh(mem)
    BY ONLY <1>1
  <2> QED
    BY ONLY <2>1, <2>2, <2>3, Resize
<1>7. IsNodeCell(m2.heap[f])
  BY <1>6 DEF Replaced
<1>8. MemOK(m2, f, {})
  BY <1>5, <1>6, <1>7, MemAgain DEF w, E, V
<1>9. Inserting'
  BY <1>1, <1>2, <1>8 DEF Inserting, Simple, m2, f
<1>10. Calling'
  BY <1>1 DEF Calling
<1> QED
  BY <1>9, <1>10 DEF HeapInv, Phase

(* Fixing and unfixing in a tree below a root. *)
SameCell(x, n) ==
  /\ IsNodeCell(x) <=> IsNodeCell(n)
  /\ IsNodeCell(n) => /\ SameNode(x, n) /\ x.current_size = n.current_size
                      /\ \A e \in AllDigits : Child(x, e) = Child(n, e)
SameCells(m2, m) ==
  DOMAIN m2.heap = DOMAIN m.heap /\ \A b \in DOMAIN m.heap : SameCell(m2.heap[b], m.heap[b])

(* A fix changes nothing else. *)
LEMMA RefixedIsSame ==
  ASSUME NEW m, NEW m2, NEW a \in DOMAIN m.heap, IsNodeCell(m.heap[a]), Refixed(m2, m, a)
  PROVE  SameCells(m2, m)
<1>1. SameCell(m2.heap[a], m.heap[a])
  BY DEF Refixed, OnlyFixDiffers, SameCell
<1>2. ASSUME NEW b \in DOMAIN m.heap, b # a PROVE SameCell(m2.heap[b], m.heap[b])
  <2>1. m2.heap[b] = m.heap[b]
    BY <1>2 DEF Refixed
  <2> QED
    BY <2>1 DEF SameCell, SameNode
<1>3. DOMAIN m2.heap = DOMAIN m.heap
  BY DEF Refixed
<1> QED
  BY <1>1, <1>2, <1>3 DEF SameCells

(* A node is fixed in a tree below a root. *)
LEMMA FixOK ==
  ASSUME NEW m, NEW r, NEW F, Good(m, {r}, {}, F, {}, 0), IsNodeCell(m.heap[r]),
         NEW a \in DOMAIN m.heap \ F, IsNodeCell(m.heap[a]), NEW m2, m2 = Fix(m, a),
         NEW F2, F2 = F \cup {a}
  PROVE  /\ Good(m2, {r}, {}, F2, {}, 0) /\ MemOK(m2, r, F2) /\ SameCells(m2, m)
         /\ IsNodeCell(m2.heap[r]) /\ r \in DOMAIN m.heap
<1> DEFINE R == {r}
           V == {}
           w == 0
<1>1. Good(m, R, V, F, V, w) /\ R \subseteq DOMAIN m.heap
  BY DEF Good, Shape
<1> HIDE DEF V, w
<1>2. Good(m2, R, V, F \cup {a}, V, w) /\ Refixed(m2, m, a)
  <2> HIDE DEF R
  <2> QED
    BY ONLY <1>1, a \in DOMAIN m.heap \ F, IsNodeCell(m.heap[a]), m2 = Fix(m, a), FixIs
<1>3. SameCells(m2, m)
  BY <1>2, RefixedIsSame
<1>4. IsNodeCell(m2.heap[r]) /\ r \in DOMAIN m.heap
  BY <1>1, <1>3 DEF SameCells, SameCell
<1>5. Good(m2, {r}, {}, F2, {}, 0)
  BY <1>2 DEF V, w
<1> QED
  BY <1>3, <1>4, <1>5, MemAgain

(* A node is unfixed in a tree below a root. *)
LEMMA UnfixOK ==
  ASSUME NEW m, NEW r, NEW F, Good(m, {r}, {}, F, {}, 0), IsNodeCell(m.heap[r]),
         NEW a \in F, IsNodeCell(m.heap[a]), NEW m2, m2 = Unfix(m, a), NEW F2, F2 = F \ {a}
  PROVE  /\ Good(m2, {r}, {}, F2, {}, 0) /\ MemOK(m2, r, F2) /\ SameCells(m2, m)
         /\ IsNodeCell(m2.heap[r]) /\ r \in DOMAIN m.heap
<1> DEFINE R == {r}
           V == {}
           w == 0
<1>1. Good(m, R, V, F, V, w) /\ R \subseteq DOMAIN m.heap /\ a \in DOMAIN m.heap
  BY DEF Good, Shape, Fixes
<1> HIDE DEF V, w
<1>2. Good(m2, R, V, F \ {a}, V, w) /\ Refixed(m2, m, a)
  <2> HIDE DEF R
  <2> QED
    BY ONLY <1>1, a \in F, IsNodeCell(m.heap[a]), m2 = Unfix(m, a), UnfixIs
<1>3. SameCells(m2, m)
  BY <1>1, <1>2, RefixedIsSame
<1>4. IsNodeCell(m2.heap[r]) /\ r \in DOMAIN m.heap
  BY <1>1, <1>3 DEF SameCells, SameCell
<1>5. Good(m2, {r}, {}, F2, {}, 0)
  BY <1>2 DEF V, w
<1> QED
  BY <1>3, <1>4, <1>5, MemAgain

(* The old root and a new leaf go below a new root. *)
LEMMA BranchAtRootKeeps ==
  ASSUME Calling, InsertingBelow, BranchAtRoot
  PROVE  HeapInv'
<1> DEFINE m == NewRoot(mem)
           F == {root}
           f == root'
           m2 == mem'
<1>1. /\ step.node = root /\ Depth(mem.heap[root].key, step.key) < mem.heap[root].depth
      /\ m2 = Unfix(m, root) /\ f = Fresh(mem) /\ Return /\ UNCHANGED <<recent, answer>>
  BY DEF BranchAtRoot, RootDiverges, Node
<1>2. Good(mem, {root}, {}, F, {}, 0) /\ IsNodeCell(mem.heap[root]) /\ root \in DOMAIN mem.heap
      /\ step.key \in Nat /\ call.page \in CachedPages
  BY <1>1, AtNode, CallIs
<1>3. /\ Good(m, {f}, {}, F, {}, 0) /\ NewNodes(m, mem) /\ IsNodeCell(m.heap[f]) /\ f \notin DOMAIN mem.heap
  <2> HIDE DEF F, f
  <2> QED
    BY <1>1, <1>2, NewRootIs
<1>4. IsNodeCell(m.heap[root])
  BY <1>2, <1>3 DEF NewNodes
<1>5. root \in F /\ F \ {root} = {}
  OBVIOUS
<1> HIDE DEF m, F, f, m2
<1>6. MemOK(m2, f, {})
  BY ONLY <1>1, <1>3, <1>4, <1>5, UnfixOK
<1> QED
  BY <1>1, <1>6, AfterReturn DEF m2, f

(* The key belongs below the node. *)
LEMMA PrefixAgrees ==
  ASSUME InsertingBelow, InsertHere
  PROVE  CanInsert(Node) /\ Agree(Node.key, step.key, Node.depth - 1)
<1>1. CASE step.node # root
  BY <1>1 DEF InsertingBelow
<1>2. CASE step.node = root
  <2>1. CanInsert(Node) /\ ~RootDiverges
    BY <1>2 DEF InsertHere
  <2>2. Node.depth \in 1 .. Digits
    BY AtNode, NodeIs DEF Node
  <2>3. CASE Node.depth = 1
    BY <2>1, <2>3 DEF Agree
  <2>4. CASE Node.depth # 1
    <3>1. ~(Depth(Node.key, step.key) < Node.depth)
      BY <1>2, <2>1, <2>4 DEF RootDiverges
    <3> DEFINE p == Node.depth - 1
    <3>2. p \in 0 .. Digits - 1 /\ Digits \in Nat
      BY <2>2, RKeysAssumption
    <3>3. Depth(Node.key, step.key) \in 1 .. Digits
          /\ (Agree(Node.key, step.key, p) <=> p < Depth(Node.key, step.key))
      <4> HIDE DEF p
      <4> QED
        BY <3>2, DepthIs
    <3>4. p < Depth(Node.key, step.key)
      BY <2>2, <3>1, <3>3
    <3> QED
      BY <2>1, <3>3, <3>4
  <2> QED
    BY <2>3, <2>4
<1> QED
  BY <1>1, <1>2

(* The way ends where a leaf, or an inner node without child, takes the    *)
(* reference.                                                              *)
LEMMA InsertReferenceKeeps ==
  ASSUME Calling, InsertingBelow, InsertReference
  PROVE  HeapInv'
<1> DEFINE a == step.node
           key == step.key
           page == call.page
           d == NextDigit
           m == PutReference(mem, a, d, key, page)
           m2 == mem'
           F == {a}
           R == {root}
           V == {}
           w == 0
<1>1. /\ InsertHere /\ (mem.heap[a].leaf \/ Child(mem.heap[a], d) = Null)
      /\ m2 = Unfix(m, a) /\ Return /\ UNCHANGED <<root, recent, answer>>
  BY DEF InsertReference, Node
<1>2. /\ Good(mem, R, {}, F, V, w) /\ IsNodeCell(mem.heap[root]) /\ a \in DOMAIN mem.heap
      /\ IsNodeCell(mem.heap[a]) /\ ArraysOK(mem.heap[a]) /\ key \in Nat /\ page \in CachedPages
  BY AtNode, CallIs
<1>3. CanInsert(mem.heap[a]) /\ Agree(mem.heap[a].key, key, mem.heap[a].depth - 1)
  BY <1>1, PrefixAgrees DEF Node
<1>4. d \in AllDigits /\ d = Digit(key, mem.heap[a].depth)
  BY <1>2, DigitOfNode DEF NextDigit, Node
<1>5. Takes(mem.heap[a], d, key)
  BY <1>1, <1>3, <1>4 DEF Takes
<1>6. root \in R /\ a \in F /\ R \subseteq DOMAIN mem.heap /\ m = PutReference(mem, a, d, key, page)
      /\ F \ {a} = {}
  BY <1>2 DEF Good, Shape
<1> HIDE DEF a, key, page, d, m, m2, F, V, w
<1>7. Good(m, R, {}, F, V, w) /\ Grown(m, mem, a, d)
  <2> HIDE DEF R
  <2> QED
    BY ONLY <1>2, <1>4, <1>5, <1>6, PutReferenceIs
<1>8. IsNodeCell(m.heap[a]) /\ (root # a => m.heap[root] = mem.heap[root])
  BY <1>2, <1>6, <1>7 DEF Grown
<1>9. IsNodeCell(m.heap[root])
  BY <1>2, <1>8
<1>10. Good(m, {root}, {}, F, {}, 0)
  BY <1>7 DEF V, w
<1>11. MemOK(m2, root, {})
  BY ONLY <1>1, <1>6, <1>8, <1>9, <1>10, UnfixOK
<1> QED
  BY <1>1, <1>11, AfterReturn DEF m2

(* The child that insert goes on to, after it has grown if it was full. *)
ReadyChild(m, a, d, c) ==
  /\ Good(m, {root}, {}, {a}, {}, 0) /\ IsNodeCell(m.heap[root])
  /\ Leads(m.heap, {}, a, d, c) /\ IsNodeCell(m.heap[c]) /\ CanInsert(m.heap[c]) /\ c # a
  /\ SameHeader(m.heap[a], mem.heap[a])

(* The child has room afterwards, whether it grew or not. *)
LEMMA ChildGrownIs ==
  ASSUME InsertingBelow, ~Node.leaf, Child(Node, NextDigit) # Null,
         NEW m, m = ChildGrown(mem), NEW a, a = step.node, NEW d, d = NextDigit,
         NEW c2, c2 = ChildOf(m, a, d)
  PROVE  ReadyChild(m, a, d, c2)
<1> DEFINE R == {root}
           F == {a}
           w == 0
           c == Child(mem.heap[a], d)
           n == mem.heap[c]
           t == n.type + 1
           f == Fresh(mem)
<1>1. /\ Good(mem, R, {}, F, {}, w) /\ IsNodeCell(mem.heap[root]) /\ a \in DOMAIN mem.heap
      /\ IsNodeCell(mem.heap[a]) /\ ArraysOK(mem.heap[a]) /\ step.key \in Nat
  BY AtNode
<1>2. d \in AllDigits
  BY <1>1, DigitOfNode DEF NextDigit, Node
<1>3. ~mem.heap[a].leaf /\ c # Null
  BY DEF Node
<1>4. Leads(mem.heap, {}, a, d, c)
  BY <1>1, <1>2, <1>3 DEF Leads
<1>5. IsLinked(mem.heap, R, a, d, c)
  <2> HIDE DEF R, F, w, c
  <2> QED
    BY ONLY <1>1, <1>4, LinkedNode
<1>6. IsNodeCell(n) /\ c # a /\ c # root /\ c \in DOMAIN mem.heap
  BY <1>3, <1>5 DEF IsLinked
<1>7. ArraysOK(n)
  <2> HIDE DEF R, F, w, c
  <2> QED
    BY <1>1, <1>6, CellIs
<1>8. m = IF CanInsert(n) THEN mem ELSE PutChild(Resized(mem, c, t), a, d, f)
  BY DEF ChildGrown, Increased, ChildOf
<1>9. CASE CanInsert(n)
  <2>1. m = mem /\ c2 = c
    BY <1>8, <1>9 DEF ChildOf
  <2> QED
    BY <1>1, <1>4, <1>6, <1>9, <2>1 DEF ReadyChild, SameHeader
<1>10. CASE ~CanInsert(n)
  <2>1. m = PutChild(Resized(mem, c, t), a, d, f) /\ f = Fresh(mem)
    BY <1>8, <1>10
  <2>2. t \in 1 .. 4 /\ n.current_size < Capacity[t] /\ n.current_size <= Capacity[t]
    BY <1>7, <1>10, IncreaseIs
  <2>3. c \notin F
    BY <1>6
  <2>4. Good(m, R, {}, F, {}, w) /\ Swapped(m, mem, a, d, c, f) /\ HasGrown(m.heap[f], n, t)
    <3>1. n.current_size <= Capacity[t] /\ IsNodeCell(n) /\ n = mem.heap[c]
      BY <1>6, <2>2
    <3> HIDE DEF R, F, w, c, n, t, f
    <3> QED
      BY ONLY <1>1, <1>4, <2>1, <2>2, <2>3, <3>1, SwapIs
  <2>5. Child(m.heap[a], d) = f /\ IsNodeCell(m.heap[a]) /\ SameHeader(m.heap[a], mem.heap[a])
        /\ DOMAIN m.heap = (DOMAIN mem.heap \ {c}) \cup {f} /\ f # Null /\ f \notin DOMAIN mem.heap
    BY <1>2, <2>4 DEF Swapped, Null
  <2>6. c2 = f /\ f # a /\ f \in DOMAIN m.heap /\ a \in DOMAIN m.heap
    BY <1>1, <1>6, <2>5 DEF ChildOf
  <2>7. Leads(m.heap, {}, a, d, f)
    BY <1>2, <2>5, <2>6 DEF Leads
  <2>8. IsNodeCell(m.heap[f]) /\ CanInsert(m.heap[f])
    BY <2>2, <2>4 DEF HasGrown, CanInsert
  <2>9. root \in DOMAIN mem.heap
    BY <1>1 DEF Good, Shape
  <2>10. IsNodeCell(m.heap[root])
    <3>1. root # a => m.heap[root] = mem.heap[root]
      BY <1>6, <2>4, <2>9 DEF Swapped
    <3> QED
      BY <1>1, <2>5, <3>1
  <2> QED
    BY <2>4, <2>5, <2>6, <2>7, <2>8, <2>10 DEF ReadyChild
<1> QED
  BY <1>9, <1>10

(* The way ends above a child whose prefix the key leaves, or goes on to   *)
(* the child.                                                              *)
LEMMA InsertBelowKeeps ==
  ASSUME Calling, InsertingBelow, InsertBelow
  PROVE  HeapInv'
<1> DEFINE a == step.node
           key == step.key
           d == NextDigit
           m == ChildGrown(mem)
           c == ChildOf(m, a, d)
           m2 == mem'
           F == {a}
           n == m.heap[a]
           x == m.heap[c]
<1>1. /\ InsertHere /\ ~Node.leaf /\ Child(Node, NextDigit) # Null
      /\ UNCHANGED <<root, recent, answer>>
  BY DEF InsertBelow
<1>2. ReadyChild(m, a, d, c)
  BY <1>1, ChildGrownIs
<1>3. /\ Good(m, {root}, {}, F, {}, 0) /\ IsNodeCell(m.heap[root]) /\ Leads(m.heap, {}, a, d, c)
      /\ IsNodeCell(x) /\ CanInsert(x) /\ c # a /\ SameHeader(n, mem.heap[a]) /\ c # Null
  BY <1>2 DEF ReadyChild, Leads
<1>4. Agree(mem.heap[a].key, key, mem.heap[a].depth - 1) /\ d = Digit(key, mem.heap[a].depth)
  BY <1>1, PrefixAgrees DEF Node, NextDigit
<1>5. key \in Nat /\ call.page \in CachedPages /\ IsKey(key) /\ call.kind = "insert" /\ root # Null
      /\ step \in [do : {"insert_recursive"}, key : Nat, node : Nat]
  BY AtNode, CallIs DEF InsertingBelow
<1>6. ~n.leaf /\ Agree(n.key, key, n.depth - 1) /\ d = Digit(key, n.depth)
  BY <1>1, <1>3, <1>4 DEF SameHeader, Node
<1>7. c \in DOMAIN m.heap /\ a \in DOMAIN m.heap /\ IsNodeCell(n) /\ DOMAIN m.heap \subseteq Nat
  <2>1. LinksOK(m.heap, {root}, {}) /\ HeapOK(m.heap)
    BY <1>3 DEF Good, Shape
  <2>2. LinkOK(m.heap, c, a, d)
    BY <1>3, <2>1 DEF LinksOK
  <2> QED
    BY <1>3, <2>1, <2>2 DEF LinkOK, Leads, HeapOK
<1>8. ArraysOK(x)
  <2> DEFINE R == {root}
             w == 0
             E == {}
  <2>1. Good(m, R, E, F, E, w)
    BY <1>3
  <2> HIDE DEF m, F, R, w, E, a, c
  <2> QED
    BY <1>3, <1>7, <2>1, CellIs
<1>9. CASE Depth(x.key, key) < x.depth
  <2> DEFINE b == Branched(m)
             R == {root}
  <2>1. m2 = Unfix(b, a) /\ Return
    BY <1>9 DEF InsertBelow
  <2>2. /\ Good(b, R, {}, F, {}, 0) /\ a \in DOMAIN b.heap /\ IsNodeCell(b.heap[a])
        /\ \A y \in DOMAIN m.heap : IsNodeCell(m.heap[y]) => IsNodeCell(b.heap[y])
    <3>1. a = step.node /\ d = NextDigit /\ Good(m, R, {}, F, {}, 0) /\ ~m.heap[a].leaf
          /\ Agree(m.heap[a].key, step.key, m.heap[a].depth - 1)
          /\ d = Digit(step.key, m.heap[a].depth) /\ step.key \in Nat
          /\ Depth(m.heap[c].key, step.key) < m.heap[c].depth
      BY <1>3, <1>5, <1>6, <1>9
    <3> HIDE DEF a, d, c, m, F, R
    <3> QED
      BY ONLY <3>1, <1>3, <1>5, BranchedIs
  <2>3. root \in DOMAIN m.heap
    BY <1>3 DEF Good, Shape
  <2>4. IsNodeCell(b.heap[root]) /\ a \in F /\ F \ {a} = {} /\ Good(b, {root}, {}, F, {}, 0)
    BY <1>3, <2>2, <2>3
  <2> HIDE DEF b, a, m, F, m2
  <2>5. MemOK(m2, root, {})
    BY ONLY <2>1, <2>2, <2>4, UnfixOK
  <2> QED
    BY <1>1, <2>1, <2>5, AfterReturn DEF m2
<1>10. CASE ~(Depth(x.key, key) < x.depth)
  <2> DEFINE mid == Fix(m, c)
             F2 == {a, c}
             F3 == {c}
  <2>1. m2 = Unfix(mid, a) /\ step' = [step EXCEPT !.node = c] /\ call' = call
    BY <1>10 DEF InsertBelow
  <2>2. c \in DOMAIN m.heap \ F /\ F2 = F \cup {c} /\ F3 = F2 \ {a} /\ mid = Fix(m, c) /\ a \in F2
    BY <1>3, <1>7
  <2> HIDE DEF a, c, m, F, m2, mid, F2, F3
  <2>3. Good(mid, {root}, {}, F2, {}, 0) /\ SameCells(mid, m) /\ IsNodeCell(mid.heap[root])
    BY <1>3, <2>2, FixOK
  <2>4. IsNodeCell(mid.heap[a]) /\ SameCell(mid.heap[c], x)
    BY <1>7, <2>3 DEF SameCells, SameCell
  <2>5. MemOK(m2, root, F3) /\ SameCells(m2, mid)
    BY <2>1, <2>2, <2>3, <2>4, UnfixOK
  <2>6. SameCell(m2.heap[c], mid.heap[c])
    BY <1>7, <2>3, <2>5 DEF SameCells
  <2> DEFINE y == m2.heap[c]
             p == x.depth - 1
  <2>7. IsNodeCell(y) /\ y.key = x.key /\ y.depth = x.depth /\ CanInsert(y)
    BY <1>3, <2>4, <2>6 DEF SameCell, SameNode, CanInsert
  <2>8. Agree(x.key, key, p)
    <3>1. p \in 0 .. Digits - 1 /\ x.depth \in 1 .. Digits /\ Digits \in Nat
      BY <1>8, NodeIs, RKeysAssumption
    <3> HIDE DEF x
    <3>2. Depth(x.key, key) \in 1 .. Digits /\ (Agree(x.key, key, p) <=> p < Depth(x.key, key))
      <4> HIDE DEF p
      <4> QED
        BY <3>1, DepthIs
    <3> QED
      BY <1>10, <3>1, <3>2
  <2>9. step' \in [do : {"insert_recursive"}, key : Nat, node : Nat] /\ step'.node = c /\ step'.key = key
    BY <1>5, <1>7, <2>1
  <2>10. Agree(y.key, key, y.depth - 1)
    BY <2>7, <2>8
  <2> HIDE DEF y, p
  <2>11. InsertingBelow'
    BY <1>1, <1>5, <2>1, <2>5, <2>7, <2>9, <2>10 DEF InsertingBelow, Node, m2, F3, y
  <2>12. Calling'
    BY <1>1, <2>1 DEF Calling
  <2> QED
    BY <2>11, <2>12 DEF HeapInv, Phase
<1> QED
  BY <1>9, <1>10

(* delete_reference. *)
LEMMA DeleteFromEmptyKeeps ==
  ASSUME Calling, Deleting, DeleteFromEmpty
  PROVE  HeapInv'
<1>1. MemOK(mem', root', {}) /\ Return /\ UNCHANGED <<recent, answer>>
  BY DEF Deleting, DeleteFromEmpty
<1> QED
  BY <1>1, AfterReturn

(* At the root. *)
LEMMA AtRoot ==
  ASSUME MemOK(mem, root, {}), root # Null
  PROVE  /\ Good(mem, {root}, {}, {}, {}, 0) /\ IsNodeCell(mem.heap[root])
         /\ root \in DOMAIN mem.heap /\ ArraysOK(mem.heap[root])
         /\ (mem.heap[root].leaf <=> mem.heap[root].depth = Digits)
<1> DEFINE R == {root}
           F == {}
           w == 0
<1>1. Good(mem, R, F, F, F, w) /\ IsNodeCell(mem.heap[root]) /\ root \in DOMAIN mem.heap
  BY MemIs
<1> HIDE DEF F, w
<1>2. ArraysOK(mem.heap[root]) /\ (mem.heap[root].leaf <=> mem.heap[root].depth = Digits)
  <2> HIDE DEF R
  <2> QED
    BY ONLY <1>1, CellIs
<1> QED
  BY <1>1, <1>2 DEF F, w

(* Without children there are no links. *)
LEMMA EmptyLeadsNowhere ==
  ASSUME NEW h, NEW V, NEW a, ArraysOK(h[a]), h[a].current_size = 0
  PROVE  LeadsNowhere(h, V, a)
<1>1. \A e \in AllDigits : Child(h[a], e) = Null
  BY SizeIs
<1> QED
  BY <1>1 DEF LeadsNowhere, Leads

(* A root that shrinks. *)
LEMMA RootShrinks ==
  ASSUME NEW m, NEW r, NEW F, Good(m, {r}, {}, F, {}, 0), F = {r}, IsNodeCell(m.heap[r]),
         ArraysOK(m.heap[r]), m.heap[r].current_size > 0, ~CanDelete(m.heap[r]),
         NEW m2, m2 = Decreased(m, r), NEW f, f = Fresh(m)
  PROVE  MemOK(m2, f, {}) /\ f # r
<1> DEFINE R == {r}
           E == {}
           V == {}
           w == 0
           t == m.heap[r].type - 1
<1>1. t \in 1 .. 4 /\ m.heap[r].current_size <= Capacity[t]
  BY DecreaseIs
<1>2. Good(m, R, V, F, E, w) /\ IsNodeCell(m.heap[r]) /\ m2 = Resized(m, r, t) /\ f = Fresh(m)
      /\ r \in R \ E /\ (\A d : <<r, d>> \notin V)
  BY DEF Decreased
<1>3. (R \ {r}) \cup {f} = {f} /\ F \ {r} = {} /\ r \in DOMAIN m.heap
  BY DEF Good, Shape
<1> HIDE DEF R, E, V, w, t
<1>4. Good(m2, (R \ {r}) \cup {f}, V, F \ {r}, E, w) /\ Replaced(m2, m, r, f, t)
  BY ONLY <1>1, <1>2, Resize
<1>5. IsNodeCell(m2.heap[f]) /\ f # r
  BY <1>3, <1>4 DEF Replaced
<1>6. Good(m2, {f}, {}, {}, {}, 0)
  BY <1>3, <1>4 DEF E, V, w
<1> QED
  BY <1>5, <1>6, MemAgain

(* Without a node that has too few children, the memory is a tree again. *)
LEMMA ThickAgain ==
  ASSUME NEW m, NEW R, NEW F, NEW a, Good(m, R, {}, F, {a}, 0),
         m.heap[a].leaf \/ m.heap[a].current_size > 1
  PROVE  Good(m, R, {}, F, {}, 0)
<1> DEFINE E == {a}
           E2 == {}
           w == 0
           V == {}
<1>1. Good(m, R, V, F, E, w)
  OBVIOUS
<1>2. \A b \in (E \ E2) \cap DOMAIN m.heap :
        IsNodeCell(m.heap[b]) => m.heap[b].leaf \/ m.heap[b].current_size > 1
  OBVIOUS
<1> HIDE DEF E, E2, w, V
<1>3. Good(m, R, V, F, E2, w)
  BY ONLY <1>1, <1>2, Thicken
<1> QED
  BY <1>3 DEF E2, w, V

(* The root is a leaf: it stays, shrinks or goes. *)
LEMMA DeleteFromRootKeeps ==
  ASSUME Calling, Deleting, DeleteFromRoot
  PROVE  HeapInv'
<1> DEFINE k == DeletedKey
           d == Digit(k, mem.heap[root].depth)
           m1 == Fix(mem, root)
           rest == Removed(m1, root, d)
           n == rest.heap[root]
           m2 == mem'
           R == {root}
           F == {root}
           F0 == {}
           w == 0
           c == Child(m1.heap[root], d)
<1>1. /\ step.key \in CachedKeys /\ MemOK(mem, root, {}) /\ root # Null /\ mem.heap[root].leaf
      /\ Return /\ UNCHANGED <<recent, answer>>
  BY DEF Deleting, Simple, DeleteFromRoot
<1>2. k \in Nat
  BY <1>1, TransformIs DEF DeletedKey
<1>3. /\ Good(mem, {root}, {}, F0, {}, 0) /\ IsNodeCell(mem.heap[root])
      /\ root \in DOMAIN mem.heap \ F0 /\ ArraysOK(mem.heap[root])
  BY <1>1, AtRoot
<1>4. d \in AllDigits
  BY <1>2, <1>3, DigitOfNode
<1>5. F = F0 \cup {root} /\ m1 = Fix(mem, root) /\ rest = Removed(m1, root, d) /\ c = Child(m1.heap[root], d)
  OBVIOUS
<1> HIDE DEF k, d, m1, rest, m2, F0, F, w, c
<1>6. Good(m1, {root}, {}, F, {}, 0) /\ SameCells(m1, mem) /\ IsNodeCell(m1.heap[root])
  BY ONLY <1>3, <1>5, FixOK
<1>7. m1.heap[root].leaf /\ root \in DOMAIN m1.heap
  BY <1>1, <1>3, <1>6 DEF SameCells, SameCell, SameNode
<1>8. c # root
  <2>1. CASE c = Null
    BY <1>1, <2>1
  <2>2. CASE c # Null
    <3> DEFINE V == {}
               u == 0
    <3>1. Good(m1, R, V, F, V, u) /\ Leads(m1.heap, V, root, d, c)
      BY <1>4, <1>5, <1>6, <1>7, <2>2 DEF Leads
    <3> HIDE DEF V, u, R
    <3>2. IsLinked(m1.heap, R, root, d, c)
      BY ONLY <3>1, LinkedNode
    <3> QED
      BY <3>2 DEF IsLinked
  <2> QED
    BY <2>1, <2>2
<1>9. Good(rest, R, {}, F, {root}, 0) /\ Taken(rest, m1, root, d)
  <2> DEFINE u == 0
  <2>1. Good(m1, R, {}, F, {}, u) /\ c \notin F /\ (~m1.heap[root].leaf /\ c # Null => m1.heap[c].current_size = 0)
    BY <1>6, <1>7, <1>8 DEF F
  <2> HIDE DEF u, R
  <2>2. Good(rest, R, {}, F, {root}, u) /\ Taken(rest, m1, root, d)
    BY ONLY <1>4, <1>5, <1>6, <1>7, <2>1, RemovedIs
  <2> QED
    BY <2>2 DEF u
<1>10. IsNodeCell(n) /\ ArraysOK(n) /\ n.leaf /\ root \in DOMAIN rest.heap
  BY <1>7, <1>9 DEF Taken, SameHeader
<1>11. n.current_size \in Nat
  BY <1>10, NodeIs
<1>12. CanDelete(n) => n.current_size > 0
  <2>1. n.type \in 1 .. 4
    BY <1>10, NodeIs
  <2>2. n.type # 1 => Capacity[n.type - 1] \in Nat
    BY <2>1, Parameters
  <2> QED
    BY <1>11, <2>2 DEF CanDelete
<1>13. Good(rest, {root}, {}, F, {}, 0)
  BY <1>9, <1>10, ThickAgain
<1>14. /\ n.current_size = 0 => m2 = FreeNode(rest, root) /\ root' = Null
       /\ n.current_size > 0 /\ ~CanDelete(n) => m2 = Decreased(rest, root) /\ root' = Fresh(rest)
       /\ CanDelete(n) => m2 = Unfix(rest, root) /\ root' = root
  <2> DEFINE A == m2 = FreeNode(rest, root) /\ root' = Null
             B == m2 = Decreased(rest, root) /\ root' = Fresh(rest)
             C == m2 = Unfix(rest, root) /\ root' = root
             z == n.current_size
             D == CanDelete(n)
  <2>1. (CASE z = 0 -> A [] z > 0 /\ ~D -> B [] D -> C)
    BY DEF DeleteFromRoot, rest, m1, d, k, m2
  <2>2. z \in Nat /\ (D => z > 0)
    BY <1>11, <1>12
  <2> DEFINE X == z = 0
             Y == z > 0 /\ ~D
  <2>4. (X => ~Y /\ ~D) /\ (Y => ~X /\ ~D) /\ (D => ~X /\ ~Y)
    BY <2>2
  <2>5. (CASE X -> A [] Y -> B [] D -> C)
    BY <2>1
  <2> HIDE DEF A, B, C, X, Y, D
  <2>6. (X => A) /\ (Y => B) /\ (D => C)
    BY ONLY <2>4, <2>5, Zenon
  <2>3. (z = 0 => A) /\ (z > 0 /\ ~D => B) /\ (D => C)
    BY <2>6 DEF X, Y
  <2> QED
    BY <2>3 DEF A, B, C, z, D
<1>15. CASE n.current_size = 0
  <2> DEFINE V == {}
             E == {root}
             V2 == {v \in V : v[1] # root}
  <2>1. m2 = FreeNode(rest, root) /\ root' = Null
    BY <1>14, <1>15
  <2>2. Good(rest, R, V, F, E, 0)
    BY <1>9
  <2>3. LeadsNowhere(rest.heap, V, root) /\ root \in R
    BY <1>10, <1>15, EmptyLeadsNowhere
  <2>4. V2 = {} /\ R \ {root} = {} /\ F \ {root} = {} /\ E \ {root} = {}
    BY DEF F
  <2> HIDE DEF V, E, R, V2
  <2>5. Good(m2, R \ {root}, V2, F \ {root}, E \ {root}, 0)
    <3> DEFINE u == 0
    <3>1. Good(rest, R, V, F, E, u) /\ V2 = {v \in V : v[1] # root}
      BY <2>2 DEF V2
    <3> HIDE DEF u
    <3>2. Good(m2, R \ {root}, V2, F \ {root}, E \ {root}, u)
      BY ONLY <1>10, <2>1, <2>3, <3>1, FreeNodeIs
    <3> QED
      BY <3>2 DEF u
  <2>6. MemOK(m2, Null, {})
    BY <2>4, <2>5, MemWithoutRoot
  <2> QED
    BY <1>1, <2>1, <2>6, AfterReturn DEF m2
<1>16. CASE n.current_size > 0 /\ ~CanDelete(n)
  <2>1. m2 = Decreased(rest, root) /\ root' = Fresh(rest)
    BY <1>14, <1>16
  <2>2. F = {root}
    BY DEF F
  <2>3. MemOK(m2, root', {})
    BY <1>10, <1>13, <1>16, <2>1, <2>2, RootShrinks
  <2> QED
    BY <1>1, <2>3, AfterReturn DEF m2
<1>17. CASE CanDelete(n)
  <2>1. m2 = Unfix(rest, root) /\ root' = root
    BY <1>14, <1>17
  <2>2. root \in F /\ F \ {root} = {}
    BY DEF F
  <2>3. MemOK(m2, root, {})
    BY ONLY <1>10, <1>13, <2>1, <2>2, UnfixOK
  <2> QED
    BY <1>1, <2>1, <2>3, AfterReturn DEF m2
<1> QED
  BY <1>11, <1>15, <1>16, <1>17

(* The child of the root. *)
NodeBelow(h, r, a, d, c) ==
  /\ Leads(h, {}, a, d, c) /\ IsNodeCell(h[c]) /\ c # a /\ c # r
  /\ c \in DOMAIN h /\ c \in Nat /\ ArraysOK(h[c]) /\ ArraysOK(h[a])

(* What an inner node leads to is a node. *)
LEMMA LeadsToNode ==
  ASSUME NEW m, NEW r, NEW F, Good(m, {r}, {}, F, {}, 0), NEW a \in DOMAIN m.heap,
         IsNodeCell(m.heap[a]), ~m.heap[a].leaf, NEW d \in AllDigits,
         NEW c, c = Child(m.heap[a], d), c # Null
  PROVE  NodeBelow(m.heap, r, a, d, c)
<1> DEFINE R == {r}
           V == {}
           w == 0
<1>1. Good(m, R, V, F, V, w) /\ Leads(m.heap, V, a, d, c) /\ r \in R
  BY DEF Leads
<1>2. HeapOK(m.heap)
  BY DEF Good, Shape
<1> HIDE DEF R, V, w
<1>3. IsLinked(m.heap, R, a, d, c)
  BY ONLY <1>1, LinkedNode
<1>4. IsNodeCell(m.heap[c]) /\ c # a /\ c # r /\ c \in DOMAIN m.heap /\ ArraysOK(m.heap[a])
  BY <1>1, <1>3 DEF IsLinked
<1>5. c \in Nat /\ CellOK(m.heap[c])
  BY <1>2, <1>4 DEF HeapOK
<1>6. ArraysOK(m.heap[c])
  BY <1>4, <1>5 DEF CellOK
<1> QED
  BY <1>1, <1>4, <1>5, <1>6 DEF V, NodeBelow

(* The leaf below the root loses a frame. *)
LEMMA BelowRootIs ==
  ASSUME NEW m, NEW r, NEW F, Good(m, {r}, {}, F, {}, 0), F = {r}, IsNodeCell(m.heap[r]),
         ~m.heap[r].leaf, NEW d \in AllDigits, NEW leaf, leaf = Child(m.heap[r], d), leaf # Null,
         m.heap[leaf].leaf, NEW last \in AllDigits, NEW less, less = WithoutFrame(m, r, d, last),
         NEW m2, m2 = IF less.top = r THEN Unfix(less.mem, r) ELSE less.mem
  PROVE  MemOK(m2, less.top, {})
<1> DEFINE R == {r}
<1>1. r \in DOMAIN m.heap
  BY DEF Good, Shape
<1>2. Leads(m.heap, {}, r, d, leaf) /\ IsNodeCell(m.heap[leaf]) /\ leaf # r
  <2>1. NodeBelow(m.heap, r, r, d, leaf)
    BY <1>1, LeadsToNode
  <2> QED
    BY <2>1 DEF NodeBelow
<1>3. \E rest : Good(rest, R, {}, F, {r}, 0) /\ Rest(rest, m, r, leaf) /\ Outcome(less, rest, r)
  <2>1. (\A b \in F : IsNodeCell(m.heap[b])) /\ leaf \notin F /\ Good(m, R, {}, F, {}, 0)
    BY <1>2
  <2> HIDE DEF R
  <2> QED
    BY <1>2, <2>1, WithoutFrameIs
<1>4. PICK rest : Good(rest, R, {}, F, {r}, 0) /\ Rest(rest, m, r, leaf) /\ Outcome(less, rest, r)
  BY <1>3
<1>5. /\ Good(rest, {r}, {}, F, {r}, 0) /\ r \in DOMAIN rest.heap /\ IsNodeCell(rest.heap[r])
      /\ ArraysOK(rest.heap[r]) /\ ~rest.heap[r].leaf
  BY <1>4 DEF Rest, SameHeader
<1>6. CASE less.mem = rest /\ less.top = r /\ rest.heap[r].current_size > 1
  <2>1. Good(rest, {r}, {}, F, {}, 0)
    BY <1>5, <1>6, ThickAgain
  <2>2. m2 = Unfix(rest, r) /\ r \in F /\ F \ {r} = {}
    BY <1>6
  <2>3. MemOK(m2, r, {})
    BY ONLY <1>5, <2>1, <2>2, UnfixOK
  <2> QED
    BY <1>6, <2>3
<1>7. CASE /\ rest.heap[r].current_size = 1
           /\ less.mem = FreeNode(rest, r) /\ less.top = SingleChild(rest.heap[r])
  <2> DEFINE x == less.top
             m3 == less.mem
  <2>1. m3 = FreeNode(rest, r) /\ x = SingleChild(rest.heap[r])
    BY <1>7
  <2>2. Good(m3, {x}, {}, F \ {r}, {}, 0) /\ x # Null /\ IsNodeCell(m3.heap[x])
    <3> HIDE DEF x, m3
    <3> QED
      BY ONLY <1>5, <1>7, <2>1, RootCollapses
  <2>3. F \ {r} = {}
    OBVIOUS
  <2>4. x # r
    <3> DEFINE V == {}
               E == {r}
               w == 0
    <3>1. Good(rest, R, V, F, E, w) /\ (\A e : <<r, e>> \notin V)
      BY <1>5
    <3> HIDE DEF V, E, w, R
    <3>2. PICK e \in AllDigits : Leads(rest.heap, V, r, e, SingleChild(rest.heap[r]))
      BY ONLY <1>5, <1>7, <3>1, OnlyChild
    <3>3. IsLinked(rest.heap, R, r, e, SingleChild(rest.heap[r]))
      BY ONLY <3>1, <3>2, LinkedNode
    <3> QED
      BY <2>1, <3>3 DEF IsLinked
  <2>5. m2 = m3
    BY <2>4
  <2> QED
    BY <2>2, <2>3, <2>5, MemAgain
<1>8. CASE /\ rest.heap[r].current_size > 1 /\ ~CanDelete(rest.heap[r])
           /\ less.mem = Decreased(rest, r) /\ less.top = Fresh(rest)
  <2> DEFINE f == less.top
             m3 == less.mem
  <2>1. Good(rest, {r}, {}, F, {}, 0)
    BY <1>5, <1>8, ThickAgain
  <2>2. m3 = Decreased(rest, r) /\ f = Fresh(rest) /\ rest.heap[r].current_size > 0
        /\ ~CanDelete(rest.heap[r])
    <3>1. rest.heap[r].current_size \in Nat
      BY <1>5, NodeIs
    <3> QED
      BY <1>8, <3>1
  <2>3. MemOK(m3, f, {}) /\ f # r
    <3> HIDE DEF f, m3
    <3> QED
      BY <1>5, <2>1, <2>2, RootShrinks
  <2>4. m2 = m3
    BY <2>3
  <2> QED
    BY <2>3, <2>4
<1> QED
  BY <1>4, <1>6, <1>7, <1>8 DEF Outcome

(* The root takes part in what happens to the leaf below it, or is fixed   *)
(* and the way goes on.                                                    *)
LEMMA DeleteBelowRootKeeps ==
  ASSUME Calling, Deleting, DeleteBelowRoot
  PROVE  HeapInv'
<1> DEFINE k == DeletedKey
           d == Digit(k, mem.heap[root].depth)
           last == Digit(k, Digits)
           c == ChildOf(mem, root, d)
           m1 == Fix(mem, root)
           less == WithoutFrame(m1, root, d, last)
           m2 == mem'
           F0 == {}
           F == {root}
<1>1. /\ step.key \in CachedKeys /\ MemOK(mem, root, {}) /\ root # Null /\ ~mem.heap[root].leaf
      /\ UNCHANGED <<recent, answer>>
  BY DEF Deleting, Simple, DeleteBelowRoot
<1>2. k \in Nat /\ IsKey(k)
  BY <1>1, TransformIs DEF DeletedKey, IsKey
<1>3. /\ Good(mem, {root}, {}, F0, {}, 0) /\ IsNodeCell(mem.heap[root])
      /\ root \in DOMAIN mem.heap \ F0 /\ ArraysOK(mem.heap[root]) /\ root \in Nat
  <2>1. /\ Good(mem, {root}, {}, F0, {}, 0) /\ IsNodeCell(mem.heap[root])
        /\ root \in DOMAIN mem.heap \ F0 /\ ArraysOK(mem.heap[root])
    BY <1>1, AtRoot
  <2> QED
    BY <2>1, MemAgain
<1>4. d \in AllDigits /\ last \in AllDigits /\ c = Child(mem.heap[root], d)
  BY <1>2, <1>3, DigitOfNode DEF ChildOf
<1>5. F = F0 \cup {root} /\ m1 = Fix(mem, root)
  OBVIOUS
<1>6. Good(m1, {root}, {}, F, {}, 0) /\ SameCells(m1, mem) /\ IsNodeCell(m1.heap[root]) /\ MemOK(m1, root, F)
  <2> HIDE DEF m1, F, F0
  <2> QED
    BY ONLY <1>3, <1>5, FixOK
<1>7. ~m1.heap[root].leaf /\ Child(m1.heap[root], d) = c /\ root \in DOMAIN m1.heap
      /\ m1.heap[root].depth = mem.heap[root].depth
  <2> HIDE DEF m1, d, c
  <2> QED
    BY <1>1, <1>3, <1>4, <1>6 DEF SameCells, SameCell, SameNode
<1>8. CASE c = Null
  <2>1. Return /\ UNCHANGED <<mem, root>>
    BY <1>8 DEF DeleteBelowRoot
  <2> QED
    BY <1>1, <2>1, AfterReturn
<1>9. CASE c # Null
  <2>1. Leads(mem.heap, {}, root, d, c) /\ IsNodeCell(mem.heap[c]) /\ c \in DOMAIN mem.heap /\ c \in Nat
    <3> HIDE DEF c, d, F0
    <3>1. NodeBelow(mem.heap, root, root, d, c)
      BY ONLY <1>1, <1>3, <1>4, <1>9, LeadsToNode
    <3> QED
      BY <3>1 DEF NodeBelow
  <2>2. SameCell(m1.heap[c], mem.heap[c])
    BY <1>6, <2>1 DEF SameCells
  <2>3. CASE mem.heap[c].leaf
    <3>1. /\ m2 = IF less.top = root THEN Unfix(less.mem, root) ELSE less.mem
          /\ root' = less.top /\ Return
      BY <1>9, <2>3 DEF DeleteBelowRoot
    <3>2. m1.heap[c].leaf
      BY <2>1, <2>2, <2>3 DEF SameCell, SameNode
    <3>3. less = WithoutFrame(m1, root, d, last) /\ c = Child(m1.heap[root], d) /\ F = {root}
      BY <1>7
    <3> HIDE DEF m1, d, c, last, less, F, m2
    <3>4. MemOK(m2, less.top, {})
      BY ONLY <1>4, <1>6, <1>7, <1>9, <3>1, <3>2, <3>3, BelowRootIs
    <3> QED
      BY <1>1, <3>1, <3>4, AfterReturn DEF m2
  <2>4. CASE ~mem.heap[c].leaf
    <3>1. /\ m2 = m1 /\ root' = root /\ call' = call
          /\ step' = [do |-> "delete_reference_recursive", key |-> k, parent |-> root, node |-> c]
      BY <1>9, <2>4 DEF DeleteBelowRoot
    <3>2. ~m1.heap[c].leaf
      BY <2>1, <2>2, <2>4 DEF SameCell, SameNode
    <3>3. step' \in [do : {"delete_reference_recursive"}, key : Nat, parent : Nat, node : Nat]
      BY <1>2, <1>3, <2>1, <3>1
    <3>4. step'.key = k /\ step'.parent = root /\ step'.node = c
      BY <3>1
    <3>5. Leads(m1.heap, {}, root, Digit(k, m1.heap[root].depth), c)
      BY <1>4, <1>6, <1>7, <1>9 DEF Leads
    <3> HIDE DEF m1, k, c, m2
    <3>6. DeletingBelow'
      BY <1>1, <1>2, <1>6, <1>7, <3>1, <3>2, <3>3, <3>4, <3>5 DEF DeletingBelow, Node, m2, F
    <3>7. Calling'
      BY <1>1, <3>1 DEF Calling
    <3> QED
      BY <3>6, <3>7 DEF HeapInv, Phase
  <2> QED
    BY <2>3, <2>4
<1> QED
  BY <1>8, <1>9

(* The node that delete_reference_recursive is at, and its parent. *)
AtPair(h, p, e, a) ==
  /\ p \in DOMAIN h /\ IsNodeCell(h[p]) /\ ~h[p].leaf /\ p # a /\ a # root /\ p \in Nat
  /\ a \in DOMAIN h /\ IsNodeCell(h[a]) /\ ~h[a].leaf /\ ArraysOK(h[a]) /\ a \in Nat
  /\ Leads(h, {}, p, e, a) /\ IsNodeCell(h[root]) /\ root \in DOMAIN h

(* Where a deletion is: at a node and its fixed parent. *)
LEMMA DeletingIs ==
  ASSUME DeletingBelow, NEW p, p = step.parent, NEW e, e = Digit(step.key, mem.heap[p].depth)
  PROVE  /\ Good(mem, {root}, {}, {p}, {}, 0) /\ AtPair(mem.heap, p, e, step.node)
         /\ step.key \in Nat /\ IsKey(step.key)
<1> DEFINE F == {p}
           a == step.node
<1>1. /\ IsKey(step.key) /\ root # Null /\ MemOK(mem, root, F) /\ Leads(mem.heap, {}, p, e, a)
      /\ ~mem.heap[p].leaf /\ ~mem.heap[a].leaf
  BY DEF DeletingBelow, Node
<1>2. Good(mem, {root}, {}, F, {}, 0) /\ IsNodeCell(mem.heap[root]) /\ root \in DOMAIN mem.heap
  BY <1>1, MemIs
<1>3. /\ p \in DOMAIN mem.heap /\ IsNodeCell(mem.heap[p]) /\ e \in AllDigits
      /\ a = Child(mem.heap[p], e) /\ a # Null
  BY <1>1 DEF Leads
<1>4. NodeBelow(mem.heap, root, p, e, a)
  <2> HIDE DEF F, a
  <2> QED
    BY ONLY <1>1, <1>2, <1>3, LeadsToNode
<1>5. p \in Nat
  <2>1. HeapOK(mem.heap)
    BY <1>2 DEF Good, Shape
  <2> QED
    BY <1>3, <2>1 DEF HeapOK
<1>6. step.key \in Nat
  BY <1>1, KeyIs
<1> QED
  BY <1>1, <1>2, <1>3, <1>4, <1>5, <1>6 DEF AtPair, NodeBelow

(* What takes the place of the node goes below the parent. *)
StillRooted(m2, F, p) ==
  Good(m2, {root}, {}, F, {}, 0) /\ IsNodeCell(m2.heap[root]) /\ IsNodeCell(m2.heap[p])

(* The parent is told what takes the place of the node, and unfixed. *)
LEMMA PlaceTaken ==
  ASSUME NEW m, NEW F, NEW p, F = {p}, Good(m, {root}, {}, F, {}, 0), NEW e, NEW a,
         AtPair(m.heap, p, e, a), NEW d, NEW leaf, Leads(m.heap, {}, a, d, leaf),
         m.heap[leaf].leaf, NEW last \in AllDigits, NEW less, less = WithoutFrame(m, a, d, last),
         NEW m2, m2 = PutChild(less.mem, p, e, less.top)
  PROVE  StillRooted(m2, F, p)
<1> DEFINE R == {root}
           h == m.heap
<1>1. /\ p \in DOMAIN h /\ IsNodeCell(h[p]) /\ ~h[p].leaf /\ p # a /\ a # root
      /\ a \in DOMAIN h /\ IsNodeCell(h[a]) /\ ~h[a].leaf /\ ArraysOK(h[a])
      /\ Leads(h, {}, p, e, a) /\ IsNodeCell(h[root]) /\ root \in DOMAIN h
  BY DEF AtPair
<1>2. IsNodeCell(h[leaf]) /\ leaf # root /\ leaf # a
  <2>1. d \in AllDigits /\ leaf = Child(h[a], d) /\ leaf # Null
    BY DEF Leads
  <2>2. NodeBelow(h, root, a, d, leaf)
    BY ONLY Good(m, {root}, {}, F, {}, 0), <1>1, <2>1, LeadsToNode
  <2> QED
    BY <2>2 DEF NodeBelow
<1>3. leaf # p /\ leaf \notin F /\ a \notin F
  BY <1>1
<1>4. \E rest : Good(rest, R, {}, F, {a}, 0) /\ Rest(rest, m, a, leaf) /\ Outcome(less, rest, a)
  <2>1. (\A b \in F : IsNodeCell(m.heap[b])) /\ Good(m, R, {}, F, {}, 0)
    BY <1>1
  <2> HIDE DEF R
  <2> QED
    BY <1>2, <1>3, <2>1, WithoutFrameIs
<1>5. PICK rest : Good(rest, R, {}, F, {a}, 0) /\ Rest(rest, m, a, leaf) /\ Outcome(less, rest, a)
  BY <1>4
<1> DEFINE g == rest.heap
<1>6. /\ a \in DOMAIN g /\ IsNodeCell(g[a]) /\ ArraysOK(g[a]) /\ ~g[a].leaf
      /\ p \in DOMAIN g /\ g[p] = h[p] /\ root \in DOMAIN g /\ g[root] = h[root]
  BY <1>1, <1>2, <1>3, <1>5 DEF Rest, SameHeader
<1>7. /\ Leads(g, {}, p, e, a) /\ IsNodeCell(g[p]) /\ ~g[p].leaf /\ IsNodeCell(g[root])
      /\ ~g[a].leaf /\ IsNodeCell(g[a])
  BY <1>1, <1>6 DEF Leads
<1> HIDE DEF R, h
<1>8. CASE less.mem = rest /\ less.top = a /\ g[a].current_size > 1
  <2>1. Good(rest, R, {}, F, {}, 0)
    BY <1>5, <1>8, ThickAgain
  <2>2. m2 = PutChild(rest, p, e, a)
    BY <1>8
  <2> DEFINE w == 0
             E == {}
  <2>3. Good(rest, R, {}, F, E, w)
    BY <2>1
  <2> HIDE DEF g, w, E
  <2>4. Good(m2, R, {}, F, E, w) /\ StillThere(m2, rest, Null)
    BY ONLY <1>7, <2>2, <2>3, LinkTheSame DEF g
  <2>5. root # Null /\ p # Null
    <3>1. HeapOK(g)
      BY <2>1 DEF Good, Shape, g
    <3> QED
      BY <1>6, <3>1 DEF HeapOK, Null
  <2>6. IsNodeCell(m2.heap[root]) /\ IsNodeCell(m2.heap[p])
    BY <1>6, <1>7, <2>4, <2>5 DEF StillThere, g
  <2> QED
    BY <2>4, <2>6 DEF StillRooted, R, w, E
<1>9. CASE /\ g[a].current_size = 1
           /\ less.mem = FreeNode(rest, a) /\ less.top = SingleChild(g[a])
  <2>1. m2 = PutChild(FreeNode(rest, a), p, e, SingleChild(rest.heap[a]))
        /\ rest.heap[a].current_size = 1
    BY <1>9
  <2>2. Good(m2, R, {}, F, {}, 0) /\ StillThere(m2, rest, a)
    <3> HIDE DEF g
    <3> QED
      BY ONLY <1>3, <1>5, <1>7, <2>1, NodeCollapses DEF g
  <2>3. IsNodeCell(m2.heap[root]) /\ IsNodeCell(m2.heap[p])
    BY <1>1, <1>6, <1>7, <2>2 DEF StillThere
  <2> QED
    BY <2>2, <2>3 DEF StillRooted, R
<1>10. CASE /\ g[a].current_size > 1 /\ ~CanDelete(g[a])
            /\ less.mem = Decreased(rest, a) /\ less.top = Fresh(rest)
  <2> DEFINE t == g[a].type - 1
             f == Fresh(rest)
             w == 0
  <2>1. Good(rest, R, {}, F, {}, w)
    BY <1>5, <1>10, ThickAgain
  <2>2. t \in 1 .. 4 /\ rest.heap[a].current_size <= Capacity[t]
    <3>1. g[a].current_size \in Nat
      BY <1>6, NodeIs
    <3>2. g[a].current_size > 0
      BY <1>10, <3>1
    <3> QED
      BY <1>6, <1>10, <3>2, DecreaseIs
  <2>3. m2 = PutChild(Resized(rest, a, t), p, e, f) /\ f = Fresh(rest) /\ IsNodeCell(rest.heap[a])
        /\ Leads(rest.heap, {}, p, e, a)
    BY <1>7, <1>10 DEF Decreased
  <2> HIDE DEF t, f, w, g
  <2>4. Good(m2, R, {}, F, {}, w) /\ Swapped(m2, rest, p, e, a, f)
    BY ONLY <1>3, <2>1, <2>2, <2>3, SwapIs
  <2>5. IsNodeCell(m2.heap[p]) /\ (root # p => m2.heap[root] = g[root])
    BY <1>1, <1>6, <2>4 DEF Swapped, g
  <2>6. IsNodeCell(m2.heap[root])
    BY <1>7, <2>5
  <2> QED
    BY <2>4, <2>5, <2>6 DEF StillRooted, R, w
<1> QED
  BY <1>5, <1>8, <1>9, <1>10 DEF Outcome

(* The node loses a frame in the leaf below it, or the way goes on. *)
LEMMA DeleteRecursiveKeeps ==
  ASSUME Calling, DeletingBelow, DeleteRecursive
  PROVE  HeapInv'
<1> DEFINE a == step.node
           p == step.parent
           k == step.key
           d == NextDigit
           last == Digit(k, Digits)
           c == Child(mem.heap[a], d)
           e == Digit(k, mem.heap[p].depth)
           less == WithoutFrame(mem, a, d, last)
           m == PutChild(less.mem, p, e, less.top)
           m2 == mem'
           F == {p}
<1>1. UNCHANGED <<root, recent, answer>>
  BY DEF DeleteRecursive
<1>2. Good(mem, {root}, {}, F, {}, 0) /\ AtPair(mem.heap, p, e, a) /\ k \in Nat /\ IsKey(k)
  BY DeletingIs
<1>3. /\ p \in DOMAIN mem.heap /\ IsNodeCell(mem.heap[p]) /\ ~mem.heap[p].leaf /\ p # a
      /\ a \in DOMAIN mem.heap /\ IsNodeCell(mem.heap[a]) /\ ~mem.heap[a].leaf
      /\ ArraysOK(mem.heap[a]) /\ Leads(mem.heap, {}, p, e, a) /\ IsNodeCell(mem.heap[root])
      /\ root \in DOMAIN mem.heap /\ a \in Nat
  BY <1>2 DEF AtPair
<1>4. d \in AllDigits /\ last \in AllDigits
  BY <1>2, <1>3, DigitOfNode DEF NextDigit, Node
<1>5. p \in F /\ F \ {p} = {}
  OBVIOUS
<1>6. CASE c = Null
  <2>1. m2 = Unfix(mem, p) /\ Return
    BY <1>6 DEF DeleteRecursive, Node
  <2> HIDE DEF m2, F, p
  <2>2. MemOK(m2, root, {})
    BY ONLY <1>2, <1>3, <1>5, <2>1, UnfixOK
  <2> QED
    BY <1>1, <2>1, <2>2, AfterReturn DEF m2
<1>7. CASE c # Null
  <2>1. NodeBelow(mem.heap, root, a, d, c)
    <3>1. c = Child(mem.heap[a], d)
      OBVIOUS
    <3> HIDE DEF c, d, F, a
    <3> QED
      BY ONLY <1>2, <1>3, <1>4, <1>7, <3>1, LeadsToNode
  <2>2. Leads(mem.heap, {}, a, d, c) /\ IsNodeCell(mem.heap[c]) /\ c \in DOMAIN mem.heap /\ c \in Nat
    BY <2>1 DEF NodeBelow
  <2>3. CASE mem.heap[c].leaf
    <3>1. m2 = Unfix(m, p) /\ Return
      BY <1>7, <2>3 DEF DeleteRecursive, Node
    <3>2. F = {p} /\ less = WithoutFrame(mem, a, d, last) /\ m = PutChild(less.mem, p, e, less.top)
      OBVIOUS
    <3> HIDE DEF c, d, F, a, p, last, less, m, e, m2
    <3>3. StillRooted(m, F, p)
      BY ONLY <1>2, <1>4, <2>2, <2>3, <3>2, PlaceTaken
    <3>4. Good(m, {root}, {}, F, {}, 0) /\ IsNodeCell(m.heap[root]) /\ IsNodeCell(m.heap[p])
      BY <3>3 DEF StillRooted
    <3>5. MemOK(m2, root, {})
      BY ONLY <1>5, <3>1, <3>4, UnfixOK
    <3> QED
      BY <1>1, <3>1, <3>5, AfterReturn DEF m2
  <2>4. CASE ~mem.heap[c].leaf
    <3> DEFINE mid == Unfix(mem, p)
               F0 == {}
               F2 == {a}
    <3>1. /\ m2 = Fix(mid, a) /\ step' = [step EXCEPT !.parent = a, !.node = c] /\ call' = call
      BY <1>7, <2>4 DEF DeleteRecursive, Node
    <3>2. F0 = F \ {p} /\ F2 = F0 \cup {a} /\ a \notin F0 /\ mid = Unfix(mem, p)
      OBVIOUS
    <3> HIDE DEF c, d, F, a, p, m2, mid, F0, F2
    <3>3. Good(mid, {root}, {}, F0, {}, 0) /\ SameCells(mid, mem) /\ IsNodeCell(mid.heap[root])
      BY ONLY <1>2, <1>3, <1>5, <3>2, UnfixOK
    <3>4. a \in DOMAIN mid.heap \ F0 /\ IsNodeCell(mid.heap[a])
      BY <1>3, <3>2, <3>3 DEF SameCells, SameCell
    <3>5. MemOK(m2, root, F2) /\ SameCells(m2, mid)
      BY ONLY <3>1, <3>2, <3>3, <3>4, FixOK
    <3>6. SameCell(mid.heap[a], mem.heap[a]) /\ SameCell(m2.heap[a], mid.heap[a])
          /\ SameCell(mid.heap[c], mem.heap[c]) /\ SameCell(m2.heap[c], mid.heap[c])
          /\ a \in DOMAIN m2.heap
      BY <1>3, <2>2, <3>3, <3>5 DEF SameCells
    <3>7. /\ IsNodeCell(m2.heap[a]) /\ ~m2.heap[a].leaf /\ m2.heap[a].depth = mem.heap[a].depth
          /\ Child(m2.heap[a], d) = Child(mem.heap[a], d) /\ ~m2.heap[c].leaf
      BY <1>3, <1>4, <2>2, <2>4, <3>6 DEF SameCell, SameNode
    <3>8. step' \in [do : {"delete_reference_recursive"}, key : Nat, parent : Nat, node : Nat]
          /\ step'.key = k /\ step'.parent = a /\ step'.node = c
      <4>1. step \in [do : {"delete_reference_recursive"}, key : Nat, parent : Nat, node : Nat]
        BY DEF DeletingBelow
      <4> QED
        BY <1>3, <2>2, <3>1, <4>1
    <3>9. Digit(k, m2.heap[a].depth) = d
      BY <3>7 DEF d, NextDigit, Node, a
    <3>10. Leads(m2.heap, {}, a, d, c)
      BY <2>2, <3>6, <3>7 DEF Leads
    <3>11. root # Null
      BY DEF DeletingBelow
    <3>12. DeletingBelow'
      BY <1>1, <1>2, <3>5, <3>7, <3>8, <3>9, <3>10, <3>11 DEF DeletingBelow, Node, m2, F2
    <3>13. Calling'
      BY <1>1, <3>1 DEF Calling
    <3> QED
      BY <3>12, <3>13 DEF HeapInv, Phase
  <2> QED
    BY <2>3, <2>4
<1> QED
  BY <1>6, <1>7

(* get_page. *)
LEMMA GetFromRootKeeps ==
  ASSUME Calling, Getting, GetFromRoot
  PROVE  HeapInv'
<1> DEFINE k == Transform(step.key)
           m2 == mem'
           F0 == {}
           F == {root}
<1>1. step.key \in CachedKeys /\ MemOK(mem, root, {}) /\ UNCHANGED <<root, recent, answer>>
  BY DEF Getting, Simple, GetFromRoot
<1>2. CASE root = Null
  <2>1. Return /\ UNCHANGED mem
    BY <1>2 DEF GetFromRoot
  <2> QED
    BY <1>1, <2>1, AfterReturn
<1>3. CASE root # Null
  <2>1. /\ m2 = Fix(mem, root) /\ call' = call
        /\ step' = [do |-> "get_page_recursive", key |-> k, node |-> root]
    BY <1>3 DEF GetFromRoot
  <2>2. /\ Good(mem, {root}, {}, F0, {}, 0) /\ IsNodeCell(mem.heap[root])
        /\ root \in DOMAIN mem.heap \ F0
    BY <1>1, <1>3, AtRoot
  <2>3. F = F0 \cup {root}
    OBVIOUS
  <2>4. k \in Nat /\ IsKey(k)
    BY <1>1, TransformIs DEF IsKey
  <2>5. root \in Nat
    BY <2>2, MemAgain
  <2> HIDE DEF k, m2, F0, F
  <2>6. MemOK(m2, root, F) /\ IsNodeCell(m2.heap[root])
    BY ONLY <2>1, <2>2, <2>3, FixOK
  <2>7. step' \in [do : {"get_page_recursive"}, key : Nat, node : Nat]
        /\ step'.key = k /\ step'.node = root
    BY <2>1, <2>4, <2>5
  <2>8. GettingBelow'
    BY <1>1, <1>3, <2>4, <2>6, <2>7 DEF GettingBelow, Node, m2, F
  <2>9. Calling'
    BY <1>1, <2>1 DEF Calling
  <2> QED
    BY <2>8, <2>9 DEF HeapInv, Phase
<1> QED
  BY <1>2, <1>3

(* Where a search is. *)
LEMMA AtGet ==
  ASSUME GettingBelow, NEW a, a = step.node
  PROVE  /\ Good(mem, {root}, {}, {a}, {}, 0) /\ IsNodeCell(mem.heap[root]) /\ root # Null
         /\ a \in DOMAIN mem.heap /\ IsNodeCell(mem.heap[a]) /\ ArraysOK(mem.heap[a])
         /\ step.key \in Nat /\ InverseTransform(step.key) \in CachedKeys /\ IsKey(step.key)
         /\ NextDigit \in AllDigits
<1> DEFINE F == {a}
<1>1. MemOK(mem, root, F) /\ root # Null /\ IsNodeCell(mem.heap[a]) /\ IsKey(step.key)
  BY DEF GettingBelow, Node
<1>2. Good(mem, {root}, {}, F, {}, 0) /\ IsNodeCell(mem.heap[root])
  BY <1>1, MemIs
<1>3. a \in DOMAIN mem.heap /\ HeapOK(mem.heap)
  BY <1>2 DEF Good, Fixes, Shape
<1>4. ArraysOK(mem.heap[a])
  BY <1>1, <1>3 DEF HeapOK, CellOK
<1>5. step.key \in Nat /\ InverseTransform(step.key) \in CachedKeys
  BY <1>1, KeyIs
<1>6. NextDigit \in AllDigits
  BY <1>4, <1>5, DigitOfNode DEF NextDigit, Node
<1> QED
  BY <1>1, <1>2, <1>3, <1>4, <1>5, <1>6

(* The way of get_page ends without a child for the digit. *)
LEMMA GetNothingKeeps ==
  ASSUME Calling, GettingBelow, GetNothing
  PROVE  HeapInv'
<1> DEFINE a == step.node
           m2 == mem'
           F == {a}
<1>1. m2 = Unfix(mem, a) /\ Return /\ UNCHANGED <<root, recent, answer>>
  BY DEF GetNothing
<1>2. Good(mem, {root}, {}, F, {}, 0) /\ IsNodeCell(mem.heap[root]) /\ IsNodeCell(mem.heap[a])
  BY AtGet
<1>3. a \in F /\ F \ {a} = {}
  OBVIOUS
<1> HIDE DEF a, m2, F
<1>4. MemOK(m2, root, {})
  BY ONLY <1>1, <1>2, <1>3, UnfixOK
<1> QED
  BY <1>1, <1>4, AfterReturn DEF m2

(* At a leaf it ends, with the page or with the removal of a stale         *)
(* reference.                                                              *)
LEMMA GetPageKeeps ==
  ASSUME Calling, GettingBelow, GetPage
  PROVE  HeapInv'
<1> DEFINE a == step.node
           d == NextDigit
           c == Child(mem.heap[a], d)
           m2 == mem'
           F == {a}
<1>1. /\ m2 = Unfix(mem, a) /\ c # Null /\ mem.heap[a].leaf /\ UNCHANGED <<root, recent>>
      /\ \/ answer' = mem.heap[c].page_id /\ Return
         \/ /\ step' = [do |-> "delete_reference", key |-> InverseTransform(step.key)]
            /\ UNCHANGED <<call, answer>>
  BY DEF GetPage, Node
<1>2. /\ Good(mem, {root}, {}, F, {}, 0) /\ IsNodeCell(mem.heap[root]) /\ IsNodeCell(mem.heap[a])
      /\ a \in DOMAIN mem.heap /\ d \in AllDigits /\ InverseTransform(step.key) \in CachedKeys
  BY AtGet
<1>3. a \in F /\ F \ {a} = {}
  OBVIOUS
<1>4. mem.heap[c].page_id \in CachedPages
  <2>1. Leads(mem.heap, {}, a, d, c)
    BY <1>1, <1>2 DEF Leads
  <2>2. LinksOK(mem.heap, {root}, {}) /\ HeapOK(mem.heap)
    BY <1>2 DEF Good, Shape
  <2>3. c \in DOMAIN mem.heap /\ ~IsNodeCell(mem.heap[c])
    BY <1>1, <2>1, <2>2 DEF LinksOK, LinkOK
  <2>4. mem.heap[c] \in [page_id : CachedPages]
    BY <2>2, <2>3 DEF HeapOK, CellOK
  <2> QED
    BY <2>4
<1> HIDE DEF a, m2, F, c, d
<1>5. MemOK(m2, root, {})
  BY ONLY <1>1, <1>2, <1>3, UnfixOK
<1>6. recent \in Seq(CachedKeys) /\ Len(recent) < RingLength /\ answer \in CachedPages \cup {0}
  BY DEF Calling
<1>7. CASE answer' = mem.heap[c].page_id /\ Return
  <2>1. answer' \in CachedPages \cup {0}
    BY <1>4, <1>7
  <2> QED
    BY <1>1, <1>5, <1>6, <1>7, <2>1, AfterCall DEF m2
<1>8. CASE /\ step' = [do |-> "delete_reference", key |-> InverseTransform(step.key)]
           /\ UNCHANGED <<call, answer>>
  <2>1. Deleting'
    BY <1>1, <1>2, <1>5, <1>8 DEF Deleting, Simple, m2
  <2>2. Calling'
    BY <1>1, <1>8 DEF Calling
  <2> QED
    BY <2>1, <2>2 DEF HeapInv, Phase
<1> QED
  BY <1>1, <1>7, <1>8

(* At an inner node it goes on to the child. *)
LEMMA GetBelowKeeps ==
  ASSUME Calling, GettingBelow, GetBelow
  PROVE  HeapInv'
<1> DEFINE a == step.node
           d == NextDigit
           c == Child(mem.heap[a], d)
           mid == Fix(mem, c)
           m2 == mem'
           F == {a}
           F2 == {a, c}
           F3 == {c}
<1>1. /\ m2 = Unfix(mid, a) /\ c # Null /\ ~mem.heap[a].leaf
      /\ step' = [step EXCEPT !.node = c] /\ UNCHANGED <<root, recent, call, answer>>
  BY DEF GetBelow, Node
<1>2. /\ Good(mem, {root}, {}, F, {}, 0) /\ IsNodeCell(mem.heap[root]) /\ IsNodeCell(mem.heap[a])
      /\ a \in DOMAIN mem.heap /\ d \in AllDigits /\ root # Null /\ IsKey(step.key)
  BY AtGet
<1>3. c = Child(mem.heap[a], d) /\ mid = Fix(mem, c)
  OBVIOUS
<1>4. step \in [do : {"get_page_recursive"}, key : Nat, node : Nat]
  BY DEF GettingBelow
<1>5. NodeBelow(mem.heap, root, a, d, c)
  <2> HIDE DEF a, d, c, F, mid, m2
  <2> QED
    BY ONLY <1>1, <1>2, <1>3, LeadsToNode
<1>6. IsNodeCell(mem.heap[c]) /\ c # a /\ c \in DOMAIN mem.heap \ F /\ c \in Nat
  BY <1>5 DEF NodeBelow
<1>7. F2 = F \cup {c} /\ F3 = F2 \ {a} /\ a \in F2
  BY <1>6
<1> HIDE DEF a, d, c, mid, m2, F, F2, F3
<1>8. Good(mid, {root}, {}, F2, {}, 0) /\ SameCells(mid, mem) /\ IsNodeCell(mid.heap[root])
  BY ONLY <1>2, <1>3, <1>6, <1>7, FixOK
<1>9. IsNodeCell(mid.heap[a]) /\ IsNodeCell(mid.heap[c]) /\ c \in DOMAIN mid.heap
  BY <1>2, <1>6, <1>8 DEF SameCells, SameCell
<1>10. MemOK(m2, root, F3) /\ SameCells(m2, mid)
  BY ONLY <1>1, <1>7, <1>8, <1>9, UnfixOK
<1>11. IsNodeCell(m2.heap[c])
  BY <1>9, <1>10 DEF SameCells, SameCell
<1>12. step' \in [do : {"get_page_recursive"}, key : Nat, node : Nat]
       /\ step'.node = c /\ step'.key = step.key
  BY <1>1, <1>4, <1>6
<1>13. GettingBelow'
  BY <1>1, <1>2, <1>10, <1>11, <1>12 DEF GettingBelow, Node, m2, F3
<1>14. Calling'
  BY <1>1 DEF Calling
<1> QED
  BY <1>13, <1>14 DEF HeapInv, Phase

(* The stack of invocations: its last one goes on, returns, or calls. *)
Advance(s) == Append(Front(s), [Last(s) EXCEPT !.next = @ + 1])
IsAdvanced(t, s) ==
  /\ IsStack(t) /\ Len(t) = Len(s)
  /\ \A i \in 1 .. Len(s) : /\ t[i].node = s[i].node
                            /\ t[i].next = IF i = Len(s) THEN s[i].next + 1 ELSE s[i].next

(* A stack is not empty. *)
LEMMA StackIs ==
  ASSUME NEW s, IsStack(s)
  PROVE  /\ Len(s) \in Nat \ {0} /\ Last(s) = s[Len(s)]
         /\ \A i \in 1 .. Len(s) : s[i] \in Frames /\ s[i].node \in Nat /\ s[i].next \in Nat \ {0}
<1>1. s \in Seq(Frames) /\ s # << >>
  BY DEF IsStack
<1>2. Len(s) \in Nat \ {0} /\ \A i \in 1 .. Len(s) : s[i] \in Frames
  <2> DEFINE X == Frames
  <2>1. s \in Seq(X) /\ s # << >>
    BY <1>1
  <2> HIDE DEF X
  <2>2. Len(s) \in Nat \ {0} /\ \A i \in 1 .. Len(s) : s[i] \in X
    BY <2>1
  <2> QED
    BY <2>2 DEF X
<1>3. Last(s) = s[Len(s)]
  BY DEF Last
<1>4. ASSUME NEW i \in 1 .. Len(s) PROVE s[i].node \in Nat /\ s[i].next \in Nat \ {0}
  BY <1>2 DEF Frames
<1> QED
  BY <1>2, <1>3, <1>4

(* A stack without its last invocation. *)
LEMMA FrontIs ==
  ASSUME NEW s, IsStack(s)
  PROVE  /\ Front(s) \in Seq(Frames) /\ Len(Front(s)) = Len(s) - 1
         /\ \A i \in 1 .. Len(s) - 1 : Front(s)[i] = s[i]
<1> DEFINE X == Frames
           n == Len(s)
<1>1. s \in Seq(X) /\ n \in Nat \ {0}
  BY StackIs DEF IsStack
<1> HIDE DEF X
<1>2. Front(s) = SubSeq(s, 1, n - 1)
  BY DEF Front
<1>3. SubSeq(s, 1, n - 1) = [i \in 1 .. n - 1 |-> s[i]]
  BY <1>1
<1>4. Front(s) = [i \in 1 .. n - 1 |-> s[i]]
  BY <1>2, <1>3
<1>5. n - 1 \in Nat /\ (\A i \in 1 .. n - 1 : s[i] \in X)
  BY <1>1
<1>6. Front(s) \in Seq(X) /\ Len(Front(s)) = n - 1
  BY <1>4, <1>5
<1> QED
  BY <1>4, <1>6 DEF X

(* A stack with one invocation more. *)
LEMMA AppendIs ==
  ASSUME NEW s \in Seq(Frames), NEW x \in Frames
  PROVE  /\ IsStack(Append(s, x)) /\ Len(Append(s, x)) = Len(s) + 1
         /\ Append(s, x)[Len(s) + 1] = x /\ \A i \in 1 .. Len(s) : Append(s, x)[i] = s[i]
<1> DEFINE X == Frames
<1>1. s \in Seq(X) /\ x \in X
  OBVIOUS
<1> HIDE DEF X
<1>2. Append(s, x) \in Seq(X) /\ Append(s, x) # << >> /\ Len(Append(s, x)) = Len(s) + 1
      /\ Append(s, x)[Len(s) + 1] = x /\ \A i \in 1 .. Len(s) : Append(s, x)[i] = s[i]
  BY <1>1
<1> QED
  BY <1>2 DEF X, IsStack

(* The last invocation's loop goes on to its next child. *)
LEMMA AdvanceIs ==
  ASSUME NEW s, IsStack(s)
  PROVE  IsAdvanced(Advance(s), s)
<1> DEFINE f == Front(s)
           l == Last(s)
           x == [l EXCEPT !.next = @ + 1]
           t == Append(f, x)
           n == Len(s)
<1>1. n \in Nat \ {0} /\ l = s[n] /\ l \in Frames
  BY StackIs
<1>2. x \in Frames /\ x.node = l.node /\ x.next = l.next + 1
  BY <1>1 DEF Frames
<1>3. f \in Seq(Frames) /\ Len(f) = n - 1 /\ \A i \in 1 .. n - 1 : f[i] = s[i]
  BY FrontIs
<1> HIDE DEF f, l, x, n
<1>4. IsStack(t) /\ Len(t) = Len(f) + 1 /\ t[Len(f) + 1] = x /\ \A i \in 1 .. Len(f) : t[i] = f[i]
  BY <1>2, <1>3, AppendIs
<1>5. t = Advance(s)
  BY DEF Advance, f, l, x
<1> HIDE DEF t
<1>6. Len(t) = n /\ t[n] = x /\ \A i \in 1 .. n - 1 : t[i] = s[i]
  BY <1>1, <1>3, <1>4
<1>7. ASSUME NEW i \in 1 .. n
      PROVE  t[i].node = s[i].node /\ t[i].next = IF i = n THEN s[i].next + 1 ELSE s[i].next
  <2>1. CASE i = n
    BY <1>1, <1>2, <1>6, <2>1
  <2>2. CASE i # n
    BY <1>1, <1>6, <2>2
  <2> QED
    BY <2>1, <2>2
<1> QED
  BY <1>4, <1>5, <1>6, <1>7 DEF IsAdvanced, n

(* One more invocation, at a node. *)
Pushed(t, s, a) ==
  /\ IsStack(t) /\ Len(t) = Len(s) + 1 /\ t[Len(s) + 1].node = a /\ t[Len(s) + 1].next = 1
  /\ \A i \in 1 .. Len(s) : t[i] = s[i]

(* The last invocation goes on and calls itself for a child. *)
LEMMA PushIs ==
  ASSUME NEW s, IsStack(s) \/ s = << >>, NEW a \in Nat
  PROVE  Pushed(Append(s, Invocation(a)), s, a)
<1>1. Invocation(a) \in Frames /\ Invocation(a).node = a /\ Invocation(a).next = 1
  BY DEF Invocation, Frames
<1>2. s \in Seq(Frames)
  <2>1. << >> \in Seq(Frames)
    OBVIOUS
  <2> QED
    BY <2>1 DEF IsStack
<1> QED
  BY <1>1, <1>2, AppendIs DEF Pushed

(* A loop that goes on leaves the nodes of the stack as they are. *)
LEMMA NodesAdvanced ==
  ASSUME NEW s, NEW t, IsAdvanced(t, s), NEW h
  PROVE  NodesOf(t) = NodesOf(s) /\ (Deepens(h, s) => Deepens(h, t)) /\ (Apart(h, s) => Apart(h, t))
BY DEF IsAdvanced, NodesOf, Deepens, Apart

(* A call adds its node to them. *)
LEMMA NodesPushed ==
  ASSUME NEW s, IsStack(s), NEW t, NEW a, Pushed(t, s, a)
  PROVE  NodesOf(t) = NodesOf(s) \cup {a}
<1>1. Len(s) \in Nat /\ Len(t) = Len(s) + 1 /\ t[Len(t)].node = a /\ \A i \in 1 .. Len(s) : t[i] = s[i]
  BY StackIs DEF Pushed
<1>2. ASSUME NEW x PROVE x \in NodesOf(t) <=> x \in NodesOf(s) \cup {a}
  <2>1. x \in NodesOf(t) <=> \E i \in 1 .. Len(t) : t[i].node = x
    BY DEF NodesOf
  <2>2. x \in NodesOf(s) <=> \E i \in 1 .. Len(s) : s[i].node = x
    BY DEF NodesOf
  <2>3. Len(t) \in 1 .. Len(t) /\ (\A i \in 1 .. Len(t) : i # Len(t) => i \in 1 .. Len(s))
        /\ (\A i \in 1 .. Len(s) : i \in 1 .. Len(t))
    BY <1>1
  <2> QED
    BY <1>1, <2>1, <2>2, <2>3
<1> QED
  BY <1>2

(* The first invocation. *)
LEMMA FirstOfStack ==
  ASSUME NEW a \in Nat, NEW t, t = <<Invocation(a)>>
  PROVE  IsStack(t) /\ Len(t) = 1 /\ t[1].node = a /\ t[1].next = 1 /\ NodesOf(t) = {a}
<1>1. Invocation(a) \in Frames /\ Invocation(a).node = a /\ Invocation(a).next = 1
  BY DEF Invocation, Frames
<1>2. t \in Seq(Frames) /\ t # << >> /\ Len(t) = 1 /\ t[1] = Invocation(a)
  BY <1>1
<1> QED
  BY <1>1, <1>2 DEF IsStack, NodesOf

KeepsDepths(h2, h) ==
  \A b \in DOMAIN h : IsNodeCell(h[b]) =>
    b \in DOMAIN h2 /\ IsNodeCell(h2[b]) /\ h2[b].depth = h[b].depth

(* Depths still grow where headers stay. *)
LEMMA DeepensSame ==
  ASSUME NEW s, NEW h, NEW h2, Deepens(h, s), KeepsDepths(h2, h)
  PROVE  Deepens(h2, s)
<1>1. \A i \in 1 .. Len(s) : s[i].node \in DOMAIN h /\ IsNodeCell(h[s[i].node])
  BY DEF Deepens
<1>2. \A i \in 1 .. Len(s) : /\ s[i].node \in DOMAIN h2 /\ IsNodeCell(h2[s[i].node])
                             /\ h2[s[i].node].depth = h[s[i].node].depth
  BY <1>1 DEF KeepsDepths
<1> QED
  BY <1>2 DEF Deepens

(* Fixes keep the headers. *)
LEMMA SameCellsKeepDepths ==
  ASSUME NEW m, NEW m2, SameCells(m2, m)
  PROVE  KeepsDepths(m2.heap, m.heap)
BY DEF SameCells, SameCell, SameNode, KeepsDepths

(* Depths grow with a child on top, too. *)
LEMMA DeepensPushed ==
  ASSUME NEW h, HeapOK(h), NEW s, IsStack(s), Deepens(h, s), NEW t, NEW a \in DOMAIN h, Pushed(t, s, a),
         IsNodeCell(h[a]), h[s[Len(s)].node].depth < h[a].depth
  PROVE  Deepens(h, t) /\ a \notin NodesOf(s)
<1> DEFINE n == Len(s)
           D(i) == h[t[i].node].depth
<1>1. n \in Nat \ {0} /\ Len(t) = n + 1 /\ t[n + 1].node = a /\ \A i \in 1 .. n : t[i] = s[i]
  BY StackIs DEF Pushed
<1>2. \A i \in 1 .. n : t[i].node \in DOMAIN h /\ IsNodeCell(h[t[i].node])
  BY <1>1 DEF Deepens
<1>3. \A i, j \in 1 .. n : i < j => D(i) < D(j)
  BY <1>1 DEF Deepens
<1>4. \A i \in 1 .. n + 1 : t[i].node \in DOMAIN h /\ IsNodeCell(h[t[i].node])
  BY <1>1, <1>2
<1>5. ASSUME NEW i \in 1 .. n + 1 PROVE D(i) \in Nat
  <2>1. ArraysOK(h[t[i].node])
    BY <1>4 DEF HeapOK, CellOK
  <2> QED
    BY <2>1, NodeIs
<1>6. D(n) < D(n + 1)
  BY <1>1
<1> HIDE DEF D
<1>7. ASSUME NEW i \in 1 .. n + 1, NEW j \in 1 .. n + 1, i < j PROVE D(i) < D(j)
  <2>1. i \in 1 .. n /\ n \in 1 .. n
    BY <1>1, <1>7
  <2>2. CASE j # n + 1
    BY <1>1, <1>3, <1>7, <2>1, <2>2
  <2>3. CASE j = n + 1 /\ i = n
    BY <1>6, <2>3
  <2>4. CASE j = n + 1 /\ i # n
    <3>1. i < n
      BY <1>1, <2>1, <2>4
    <3>2. D(i) < D(n) /\ D(i) \in Nat /\ D(n) \in Nat /\ D(n + 1) \in Nat
      BY <1>1, <1>3, <1>5, <2>1, <3>1
    <3> QED
      BY <1>6, <2>4, <3>2
  <2> QED
    BY <2>2, <2>3, <2>4
<1>8. \A i, j \in 1 .. Len(t) : i < j => h[t[i].node].depth < h[t[j].node].depth
  BY <1>1, <1>7 DEF D
<1>9. a \notin NodesOf(s)
  <2> SUFFICES ASSUME NEW i \in 1 .. n, s[i].node = a PROVE FALSE
    BY DEF NodesOf
  <2>1. i < n + 1 /\ i \in 1 .. n + 1 /\ n + 1 \in 1 .. n + 1
    BY <1>1
  <2>2. D(i) < D(n + 1) /\ D(i) \in Nat
    BY <1>5, <1>7, <2>1
  <2>3. D(i) = D(n + 1)
    BY <1>1 DEF D
  <2> QED
    BY <2>2, <2>3
<1> QED
  BY <1>1, <1>4, <1>8, <1>9 DEF Deepens

(* One invocation less. *)
Popped(t, s) ==
  /\ IsStack(t) /\ Len(t) = Len(s) - 1 /\ \A i \in 1 .. Len(t) : t[i] = s[i]

(* An invocation that is done leaves the stack. *)
LEMMA PopIs ==
  ASSUME NEW s, IsStack(s), Len(s) # 1
  PROVE  Popped(Front(s), s)
<1>1. Len(s) \in Nat \ {0} /\ Front(s) \in Seq(Frames) /\ Len(Front(s)) = Len(s) - 1
      /\ \A i \in 1 .. Len(s) - 1 : Front(s)[i] = s[i]
  BY StackIs, FrontIs
<1>2. Front(s) # << >>
  BY <1>1
<1> QED
  BY <1>1, <1>2 DEF Popped, IsStack

(* No node has two invocations. *)
LEMMA DeepensApart ==
  ASSUME NEW h, HeapOK(h), NEW s, IsStack(s), Deepens(h, s)
  PROVE  Apart(h, s)
<1>1. \A i \in 1 .. Len(s) : s[i].node \in DOMAIN h /\ IsNodeCell(h[s[i].node])
  BY DEF Deepens
<1>2. ASSUME NEW i \in 1 .. Len(s), NEW j \in 1 .. Len(s), s[i].node = s[j].node PROVE i = j
  <2> DEFINE x == h[s[i].node].depth
             y == h[s[j].node].depth
  <2>1. ArraysOK(h[s[i].node]) /\ ArraysOK(h[s[j].node])
    BY <1>1 DEF HeapOK, CellOK
  <2>2. x \in Nat /\ x = y
    BY <1>2, <2>1, NodeIs
  <2>3. (i < j => x < y) /\ (j < i => y < x)
    BY DEF Deepens
  <2>4. Len(s) \in Nat
    BY StackIs
  <2> HIDE DEF x, y
  <2> QED
    BY <2>2, <2>3, <2>4
<1> QED
  BY <1>1, <1>2 DEF Apart

(* Its node leaves the nodes of the stack. *)
LEMMA NodesPopped ==
  ASSUME NEW h, NEW s, IsStack(s), Apart(h, s), NEW t, Popped(t, s)
  PROVE  NodesOf(t) = NodesOf(s) \ {s[Len(s)].node}
<1> DEFINE n == Len(s)
<1>1. n \in Nat \ {0} /\ Len(t) = n - 1 /\ \A i \in 1 .. n - 1 : t[i] = s[i]
  BY StackIs DEF Popped
<1>2. \A i, j \in 1 .. n : s[i].node = s[j].node => i = j
  BY DEF Apart
<1>3. ASSUME NEW x PROVE x \in NodesOf(t) <=> x \in NodesOf(s) \ {s[n].node}
  <2>1. x \in NodesOf(t) <=> \E i \in 1 .. n - 1 : s[i].node = x
    BY <1>1 DEF NodesOf
  <2>2. x \in NodesOf(s) <=> \E i \in 1 .. n : s[i].node = x
    BY DEF NodesOf
  <2>3. \A i \in 1 .. n : i \in 1 .. n - 1 <=> i # n
    BY <1>1
  <2>4. \A i \in 1 .. n - 1 : i \in 1 .. n
    BY <1>1
  <2>5. n \in 1 .. n
    BY <1>1
  <2> QED
    BY <1>2, <2>1, <2>2, <2>3, <2>4, <2>5
<1> QED
  BY <1>3

(* Depths still grow. *)
LEMMA DeepensPopped ==
  ASSUME NEW h, NEW s, IsStack(s), Deepens(h, s), NEW t, Popped(t, s)
  PROVE  Deepens(h, t)
<1>1. Len(s) \in Nat \ {0} /\ Len(t) = Len(s) - 1 /\ \A i \in 1 .. Len(t) : t[i] = s[i]
  BY StackIs DEF Popped
<1>2. \A i \in 1 .. Len(t) : i \in 1 .. Len(s)
  BY <1>1
<1> QED
  BY <1>1, <1>2 DEF Deepens

(* update_range. *)
LEMMA UpdateRangeKeeps ==
  ASSUME Calling, AboutToUpdate, UpdateRange
  PROVE  HeapInv'
<1> DEFINE t == <<Invocation(root)>>
           m2 == mem'
           F0 == {}
           F == {root}
<1>1. MemOK(mem, root, {}) /\ call.kind = "update_range" /\ UNCHANGED <<root, recent, answer>>
  BY DEF AboutToUpdate, UpdateRange
<1>2. CASE root = Null
  <2>1. Return /\ UNCHANGED mem
    BY <1>2 DEF UpdateRange
  <2> QED
    BY <1>1, <2>1, AfterReturn
<1>3. CASE root # Null
  <2>1. m2 = Fix(mem, root) /\ call' = call /\ step' = [do |-> "update_range", stack |-> t]
    BY <1>3 DEF UpdateRange
  <2>2. /\ Good(mem, {root}, {}, F0, {}, 0) /\ IsNodeCell(mem.heap[root])
        /\ root \in DOMAIN mem.heap \ F0
    BY <1>1, <1>3, AtRoot
  <2>3. F = F0 \cup {root} /\ t = <<Invocation(root)>>
    OBVIOUS
  <2>4. root \in Nat
    BY <2>2, MemAgain
  <2> HIDE DEF m2, F0, F, t
  <2>5. IsStack(t) /\ Len(t) = 1 /\ t[1].node = root /\ NodesOf(t) = {root}
    BY ONLY <2>3, <2>4, FirstOfStack
  <2>6. MemOK(m2, root, F) /\ IsNodeCell(m2.heap[root]) /\ SameCells(m2, mem)
    BY ONLY <2>1, <2>2, <2>3, FixOK
  <2>7. root \in DOMAIN m2.heap
    BY <2>2, <2>6 DEF SameCells
  <2>8. Deepens(m2.heap, t)
    <3>1. \A i \in 1 .. Len(t) : t[i].node = root
      BY <2>5
    <3>2. \A i, j \in 1 .. Len(t) : ~(i < j)
      BY <2>5
    <3> QED
      BY <2>6, <2>7, <3>1, <3>2 DEF Deepens
  <2>9. step'.stack = t
    BY <2>1
  <2>10. MemOK(m2, root, NodesOf(t))
    BY <2>5, <2>6 DEF F
  <2>11. Updating'
    BY <1>1, <1>3, <2>1, <2>5, <2>8, <2>9, <2>10 DEF Updating, m2
  <2>12. Calling'
    BY <1>1, <2>1 DEF Calling
  <2> QED
    BY <2>11, <2>12 DEF HeapInv, Phase
<1> QED
  BY <1>2, <1>3

(* The node of the last invocation, with the digit that is next. *)
AtTop(h, s, a) ==
  /\ a = s[Len(s)].node /\ a \in DOMAIN h /\ IsNodeCell(h[a]) /\ ArraysOK(h[a])
  /\ Last(s) = s[Len(s)] /\ Last(s).node = a /\ Last(s).next \in Nat \ {0}

(* The top of the stack. *)
LEMMA TopIs ==
  ASSUME NEW h, HeapOK(h), NEW s, IsStack(s), Apart(h, s), NEW a, a = Last(s).node
  PROVE  AtTop(h, s, a)
<1>1. Len(s) \in 1 .. Len(s) /\ Last(s) = s[Len(s)] /\ s[Len(s)].next \in Nat \ {0}
  BY StackIs
<1>2. a \in DOMAIN h /\ IsNodeCell(h[a])
  BY <1>1 DEF Apart
<1>3. ArraysOK(h[a])
  BY <1>2 DEF HeapOK, CellOK
<1> QED
  BY <1>1, <1>2, <1>3 DEF AtTop

(* The loop's next digit has a child. *)
LEMMA NextDigitIs ==
  ASSUME NEW n, ArraysOK(n), NEW i \in Nat \ {0}, ~(i > Len(Order(n))), NEW d, d = Order(n)[i]
  PROVE  d \in AllDigits /\ Child(n, d) # Null /\ Child(n, d) \in Nat /\ i \in 1 .. Len(Order(n))
<1>1. RunsThrough(Order(n), Present(n)) /\ Len(Order(n)) = n.current_size /\ n.current_size \in Nat
  BY OrderIs, NodeIs
<1>2. i \in 1 .. Len(Order(n))
  BY <1>1
<1>3. d \in AllDigits
  BY <1>1, <1>2 DEF RunsThrough
<1>4. d \in Present(n)
  BY <1>1, <1>2, <1>3 DEF RunsThrough
<1> QED
  BY <1>2, <1>3, <1>4, NodeIs DEF Present

(* The walk goes on with another stack. *)
LEMMA WalksOn ==
  ASSUME Calling, Updating, NEW t, step' = [step EXCEPT !.stack = t], IsStack(t),
         UNCHANGED <<root, recent, call, answer>>, MemOK(mem', root, NodesOf(t)), Deepens(mem'.heap, t)
  PROVE  HeapInv'
<1>1. step = [do |-> "update_range", stack |-> step.stack] /\ call.kind = "update_range" /\ root # Null
  BY DEF Updating
<1>2. step' = [do |-> "update_range", stack |-> t]
  BY <1>1
<1>3. step'.stack = t
  BY <1>2
<1>4. Updating'
  BY <1>1, <1>2, <1>3 DEF Updating
<1>5. Calling'
  BY DEF Calling
<1> QED
  BY <1>4, <1>5 DEF HeapInv, Phase

(* Where an update of a range is. *)
LEMMA UpdatingIs ==
  ASSUME Updating, NEW s, s = step.stack, NEW F, F = NodesOf(s)
  PROVE  /\ Good(mem, {root}, {}, F, {}, 0) /\ IsNodeCell(mem.heap[root]) /\ root \in DOMAIN mem.heap
         /\ HeapOK(mem.heap) /\ IsStack(s) /\ Deepens(mem.heap, s) /\ Apart(mem.heap, s) /\ MemOK(mem, root, F)
<1>1. IsStack(s) /\ root # Null /\ MemOK(mem, root, F) /\ Deepens(mem.heap, s)
  BY DEF Updating
<1>2. Good(mem, {root}, {}, F, {}, 0) /\ IsNodeCell(mem.heap[root]) /\ root \in DOMAIN mem.heap
  BY <1>1, MemIs
<1>3. HeapOK(mem.heap)
  BY <1>2 DEF Good, Shape
<1> QED
  BY <1>1, <1>2, <1>3, DeepensApart

(* A round of the loop of update_range: a child is skipped, re-pointed or  *)
(* entered.                                                                *)
LEMMA UpdateChildKeeps ==
  ASSUME Calling, Updating, UpdateChild
  PROVE  HeapInv'
<1> DEFINE s == step.stack
           adv == Advance(s)
           a == Top.node
           n == mem.heap[a]
           d == TopDigit
           c == Child(n, d)
           page == call.page
           m2 == mem'
           F == NodesOf(s)
           h == mem.heap
<1>1. ~TopDone /\ UNCHANGED <<root, recent, call, answer>>
  BY DEF UpdateChild
<1>2. /\ Good(mem, {root}, {}, F, {}, 0) /\ IsNodeCell(mem.heap[root]) /\ root \in DOMAIN mem.heap
      /\ HeapOK(h) /\ IsStack(s) /\ Deepens(h, s) /\ Apart(h, s) /\ MemOK(mem, root, F)
  BY UpdatingIs
<1>3. AtTop(h, s, a)
  BY <1>2, TopIs DEF Top
<1>4. a = s[Len(s)].node /\ a \in DOMAIN h /\ IsNodeCell(n) /\ ArraysOK(n) /\ Last(s).next \in Nat \ {0}
  BY <1>3 DEF AtTop
<1>5. d \in AllDigits /\ c # Null
  <2> DEFINE i == Last(s).next
  <2>1. ~(i > Len(Order(n))) /\ d = Order(n)[i]
    BY <1>1 DEF TopDone, TopNode, TopDigit, Top
  <2> HIDE DEF i, d, n
  <2> QED
    BY <1>4, <2>1, NextDigitIs DEF i
<1>6. Advanced = adv
  BY DEF Advanced, Advance, Top
<1>7. IsAdvanced(adv, s) /\ IsStack(adv)
  BY <1>2, AdvanceIs DEF IsAdvanced
<1>8. NodesOf(adv) = F /\ Deepens(h, adv)
  BY <1>2, <1>7, NodesAdvanced
<1>9. page \in CachedPages
  BY CallIs DEF Updating
<1>10. CASE ~TopInRange
  <2>1. mem' = mem /\ step' = [step EXCEPT !.stack = adv]
    BY <1>6, <1>10 DEF UpdateChild
  <2> HIDE DEF adv
  <2> QED
    BY <1>1, <1>2, <1>7, <1>8, <2>1, WalksOn
<1>11. CASE TopInRange /\ n.leaf
  <2>1. m2 = PutFrame(mem, a, d, page) /\ step' = [step EXCEPT !.stack = adv]
    BY <1>6, <1>11 DEF UpdateChild, TopNode
  <2> DEFINE R == {root}
             E == {}
             w == 0
  <2>2. Good(mem, R, {}, F, E, w) /\ (Child(mem.heap[a], d) = Null => CanInsert(mem.heap[a]))
        /\ mem.heap[a].leaf /\ a \in DOMAIN mem.heap /\ IsNodeCell(mem.heap[a])
    BY <1>2, <1>4, <1>5, <1>11
  <2> HIDE DEF R, E, w, F, a, d, m2, page, c, n
  <2>3. Good(m2, R, {}, F, E, w) /\ Grown(m2, mem, a, d)
    BY ONLY <1>5, <1>9, <2>1, <2>2, PutFrameIs
  <2>4. ASSUME NEW b \in DOMAIN h, IsNodeCell(h[b])
        PROVE  b \in DOMAIN m2.heap /\ IsNodeCell(m2.heap[b]) /\ m2.heap[b].depth = h[b].depth
    <3>1. b \in DOMAIN m2.heap
      BY <2>3 DEF Grown
    <3>2. CASE b = a
      BY <2>3, <3>1, <3>2 DEF Grown, SameHeader
    <3>3. CASE b # a
      BY <2>3, <2>4, <3>1, <3>3 DEF Grown
    <3> QED
      BY <3>2, <3>3
  <2>5. KeepsDepths(m2.heap, h)
    BY <2>4 DEF KeepsDepths
  <2>6. IsNodeCell(m2.heap[root])
    BY <1>2, <2>4
  <2>7. Good(m2, {root}, {}, F, {}, 0)
    BY <2>3 DEF R, E, w
  <2>8. MemOK(m2, root, F)
    BY <2>6, <2>7, MemAgain
  <2>9. Deepens(m2.heap, adv)
    BY <1>8, <2>5, DeepensSame
  <2> HIDE DEF adv
  <2> QED
    BY <1>1, <1>7, <1>8, <2>1, <2>8, <2>9, WalksOn DEF m2
<1>12. CASE TopInRange /\ ~n.leaf
  <2> DEFINE t == Append(adv, Invocation(c))
             F2 == F \cup {c}
  <2>1. m2 = Fix(mem, c) /\ step' = [step EXCEPT !.stack = t]
    BY <1>6, <1>12 DEF UpdateChild, TopNode
  <2>2. NodeBelow(h, root, a, d, c)
    <3>1. c = Child(mem.heap[a], d) /\ ~mem.heap[a].leaf
      BY <1>12
    <3> HIDE DEF c, d, F, a
    <3> QED
      BY ONLY <1>2, <1>4, <1>5, <3>1, LeadsToNode
  <2>3. Leads(h, {}, a, d, c) /\ IsNodeCell(h[c]) /\ c \in DOMAIN h /\ c \in Nat
    BY <2>2 DEF NodeBelow
  <2>4. n.depth < h[c].depth
    <3>1. LinksOK(h, {root}, {})
      BY <1>2 DEF Good, Shape
    <3>2. LinkOK(h, c, a, d)
      BY <2>3, <3>1 DEF LinksOK
    <3> QED
      BY <1>12, <3>2 DEF LinkOK
  <2>5. Pushed(t, adv, c)
    <3> HIDE DEF adv, c
    <3> QED
      BY <1>7, <2>3, PushIs
  <2>6. adv[Len(adv)].node = a
    <3>1. Len(s) \in 1 .. Len(s)
      BY <1>2, StackIs
    <3> QED
      BY <1>4, <1>7, <3>1 DEF IsAdvanced
  <2> HIDE DEF t, adv, c, a, d, F, m2, F2
  <2>7. Deepens(h, t) /\ c \notin NodesOf(adv)
    <3>1. h[adv[Len(adv)].node].depth < h[c].depth
      BY <2>4, <2>6
    <3> QED
      BY ONLY <1>2, <1>7, <1>8, <2>3, <2>5, <3>1, DeepensPushed
  <2>8. c \in DOMAIN mem.heap \ F /\ F2 = F \cup {c}
    BY <1>8, <2>3, <2>7 DEF F2
  <2>9. MemOK(m2, root, F2) /\ SameCells(m2, mem)
    BY ONLY <1>2, <2>1, <2>3, <2>8, FixOK
  <2>10. NodesOf(t) = F2
    BY <1>7, <1>8, <2>5, <2>8, NodesPushed
  <2>11. Deepens(m2.heap, t)
    BY <2>7, <2>9, SameCellsKeepDepths, DeepensSame
  <2>12. IsStack(t)
    BY <2>5 DEF Pushed
  <2> QED
    BY <1>1, <2>1, <2>9, <2>10, <2>11, <2>12, WalksOn DEF m2
<1> QED
  BY <1>10, <1>11, <1>12

(* A node whose loop is done is unfixed. *)
LEMMA UpdateDoneKeeps ==
  ASSUME Calling, Updating, UpdateDone
  PROVE  HeapInv'
<1> DEFINE s == step.stack
           a == Top.node
           m2 == mem'
           F == NodesOf(s)
           F2 == F \ {a}
           h == mem.heap
           t == Front(s)
<1>1. m2 = Unfix(mem, a) /\ Leave /\ UNCHANGED <<root, recent, answer>>
  BY DEF UpdateDone
<1>2. /\ Good(mem, {root}, {}, F, {}, 0) /\ IsNodeCell(mem.heap[root]) /\ root \in DOMAIN mem.heap
      /\ HeapOK(h) /\ IsStack(s) /\ Deepens(h, s) /\ Apart(h, s)
  BY UpdatingIs
<1>3. AtTop(h, s, a)
  BY <1>2, TopIs DEF Top
<1>4. a = s[Len(s)].node /\ a \in DOMAIN h /\ IsNodeCell(mem.heap[a]) /\ Len(s) \in 1 .. Len(s)
  BY <1>2, <1>3, StackIs DEF AtTop
<1>5. a \in F /\ F2 = F \ {a}
  BY <1>4 DEF NodesOf
<1> HIDE DEF a, m2, F, F2
<1>6. MemOK(m2, root, F2) /\ SameCells(m2, mem)
  BY ONLY <1>1, <1>2, <1>4, <1>5, UnfixOK
<1>7. CASE Len(s) = 1
  <2>1. Return
    BY <1>1, <1>7 DEF Leave
  <2>2. F2 = {}
    BY <1>4, <1>5, <1>7 DEF F, NodesOf
  <2> QED
    BY <1>1, <1>6, <2>1, <2>2, AfterReturn DEF m2
<1>8. CASE Len(s) # 1
  <2>1. step' = [step EXCEPT !.stack = t] /\ call' = call
    BY <1>1, <1>8 DEF Leave
  <2>2. Popped(t, s) /\ IsStack(t)
    BY <1>2, <1>8, PopIs DEF Popped
  <2> HIDE DEF t, s
  <2>3. NodesOf(t) = F2 /\ Deepens(h, t)
    BY <1>2, <1>4, <1>5, <2>2, NodesPopped, DeepensPopped DEF F
  <2>4. Deepens(m2.heap, t)
    BY <1>6, <2>3, SameCellsKeepDepths, DeepensSame
  <2> QED
    BY <1>1, <1>6, <2>1, <2>2, <2>3, <2>4, WalksOn DEF m2
<1> QED
  BY <1>7, <1>8

(* The links that destroy_recursive has followed. *)
Seen(h, s, a, d) == \E i \in 1 .. Len(s) : s[i].node = a /\ \E j \in 1 .. s[i].next - 1 : Order(h[a])[j] = d

(* The links that destroy has followed. *)
LEMMA VisitedIs ==
  ASSUME NEW h, NEW s
  PROVE  /\ \A a, d : <<a, d>> \in Visited(h, s) <=> a \in DOMAIN h /\ d \in AllDigits /\ Seen(h, s, a, d)
         /\ \A v \in Visited(h, s) : v = <<v[1], v[2]>>
<1>1. ASSUME NEW a, NEW d
      PROVE  <<a, d>> \in Visited(h, s) <=> a \in DOMAIN h /\ d \in AllDigits /\ Seen(h, s, a, d)
  <2> DEFINE v == <<a, d>>
  <2>1. v[1] = a /\ v[2] = d /\ (v \in (DOMAIN h) \X AllDigits <=> a \in DOMAIN h /\ d \in AllDigits)
    OBVIOUS
  <2> HIDE DEF v
  <2>2. v \in Visited(h, s) <=> v \in (DOMAIN h) \X AllDigits /\ Seen(h, s, v[1], v[2])
    BY DEF Visited, Seen
  <2>3. v \in Visited(h, s) <=> a \in DOMAIN h /\ d \in AllDigits /\ Seen(h, s, a, d)
    BY <2>1, <2>2
  <2> QED
    BY <2>3 DEF v
<1>2. ASSUME NEW v \in Visited(h, s) PROVE v = <<v[1], v[2]>>
  <2>1. v \in (DOMAIN h) \X AllDigits
    BY DEF Visited
  <2> HIDE DEF AllDigits
  <2> QED
    BY <2>1
<1> QED
  BY <1>1, <1>2

(* Two ways to say the same links. *)
LEMMA SamePairs ==
  ASSUME NEW A, NEW B, \A v \in A : v = <<v[1], v[2]>>, \A v \in B : v = <<v[1], v[2]>>,
         \A a, d : <<a, d>> \in A <=> <<a, d>> \in B
  PROVE  A = B
<1>1. ASSUME NEW v \in A PROVE v \in B
  <2>1. v = <<v[1], v[2]>>
    OBVIOUS
  <2>2. <<v[1], v[2]>> \in A
    BY <2>1
  <2> QED
    BY <2>1, <2>2
<1>2. ASSUME NEW v \in B PROVE v \in A
  <2>1. v = <<v[1], v[2]>>
    OBVIOUS
  <2>2. <<v[1], v[2]>> \in B
    BY <2>1
  <2> QED
    BY <2>1, <2>2
<1> QED
  BY <1>1, <1>2

(* One link more. *)
LEMMA VisitedAdvanced ==
  ASSUME NEW h, NEW s, IsStack(s), Apart(h, s), NEW t, IsAdvanced(t, s),
         NEW a, a = s[Len(s)].node, NEW x, x = s[Len(s)].next, ArraysOK(h[a]),
         x \in 1 .. Len(Order(h[a])), NEW d \in AllDigits, d = Order(h[a])[x]
  PROVE  Visited(h, t) = Visited(h, s) \cup {<<a, d>>} /\ <<a, d>> \notin Visited(h, s)
<1> DEFINE n == Len(s)
           q == Order(h[a])
<1>1. n \in 1 .. n /\ a \in DOMAIN h /\ \A i, j \in 1 .. n : s[i].node = s[j].node => i = j
  <2>1. n \in Nat \ {0}
    BY StackIs
  <2>2. n \in 1 .. n
    BY <2>1
  <2>3. /\ \A i \in 1 .. n : s[i].node \in DOMAIN h
        /\ \A i, j \in 1 .. n : s[i].node = s[j].node => i = j
    BY ONLY Apart(h, s) DEF Apart
  <2> QED
    BY <2>2, <2>3
<1>2. Len(t) = n /\ \A i \in 1 .. n : /\ t[i].node = s[i].node
                                      /\ t[i].next = IF i = n THEN x + 1 ELSE s[i].next
  BY DEF IsAdvanced
<1>3. x \in Nat \ {0} /\ x \in 1 .. Len(q) /\ d = q[x] /\ \A i \in 1 .. n : s[i].next \in Nat \ {0}
  BY StackIs, <1>1
<1>4. \A i, j \in 1 .. Len(q) : q[i] = q[j] => i = j
  BY OrderIs DEF RunsThrough
<1>5. Len(q) \in Nat
  <2>1. Len(q) = h[a].current_size
    BY OrderIs
  <2> QED
    BY <2>1, NodeIs
<1>6. ~Seen(h, s, a, d)
  <2> SUFFICES ASSUME NEW i \in 1 .. n, s[i].node = a, NEW j \in 1 .. s[i].next - 1, q[j] = d
               PROVE FALSE
    BY DEF Seen
  <2>1. i = n
    BY <1>1
  <2>2. j \in 1 .. x - 1
    BY <2>1
  <2>3. j \in 1 .. Len(q) /\ j # x
    BY <1>3, <1>5, <2>2
  <2> QED
    BY <1>3, <1>4, <2>3
<1>7. ASSUME NEW b, NEW e PROVE Seen(h, t, b, e) <=> Seen(h, s, b, e) \/ (b = a /\ e = d)
  <2>1. CASE b # a
    <3>1. ASSUME NEW i \in 1 .. n, s[i].node = b PROVE t[i].next = s[i].next
      <4>1. i # n
        BY <2>1, <3>1
      <4> QED
        BY <1>2, <4>1
    <3>2. Seen(h, t, b, e) <=> Seen(h, s, b, e)
      BY <1>2, <3>1 DEF Seen
    <3> QED
      BY <2>1, <3>2
  <2>2. CASE b = a
    <3> DEFINE U(y) == \E j \in 1 .. y - 1 : q[j] = e
    <3>1. Seen(h, t, b, e) <=> U(x + 1)
      <4>1. ASSUME NEW i \in 1 .. n, t[i].node = b PROVE i = n
        BY <1>1, <1>2, <2>2, <4>1
      <4>2. t[n].node = b /\ t[n].next = x + 1
        BY <1>1, <1>2, <2>2
      <4> HIDE DEF n
      <4>3. Seen(h, t, b, e) <=> \E i \in 1 .. n : t[i].node = b /\ U(t[i].next)
        BY <1>2, <2>2 DEF Seen
      <4> HIDE DEF U
      <4> QED
        BY <1>1, <4>1, <4>2, <4>3
    <3>2. Seen(h, s, b, e) <=> U(x)
      <4>1. ASSUME NEW i \in 1 .. n, s[i].node = b PROVE i = n
        BY <1>1, <2>2, <4>1
      <4>2. s[n].node = b /\ s[n].next = x
        BY <2>2
      <4>3. Seen(h, s, b, e) <=> \E i \in 1 .. n : s[i].node = b /\ U(s[i].next)
        BY <2>2 DEF Seen
      <4> HIDE DEF U, n
      <4> QED
        BY <1>1, <4>1, <4>2, <4>3
    <3>3. U(x + 1) <=> U(x) \/ e = d
      <4>1. \A j : j \in 1 .. (x + 1) - 1 <=> j \in 1 .. x - 1 \/ j = x
        BY <1>3
      <4> QED
        BY <1>3, <4>1
    <3> QED
      BY <2>2, <3>1, <3>2, <3>3
  <2> QED
    BY <2>1, <2>2
<1> DEFINE A == Visited(h, t)
           B == Visited(h, s)
           C == B \cup {<<a, d>>}
<1>8. (\A b, e : <<b, e>> \in A <=> b \in DOMAIN h /\ e \in AllDigits /\ Seen(h, t, b, e))
      /\ (\A b, e : <<b, e>> \in B <=> b \in DOMAIN h /\ e \in AllDigits /\ Seen(h, s, b, e))
      /\ (\A v \in A : v = <<v[1], v[2]>>) /\ (\A v \in B : v = <<v[1], v[2]>>)
  BY VisitedIs
<1> HIDE DEF A, B
<1>9. \A v \in C : v = <<v[1], v[2]>>
  BY <1>8
<1>10. ASSUME NEW b, NEW e PROVE <<b, e>> \in A <=> <<b, e>> \in C
  <2>1. <<b, e>> \in C <=> <<b, e>> \in B \/ (b = a /\ e = d)
    OBVIOUS
  <2> HIDE DEF C
  <2> QED
    BY <1>1, <1>7, <1>8, <2>1
<1>11. A = C
  <2> HIDE DEF C
  <2> QED
    BY <1>8, <1>9, <1>10, SamePairs
<1>12. <<a, d>> \notin B
  BY <1>6, <1>8
<1> QED
  BY <1>11, <1>12 DEF A, B, C

(* A new invocation has followed none. *)
LEMMA VisitedPushed ==
  ASSUME NEW h, NEW s, IsStack(s), NEW t, NEW a, Pushed(t, s, a)
  PROVE  Visited(h, t) = Visited(h, s)
<1> DEFINE n == Len(s)
<1>1. n \in Nat \ {0} /\ Len(t) = n + 1 /\ t[n + 1].next = 1 /\ \A i \in 1 .. n : t[i] = s[i]
  BY StackIs DEF Pushed
<1>2. ASSUME NEW b, NEW e PROVE Seen(h, t, b, e) <=> Seen(h, s, b, e)
  <2> DEFINE U(i) == t[i].node = b /\ \E j \in 1 .. t[i].next - 1 : Order(h[b])[j] = e
  <2>1. ~U(n + 1)
    BY <1>1
  <2>2. Seen(h, t, b, e) <=> \E i \in 1 .. n + 1 : U(i)
    BY <1>1 DEF Seen
  <2>3. Seen(h, s, b, e) <=> \E i \in 1 .. n : U(i)
    BY <1>1 DEF Seen
  <2>4. \A i : i \in 1 .. n + 1 <=> i \in 1 .. n \/ i = n + 1
    BY <1>1
  <2> HIDE DEF U
  <2> QED
    BY <2>1, <2>2, <2>3, <2>4
<1> QED
  BY <1>2, VisitedIs, SamePairs

(* The nodes on the stack stay as they are. *)
LEMMA VisitedSame ==
  ASSUME NEW h, NEW h2, NEW s,
         \A b \in NodesOf(s) : b \in DOMAIN h /\ b \in DOMAIN h2 /\ h2[b] = h[b]
  PROVE  Visited(h2, s) = Visited(h, s)
<1>1. ASSUME NEW b, NEW e
      PROVE  b \in DOMAIN h2 /\ Seen(h2, s, b, e) <=> b \in DOMAIN h /\ Seen(h, s, b, e)
  <2>1. CASE b \in NodesOf(s)
    <3>1. b \in DOMAIN h /\ b \in DOMAIN h2 /\ h2[b] = h[b]
      BY <2>1
    <3> QED
      BY <3>1 DEF Seen
  <2>2. CASE b \notin NodesOf(s)
    <3>1. ~Seen(h2, s, b, e) /\ ~Seen(h, s, b, e)
      BY <2>2 DEF NodesOf, Seen
    <3> QED
      BY <3>1
  <2> QED
    BY <2>1, <2>2
<1>2. \A b, e : <<b, e>> \in Visited(h2, s) <=> <<b, e>> \in Visited(h, s)
  BY <1>1, VisitedIs
<1> QED
  BY <1>2, VisitedIs, SamePairs

(* An invocation less takes its links with it. *)
LEMMA VisitedPopped ==
  ASSUME NEW h, NEW s, IsStack(s), Apart(h, s), NEW t, NEW a, a = s[Len(s)].node,
         Len(t) = Len(s) - 1, \A i \in 1 .. Len(t) : t[i] = s[i]
  PROVE  Visited(h, t) = {v \in Visited(h, s) : v[1] # a}
<1> DEFINE n == Len(s)
           A == Visited(h, t)
           B == Visited(h, s)
           C == {v \in B : v[1] # a}
<1>1. n \in Nat \ {0} /\ Len(t) = n - 1 /\ (\A i \in 1 .. n - 1 : t[i] = s[i])
      /\ \A i, j \in 1 .. n : s[i].node = s[j].node => i = j
  BY StackIs DEF Apart
<1>2. ASSUME NEW b, NEW e PROVE Seen(h, t, b, e) <=> Seen(h, s, b, e) /\ b # a
  <2> DEFINE U(i) == s[i].node = b /\ \E j \in 1 .. s[i].next - 1 : Order(h[b])[j] = e
  <2>1. Seen(h, t, b, e) <=> \E i \in 1 .. n - 1 : U(i)
    BY <1>1 DEF Seen
  <2>2. Seen(h, s, b, e) <=> \E i \in 1 .. n : U(i)
    BY DEF Seen
  <2>3. \A i : i \in 1 .. n <=> i \in 1 .. n - 1 \/ i = n
    BY <1>1
  <2>4. \A i \in 1 .. n - 1 : i # n
    BY <1>1
  <2>5. (\A i \in 1 .. n : s[i].node = a => i = n) /\ s[n].node = a /\ \A i \in 1 .. n : U(i) => s[i].node = b
    BY <1>1, <2>3
  <2> HIDE DEF U, n
  <2> QED
    BY <2>1, <2>2, <2>3, <2>4, <2>5
<1>3. (\A b, e : <<b, e>> \in A <=> b \in DOMAIN h /\ e \in AllDigits /\ Seen(h, t, b, e))
      /\ (\A b, e : <<b, e>> \in B <=> b \in DOMAIN h /\ e \in AllDigits /\ Seen(h, s, b, e))
      /\ (\A v \in A : v = <<v[1], v[2]>>) /\ (\A v \in B : v = <<v[1], v[2]>>)
  BY VisitedIs
<1> HIDE DEF A, B
<1>4. \A b, e : <<b, e>> \in C <=> <<b, e>> \in B /\ b # a
  OBVIOUS
<1>5. \A v \in C : v = <<v[1], v[2]>>
  BY <1>3
<1> HIDE DEF C
<1>6. \A b, e : <<b, e>> \in A <=> <<b, e>> \in C
  BY <1>2, <1>3, <1>4
<1>7. A = C
  BY <1>3, <1>5, <1>6, SamePairs
<1> QED
  BY <1>7 DEF A, B, C

(* Cells that no root leads to are none: a node of the least depth would   *)
(* have no parent, and a frame needs one.                                  *)
LEMMA EmptyWithoutRoots ==
  ASSUME NEW h, Shape(h, {}, {})
  PROVE  DOMAIN h = {}
<1>1. HeapOK(h) /\ LinksOK(h, {}, {}) /\ \A c \in DOMAIN h : \E a, d : Leads(h, {}, a, d, c)
  BY DEF Shape, Held
<1> DEFINE N == {a \in DOMAIN h : IsNodeCell(h[a])}
           T == {h[a].depth : a \in N}
<1>2. \A a \in N : h[a].depth \in Nat
  <2> TAKE a \in N
  <2>1. ArraysOK(h[a])
    BY <1>1 DEF HeapOK, CellOK
  <2> QED
    BY <2>1, NodeIs
<1>3. T \in SUBSET Nat
  BY <1>2
<1>4. N = {}
  <2> SUFFICES ASSUME N # {} PROVE FALSE
    OBVIOUS
  <2>1. T # {}
    OBVIOUS
  <2> HIDE DEF T
  <2>2. PICK y \in T : \A t \in T : y <= t
    BY <1>3, <2>1, LeastNumber
  <2>3. PICK c \in N : h[c].depth = y
    BY DEF T
  <2>4. PICK a, d : Leads(h, {}, a, d, c)
    BY <1>1
  <2>5. LinkOK(h, c, a, d)
    BY <1>1, <2>4 DEF LinksOK
  <2>6. IsNodeCell(h[c]) /\ a \in N
    BY <2>4 DEF Leads
  <2>7. h[a].depth < h[c].depth
    BY <2>5, <2>6 DEF LinkOK
  <2>8. h[a].depth \in T
    BY <2>6 DEF T
  <2>9. y <= h[a].depth /\ y \in Nat /\ h[a].depth \in Nat
    BY <1>3, <2>2, <2>8
  <2> QED
    BY <2>3, <2>7, <2>9
<1>5. ASSUME NEW c \in DOMAIN h PROVE FALSE
  <2>1. PICK a, d : Leads(h, {}, a, d, c)
    BY <1>1
  <2>2. a \in N
    BY <2>1 DEF Leads
  <2> QED
    BY <1>4, <2>2
<1> QED
  BY <1>5

(* A memory without roots is empty. *)
LEMMA EmptyIs ==
  ASSUME NEW m, NEW F, NEW E, NEW w, Good(m, {}, {}, F, E, w)
  PROVE  Empty(m)
<1>1. Shape(m.heap, {}, {}) /\ AccountOK(m, w)
  BY DEF Good
<1>2. DOMAIN m.heap = {}
  BY <1>1, EmptyWithoutRoots
<1> QED
  BY <1>1, <1>2 DEF Empty, AccountOK

(* destroy. *)
LEMMA Leaves ==
  ASSUME Calling, UNCHANGED <<recent, call, answer>>, step' = Gone, Empty(mem')
  PROVE  HeapInv'
<1>1. Departed'
  BY DEF Departed
<1>2. Calling'
  BY DEF Calling
<1> QED
  BY <1>1, <1>2 DEF HeapInv, Phase

DestroyedTo(m, t) ==
  /\ IsStack(t) /\ Apart(m.heap, t)
  /\ \E F, E, w : Good(m, NodesOf(t), Visited(m.heap, t), F, E, w)

(* A destruction goes on. *)
LEMMA WalksDown ==
  ASSUME Calling, UNCHANGED <<recent, call, answer>>,
         NEW t, step' = [do |-> "destroy", stack |-> t], DestroyedTo(mem', t)
  PROVE  HeapInv'
<1>1. step'.stack = t
  OBVIOUS
<1>2. Destroying'
  BY <1>1 DEF Destroying, DestroyedTo
<1>3. Calling'
  BY DEF Calling
<1> QED
  BY <1>2, <1>3 DEF HeapInv, Phase

(* destroy begins at the root. *)
LEMMA DestroyKeeps ==
  ASSUME Calling, AboutToDestroy, Destroy
  PROVE  HeapInv'
<1> DEFINE t == <<Invocation(root)>>
<1>1. /\ MemOK(mem, root, {}) /\ UNCHANGED <<mem, root, recent, call, answer>>
      /\ step' = IF root = Null THEN Gone ELSE [do |-> "destroy", stack |-> t]
  BY DEF AboutToDestroy, Destroy
<1>2. CASE root = Null
  <2>1. Good(mem, {}, {}, {}, {}, 0)
    BY <1>1, <1>2, MemWithoutRoot
  <2>2. Empty(mem)
    <3> DEFINE F == {}
               w == 0
    <3>1. Good(mem, {}, {}, F, F, w)
      BY <2>1
    <3> HIDE DEF F, w
    <3> QED
      BY <3>1, EmptyIs
  <2>3. Empty(mem')
    BY <1>1, <2>2
  <2> QED
    BY <1>1, <1>2, <2>3, Leaves
<1>3. CASE root # Null
  <2>1. Good(mem, {root}, {}, {}, {}, 0) /\ IsNodeCell(mem.heap[root]) /\ root \in DOMAIN mem.heap
    BY <1>1, <1>3, AtRoot
  <2>2. root \in Nat /\ t = <<Invocation(root)>>
    BY <2>1, MemAgain
  <2> HIDE DEF t
  <2>3. IsStack(t) /\ Len(t) = 1 /\ t[1].node = root /\ t[1].next = 1 /\ NodesOf(t) = {root}
    BY ONLY <2>2, FirstOfStack
  <2>4. Apart(mem.heap, t)
    <3>1. \A i \in 1 .. Len(t) : i = 1
      BY <2>3
    <3> QED
      BY <2>1, <2>3, <3>1 DEF Apart
  <2>5. Visited(mem.heap, t) = {}
    BY <2>3 DEF Visited
  <2>6. DestroyedTo(mem, t)
    BY <2>1, <2>3, <2>4, <2>5 DEF DestroyedTo
  <2>7. DestroyedTo(mem', t) /\ step' = [do |-> "destroy", stack |-> t]
    BY <1>1, <1>3, <2>6
  <2> QED
    BY <1>1, <2>7, WalksDown
<1> QED
  BY <1>2, <1>3

(* The nodes on the stack are the roots of what is left. *)
LEMMA DestroyingIs ==
  ASSUME Destroying, NEW s, s = step.stack
  PROVE  /\ IsStack(s) /\ Apart(mem.heap, s) /\ HeapOK(mem.heap) /\ step = [do |-> "destroy", stack |-> s]
         /\ \E F, E, w : Good(mem, NodesOf(s), Visited(mem.heap, s), F, E, w)
<1>1. /\ IsStack(s) /\ Apart(mem.heap, s) /\ step = [do |-> "destroy", stack |-> s]
      /\ \E F, E, w : Good(mem, NodesOf(s), Visited(mem.heap, s), F, E, w)
  BY DEF Destroying
<1>2. HeapOK(mem.heap)
  BY <1>1 DEF Good, Shape
<1> QED
  BY <1>1, <1>2

(* A frame is freed, or a child becomes a root of its own. *)
LEMMA DestroyChildKeeps ==
  ASSUME Calling, Destroying, DestroyChild
  PROVE  HeapInv'
<1> DEFINE s == step.stack
           adv == Advance(s)
           a == Top.node
           h == mem.heap
           n == h[a]
           d == TopDigit
           c == Child(n, d)
           m2 == mem'
           R == NodesOf(s)
           V == Visited(h, s)
           V2 == Visited(h, adv)
<1>1. ~TopDone /\ UNCHANGED <<root, recent, call, answer>>
  BY DEF DestroyChild
<1>2. /\ IsStack(s) /\ Apart(h, s) /\ HeapOK(h) /\ step = [do |-> "destroy", stack |-> s]
      /\ \E F, E, w : Good(mem, R, V, F, E, w)
  BY DestroyingIs
<1>3. PICK F, E, w : Good(mem, R, V, F, E, w)
  BY <1>2
<1>4. AtTop(h, s, a)
  BY <1>2, TopIs DEF Top
<1>5. a = s[Len(s)].node /\ a \in DOMAIN h /\ IsNodeCell(n) /\ ArraysOK(n) /\ Last(s).next \in Nat \ {0}
      /\ Last(s) = s[Len(s)]
  BY <1>4 DEF AtTop
<1> DEFINE i == Last(s).next
<1>6. d \in AllDigits /\ c # Null /\ c \in Nat /\ i \in 1 .. Len(Order(n)) /\ d = Order(n)[i]
  <2>1. ~(i > Len(Order(n))) /\ d = Order(n)[i]
    BY <1>1 DEF TopDone, TopNode, TopDigit, Top
  <2> HIDE DEF i, d, n
  <2> QED
    BY <1>5, <2>1, NextDigitIs DEF i
<1>7. Advanced = adv
  BY DEF Advanced, Advance, Top
<1>8. IsAdvanced(adv, s) /\ IsStack(adv) /\ Len(adv) = Len(s)
  BY <1>2, AdvanceIs DEF IsAdvanced
<1>9. NodesOf(adv) = R /\ Apart(h, adv)
  BY <1>2, <1>8, NodesAdvanced
<1>10. V2 = V \cup {<<a, d>>} /\ <<a, d>> \notin V
  <2>1. i = s[Len(s)].next /\ ArraysOK(h[a]) /\ i \in 1 .. Len(Order(h[a])) /\ d = Order(h[a])[i]
    BY <1>5, <1>6
  <2> HIDE DEF i, d, a, adv, s, h
  <2> QED
    BY <1>2, <1>5, <1>6, <1>8, <2>1, VisitedAdvanced
<1>11. Leads(h, V, a, d, c)
  BY <1>5, <1>6, <1>10 DEF Leads
<1>12. Good(mem, R \cup {c}, V2, F, E, w) /\ c \in DOMAIN h /\ LinkOK(h, c, a, d) /\ c \notin R
  <2> HIDE DEF R, V, V2, a, d, c
  <2>1. Good(mem, R \cup {c}, V \cup {<<a, d>>}, F, E, w) /\ c \in DOMAIN h /\ LinkOK(h, c, a, d) /\ c \notin R
    BY ONLY <1>3, <1>11, Cut
  <2> QED
    BY <1>10, <2>1
<1>13. \A b \in R : b \in DOMAIN h /\ IsNodeCell(h[b])
  BY <1>2 DEF Apart, NodesOf
<1>14. CASE n.leaf
  <2>1. m2 = Free(mem, c) /\ step' = [do |-> "destroy", stack |-> adv]
    BY <1>2, <1>7, <1>14 DEF DestroyChild, TopNode
  <2> DEFINE R2 == R \cup {c}
             V3 == {v \in V2 : v[1] # c}
             w2 == w + CellBytes(mem.heap[c])
  <2>2. ~IsNodeCell(h[c])
    BY <1>12, <1>14 DEF LinkOK
  <2>3. LeadsNowhere(mem.heap, V2, c)
    BY <2>2 DEF LeadsNowhere, Leads
  <2>4. V3 = V2
    <3>1. ASSUME NEW v \in V2 PROVE v[1] # c
      <4>1. v[1] \in NodesOf(adv)
        BY DEF Visited, NodesOf
      <4> QED
        BY <1>9, <1>12, <4>1
    <3> QED
      BY <3>1
  <2>5. R2 \ {c} = R /\ c \in R2
    BY <1>12
  <2> HIDE DEF R2, V3, w2, R, V, V2, a, d, c, m2
  <2>6. Good(m2, R2 \ {c}, V3, F \ {c}, E \ {c}, w2) /\ Freed(m2, mem, c)
    <3>1. Good(mem, R2, V2, F, E, w) /\ V3 = {v \in V2 : v[1] # c} /\ w2 = w + CellBytes(mem.heap[c])
      BY <1>12 DEF R2, V3, w2
    <3> QED
      BY ONLY <2>1, <2>3, <2>5, <3>1, FreeRoot
  <2>7. Good(m2, R, V2, F \ {c}, E \ {c}, w2)
    BY <2>4, <2>5, <2>6
  <2>8. \A b \in NodesOf(adv) : b \in DOMAIN h /\ b \in DOMAIN m2.heap /\ m2.heap[b] = h[b]
    BY <1>9, <1>12, <1>13, <2>6 DEF Freed
  <2>9. Visited(m2.heap, adv) = V2
    BY <2>8, VisitedSame DEF V2
  <2>10. Apart(m2.heap, adv)
    <3>1. \A j \in 1 .. Len(adv) : adv[j].node \in DOMAIN m2.heap /\ m2.heap[adv[j].node] = h[adv[j].node]
      BY <2>8 DEF NodesOf
    <3> QED
      BY <1>9, <3>1 DEF Apart
  <2>11. DestroyedTo(m2, adv)
    BY <1>8, <1>9, <2>7, <2>9, <2>10 DEF DestroyedTo
  <2> QED
    BY <1>1, <2>1, <2>11, WalksDown DEF m2
<1>15. CASE ~n.leaf
  <2> DEFINE t == Append(adv, Invocation(c))
  <2>1. mem' = mem /\ step' = [do |-> "destroy", stack |-> t]
    BY <1>2, <1>7, <1>15 DEF DestroyChild, TopNode
  <2>2. IsNodeCell(h[c])
    BY <1>12, <1>15 DEF LinkOK
  <2>3. Pushed(t, adv, c)
    <3> HIDE DEF adv, c
    <3> QED
      BY <1>6, <1>8, PushIs
  <2> HIDE DEF t, adv, c, a, d, R, V, V2
  <2>4. NodesOf(t) = R \cup {c}
    BY <1>8, <1>9, <2>3, NodesPushed
  <2>5. Visited(h, t) = V2
    BY <1>8, <2>3, VisitedPushed DEF V2
  <2>6. Apart(h, t)
    <3> DEFINE z == Len(adv)
    <3>1. z \in Nat /\ Len(t) = z + 1 /\ t[z + 1].node = c /\ (\A j \in 1 .. z : t[j] = adv[j])
      BY <1>8, <2>3, StackIs DEF Pushed
    <3>2. \A j \in 1 .. z : adv[j].node # c
      BY <1>9, <1>12 DEF NodesOf
    <3>3. \A j \in 1 .. Len(t) : j \in 1 .. z \/ j = z + 1
      BY <3>1
    <3>4. /\ \A j \in 1 .. z : adv[j].node \in DOMAIN h /\ IsNodeCell(h[adv[j].node])
          /\ \A j, k \in 1 .. z : adv[j].node = adv[k].node => j = k
      BY <1>9 DEF Apart
    <3> HIDE DEF z
    <3>5. \A j \in 1 .. Len(t) : t[j].node \in DOMAIN h /\ IsNodeCell(h[t[j].node])
      BY <1>12, <2>2, <3>1, <3>3, <3>4
    <3>6. \A j, k \in 1 .. Len(t) : t[j].node = t[k].node => j = k
      BY <3>1, <3>2, <3>3, <3>4
    <3> QED
      BY <3>5, <3>6 DEF Apart
  <2>7. DestroyedTo(mem, t)
    BY <1>12, <2>3, <2>4, <2>5, <2>6 DEF DestroyedTo, Pushed
  <2>8. DestroyedTo(mem', t)
    BY <2>1, <2>7
  <2> QED
    BY <1>1, <2>1, <2>8, WalksDown
<1> QED
  BY <1>14, <1>15

(* A node whose children are gone is freed. *)
LEMMA DestroyDoneKeeps ==
  ASSUME Calling, Destroying, DestroyDone
  PROVE  HeapInv'
<1> DEFINE s == step.stack
           a == Top.node
           h == mem.heap
           n == h[a]
           m2 == mem'
           R == NodesOf(s)
           V == Visited(h, s)
           t == Front(s)
           V2 == {v \in V : v[1] # a}
<1>1. /\ TopDone /\ m2 = Free(mem, a) /\ UNCHANGED <<root, recent, call, answer>>
      /\ step' = IF Len(s) = 1 THEN Gone ELSE [step EXCEPT !.stack = t]
  BY DEF DestroyDone
<1>2. /\ IsStack(s) /\ Apart(h, s) /\ HeapOK(h) /\ step = [do |-> "destroy", stack |-> s]
      /\ \E F, E, w : Good(mem, R, V, F, E, w)
  BY DestroyingIs
<1>3. PICK F, E, w : Good(mem, R, V, F, E, w)
  BY <1>2
<1>4. AtTop(h, s, a)
  BY <1>2, TopIs DEF Top
<1>5. a = s[Len(s)].node /\ a \in DOMAIN h /\ IsNodeCell(n) /\ ArraysOK(n) /\ Last(s) = s[Len(s)]
      /\ Len(s) \in 1 .. Len(s) /\ Len(s) \in Nat \ {0} /\ s[Len(s)].next \in Nat \ {0}
  BY <1>2, <1>4, StackIs DEF AtTop
<1>6. a \in R
  BY <1>5 DEF NodesOf
<1>7. LeadsNowhere(h, V, a)
  <2> SUFFICES ASSUME NEW d, NEW x, Leads(h, V, a, d, x) PROVE FALSE
    BY DEF LeadsNowhere
  <2>1. d \in AllDigits /\ <<a, d>> \notin V /\ Child(n, d) # Null
    BY DEF Leads
  <2>2. RunsThrough(Order(n), Present(n)) /\ Len(Order(n)) = n.current_size /\ n.current_size \in Nat
    BY <1>5, OrderIs, NodeIs
  <2>3. d \in Present(n)
    BY <2>1 DEF Present
  <2>4. PICK j \in 1 .. Len(Order(n)) : Order(n)[j] = d
    BY <2>1, <2>2, <2>3 DEF RunsThrough
  <2> DEFINE y == s[Len(s)].next
  <2>5. y > Len(Order(n)) /\ y \in Nat \ {0}
    BY <1>1, <1>5 DEF TopDone, Top, TopNode
  <2> HIDE DEF y
  <2>6. j \in 1 .. y - 1
    BY <2>2, <2>4, <2>5
  <2>7. Seen(h, s, a, d)
    BY <1>5, <2>4, <2>6 DEF Seen, y
  <2>8. <<a, d>> \in V
    BY <1>5, <2>1, <2>7, VisitedIs
  <2> QED
    BY <2>1, <2>8
<1> DEFINE w2 == w + CellBytes(mem.heap[a])
<1> HIDE DEF R, V, V2, a, m2, w2
<1>8. Good(m2, R \ {a}, V2, F \ {a}, E \ {a}, w2) /\ Freed(m2, mem, a)
  <2>1. V2 = {v \in V : v[1] # a} /\ w2 = w + CellBytes(mem.heap[a])
    BY DEF V2, w2
  <2> QED
    BY ONLY <1>1, <1>3, <1>6, <1>7, <2>1, FreeRoot
<1>9. CASE Len(s) = 1
  <2>1. R \ {a} = {}
    BY <1>5, <1>9 DEF R, NodesOf
  <2>2. V2 = {}
    <3>1. ASSUME NEW v \in V PROVE v[1] = a
      BY <1>5, <1>9 DEF V, Visited
    <3> QED
      BY <3>1 DEF V2
  <2>3. Empty(m2)
    BY <1>8, <2>1, <2>2, EmptyIs
  <2>4. step' = Gone
    BY <1>1, <1>9
  <2> QED
    BY <1>1, <2>3, <2>4, Leaves DEF m2
<1>10. CASE Len(s) # 1
  <2>1. step' = [do |-> "destroy", stack |-> t]
    <3>1. step' = [step EXCEPT !.stack = t]
      BY <1>1, <1>10
    <3> QED
      BY <1>2, <3>1
  <2>2. Popped(t, s)
    BY <1>2, <1>10, PopIs
  <2> HIDE DEF t, s
  <2>3. IsStack(t) /\ Len(t) = Len(s) - 1 /\ \A i \in 1 .. Len(t) : t[i] = s[i]
    BY <2>2 DEF Popped
  <2>4. NodesOf(t) = R \ {a}
    BY <1>2, <1>5, <2>2, NodesPopped DEF R
  <2>5. Visited(h, t) = V2
    BY <1>2, <1>5, <2>3, VisitedPopped DEF V, V2
  <2>6. \A b \in NodesOf(t) : b \in DOMAIN h /\ b \in DOMAIN m2.heap /\ m2.heap[b] = h[b]
    <3>1. \A b \in R : b \in DOMAIN h
      BY <1>2 DEF R, Apart, NodesOf
    <3> QED
      BY <1>8, <2>4, <3>1 DEF Freed
  <2>7. Visited(m2.heap, t) = V2
    BY <2>5, <2>6, VisitedSame
  <2>8. Apart(m2.heap, t)
    <3>1. \A j \in 1 .. Len(t) : j \in 1 .. Len(s)
      BY <1>5, <2>3
    <3>2. \A j \in 1 .. Len(t) : m2.heap[t[j].node] = h[t[j].node] /\ t[j].node \in DOMAIN m2.heap
      BY <2>6 DEF NodesOf
    <3>3. \A j \in 1 .. Len(t) : IsNodeCell(h[t[j].node])
      BY <1>2, <2>3, <3>1 DEF Apart
    <3>4. \A j, k \in 1 .. Len(t) : t[j].node = t[k].node => j = k
      BY <1>2, <2>3, <3>1 DEF Apart
    <3> QED
      BY <3>2, <3>3, <3>4 DEF Apart
  <2>9. DestroyedTo(m2, t)
    BY <1>8, <2>3, <2>4, <2>7, <2>8 DEF DestroyedTo
  <2> QED
    BY <1>1, <2>1, <2>9, WalksDown DEF m2
<1> QED
  BY <1>9, <1>10

(* Another object begins with the empty memory that destroy left. *)
LEMMA EmptyIsGood ==
  ASSUME NEW m, m = [heap |-> m.heap, current_size |-> 0],
         m.heap = [a \in DOMAIN m.heap |-> m.heap[a]], DOMAIN m.heap = {}
  PROVE  MemOK(m, Null, {})
<1> DEFINE h == m.heap
           S == {}
<1>1. HeapOK(h)
  BY FS_EmptySet DEF HeapOK
<1>2. Shape(h, {}, {})
  BY <1>1 DEF Shape, LinksOK, OneLink, Held, Leads
<1>3. Fixes(h, {}) /\ Thick(h, {})
  BY DEF Fixes, Thick
<1>4. Weight(h) = 0
  <2>1. Pile(h) = {}
    BY DEF Pile, All
  <2> QED
    BY <2>1, FS_EmptySet DEF Weight
<1>5. m.current_size = 0
  OBVIOUS
<1>6. AccountOK(m, 0)
  BY <1>4, <1>5 DEF AccountOK
<1>7. Good(m, {}, {}, {}, {}, 0)
  BY <1>2, <1>3, <1>6 DEF Good
<1> QED
  BY <1>7, MemWithoutRoot

(* A new object begins with nothing. *)
LEMMA RenewKeeps ==
  ASSUME Calling, Departed, Renew
  PROVE  HeapInv'
<1>1. /\ mem' = [mem EXCEPT !.current_size = 0] /\ root' = Null /\ recent' = << >>
      /\ Return /\ answer' = answer
  BY DEF Renew
<1>2. /\ mem = [heap |-> mem.heap, current_size |-> mem.current_size]
      /\ mem.heap = [a \in DOMAIN mem.heap |-> mem.heap[a]] /\ DOMAIN mem.heap = {}
  BY DEF Departed, Empty
<1>3. mem' = [heap |-> mem.heap, current_size |-> 0]
  BY <1>1, <1>2
<1>4. mem'.heap = mem.heap
  BY <1>3
<1>5. MemOK(mem', Null, {})
  BY <1>2, <1>3, <1>4, EmptyIsGood
<1>6. recent' \in Seq(CachedKeys) /\ Len(recent') < RingLength /\ answer' \in CachedPages \cup {0}
  <2>1. << >> \in Seq(CachedKeys) /\ Len(<< >>) = 0 /\ RingLength \in Nat \ {0}
    BY RadixHeapAssumption
  <2> QED
    BY <1>1, <2>1 DEF Calling
<1> QED
  BY <1>1, <1>5, <1>6, AfterCall

(* The first state. *)
LEMMA InitHeapInv == Init => HeapInv
<1> SUFFICES ASSUME Init PROVE HeapInv
  OBVIOUS
<1>1. /\ mem = [heap |-> << >>, current_size |-> 0] /\ root = Null /\ recent = << >>
      /\ call = NoCall /\ answer = 0 /\ step = Idle
  BY DEF Init
<1>2. mem = [heap |-> mem.heap, current_size |-> 0] /\ mem.heap = << >>
  BY <1>1
<1>3. mem.heap = [a \in DOMAIN mem.heap |-> mem.heap[a]] /\ DOMAIN mem.heap = {}
  BY <1>2
<1>4. MemOK(mem, Null, {})
  BY <1>2, <1>3, EmptyIsGood
<1>5. AtRest
  BY <1>1, <1>4 DEF AtRest
<1>6. << >> \in Seq(CachedKeys) /\ Len(<< >>) = 0 /\ RingLength \in Nat \ {0}
  BY RadixHeapAssumption
<1>7. Calling
  BY <1>1, <1>6 DEF Calling
<1> QED
  BY <1>5, <1>7 DEF HeapInv, Phase

(* A call begins. *)
LEMMA BeginKeeps ==
  ASSUME Calling, AtRest, NEW c \in CacheCalls, Begin(c)
  PROVE  HeapInv'
<1>1. /\ MemOK(mem, root, {}) /\ call' = c /\ answer' = 0 /\ UNCHANGED <<mem, root, recent>>
      /\ step' = IF c.kind \in {"update_range", "destroy"} THEN [do |-> c.kind]
                 ELSE [do |-> c.kind, key |-> c.key]
  BY DEF AtRest, Begin
<1>2. Calling'
  BY <1>1 DEF Calling
<1>3. \/ c.kind = "insert" /\ c.key \in CachedKeys
      \/ c.kind = "delete_reference" /\ c.key \in CachedKeys
      \/ c.kind = "get_page" /\ c.key \in CachedKeys
      \/ c.kind = "update_range"
      \/ c.kind = "destroy"
  BY DEF CacheCalls
<1>4. CASE c.kind = "insert" /\ c.key \in CachedKeys
  <2>1. step' = [do |-> "insert", key |-> c.key]
    BY <1>1, <1>4
  <2>2. Inserting'
    BY <1>1, <1>4, <2>1 DEF Inserting, Simple
  <2> QED
    BY <1>2, <2>2 DEF HeapInv, Phase
<1>5. CASE c.kind = "delete_reference" /\ c.key \in CachedKeys
  <2>1. step' = [do |-> "delete_reference", key |-> c.key]
    BY <1>1, <1>5
  <2>2. Deleting'
    BY <1>1, <1>5, <2>1 DEF Deleting, Simple
  <2> QED
    BY <1>2, <2>2 DEF HeapInv, Phase
<1>6. CASE c.kind = "get_page" /\ c.key \in CachedKeys
  <2>1. step' = [do |-> "get_page", key |-> c.key]
    BY <1>1, <1>6
  <2>2. Getting'
    BY <1>1, <1>6, <2>1 DEF Getting, Simple
  <2> QED
    BY <1>2, <2>2 DEF HeapInv, Phase
<1>7. CASE c.kind = "update_range"
  <2>1. step' = [do |-> "update_range"]
    BY <1>1, <1>7
  <2>2. AboutToUpdate'
    BY <1>1, <1>7, <2>1 DEF AboutToUpdate
  <2> QED
    BY <1>2, <2>2 DEF HeapInv, Phase
<1>8. CASE c.kind = "destroy"
  <2>1. step' = [do |-> "destroy"]
    BY <1>1, <1>8
  <2>2. AboutToDestroy'
    BY <1>1, <2>1 DEF AboutToDestroy
  <2> QED
    BY <1>2, <2>2 DEF HeapInv, Phase
<1> QED
  BY <1>3, <1>4, <1>5, <1>6, <1>7, <1>8

(* The step that is to be done next tells the phase. *)
LEMMA NextHeapInv == HeapInv /\ [Next]_vars => HeapInv'
<1> SUFFICES ASSUME HeapInv, [Next]_vars PROVE HeapInv'
  OBVIOUS
<1>1. Calling /\ Phase
  BY DEF HeapInv
<1>2. /\ step = Idle => AtRest
      /\ step.do = "insert" => Inserting
      /\ step.do = "delete_reference" => Deleting
      /\ step.do = "get_page" => Getting
      /\ step.do = "insert_recursive" => InsertingBelow
      /\ step.do = "delete_reference_recursive" => DeletingBelow
      /\ step.do = "get_page_recursive" => GettingBelow
      /\ step = [do |-> "update_range"] => AboutToUpdate
      /\ Walking("update_range") => Updating
      /\ step = [do |-> "destroy"] => AboutToDestroy
      /\ Walking("destroy") => Destroying
      /\ step = Gone => Departed
  BY <1>1, PhaseIs
<1>3. ASSUME NEW c \in CacheCalls, Begin(c) PROVE HeapInv'
  <2>1. AtRest
    BY <1>2, <1>3 DEF Begin
  <2> QED
    BY <1>1, <1>3, <2>1, BeginKeeps
<1>4. CASE InsertFirst
  BY <1>1, <1>2, <1>4, InsertFirstKeeps DEF InsertFirst
<1>5. CASE InsertFromRoot
  BY <1>1, <1>2, <1>5, InsertFromRootKeeps DEF InsertFromRoot
<1>6. CASE MakeRoom
  BY <1>1, <1>2, <1>6, MakeRoomKeeps DEF MakeRoom
<1>7. CASE GrowRoot
  BY <1>1, <1>2, <1>7, GrowRootKeeps DEF GrowRoot
<1>8. CASE BranchAtRoot
  BY <1>1, <1>2, <1>8, BranchAtRootKeeps DEF BranchAtRoot
<1>9. CASE InsertReference
  BY <1>1, <1>2, <1>9, InsertReferenceKeeps DEF InsertReference, InsertHere
<1>10. CASE InsertBelow
  BY <1>1, <1>2, <1>10, InsertBelowKeeps DEF InsertBelow, InsertHere
<1>11. CASE DeleteFromEmpty
  BY <1>1, <1>2, <1>11, DeleteFromEmptyKeeps DEF DeleteFromEmpty, Deletes
<1>12. CASE DeleteFromRoot
  BY <1>1, <1>2, <1>12, DeleteFromRootKeeps DEF DeleteFromRoot, Deletes
<1>13. CASE DeleteBelowRoot
  BY <1>1, <1>2, <1>13, DeleteBelowRootKeeps DEF DeleteBelowRoot, Deletes
<1>14. CASE DeleteRecursive
  BY <1>1, <1>2, <1>14, DeleteRecursiveKeeps DEF DeleteRecursive
<1>15. CASE GetFromRoot
  BY <1>1, <1>2, <1>15, GetFromRootKeeps DEF GetFromRoot
<1>16. CASE GetNothing
  BY <1>1, <1>2, <1>16, GetNothingKeeps DEF GetNothing, Gets
<1>17. CASE GetBelow
  BY <1>1, <1>2, <1>17, GetBelowKeeps DEF GetBelow, Gets
<1>18. CASE GetPage
  BY <1>1, <1>2, <1>18, GetPageKeeps DEF GetPage, Gets
<1>19. CASE UpdateRange
  BY <1>1, <1>2, <1>19, UpdateRangeKeeps DEF UpdateRange
<1>20. CASE UpdateChild
  BY <1>1, <1>2, <1>20, UpdateChildKeeps DEF UpdateChild
<1>21. CASE UpdateDone
  BY <1>1, <1>2, <1>21, UpdateDoneKeeps DEF UpdateDone
<1>22. CASE Destroy
  BY <1>1, <1>2, <1>22, DestroyKeeps DEF Destroy
<1>23. CASE DestroyChild
  BY <1>1, <1>2, <1>23, DestroyChildKeeps DEF DestroyChild
<1>24. CASE DestroyDone
  BY <1>1, <1>2, <1>24, DestroyDoneKeeps DEF DestroyDone
<1>25. CASE Renew
  BY <1>1, <1>2, <1>25, RenewKeeps DEF Renew
<1>26. CASE UNCHANGED vars
  <2>1. UNCHANGED <<mem, root, recent, call, answer, step>>
    BY <1>26 DEF vars
  <2>2. Calling'
    BY <1>1, <2>1 DEF Calling
  <2>3. Phase'
    BY <1>1, <2>1 DEF Phase, AtRest, Inserting, Deleting, Getting, Simple, InsertingBelow,
      DeletingBelow, GettingBelow, AboutToUpdate, Updating, AboutToDestroy, Destroying, Departed, Node
  <2> QED
    BY <2>2, <2>3 DEF HeapInv
<1> QED
  BY <1>3, <1>4, <1>5, <1>6, <1>7, <1>8, <1>9, <1>10, <1>11, <1>12, <1>13, <1>14, <1>15, <1>16,
     <1>17, <1>18, <1>19, <1>20, <1>21, <1>22, <1>23, <1>24, <1>25, <1>26 DEF Next, Step

(* In every phase the cells of memory are what they should be. *)
LEMMA CellsAreOK ==
  ASSUME Phase
  PROVE  HeapOK(mem.heap)
<1>1. ASSUME NEW F, MemOK(mem, root, F) PROVE HeapOK(mem.heap)
  BY <1>1 DEF MemOK, Good, Shape
<1>2. ASSUME NEW R, NEW V, NEW F, NEW E, NEW w, Good(mem, R, V, F, E, w) PROVE HeapOK(mem.heap)
  BY <1>2 DEF Good, Shape
<1>3. ASSUME Empty(mem) PROVE HeapOK(mem.heap)
  <2>1. DOMAIN mem.heap = {}
    BY <1>3 DEF Empty
  <2> QED
    BY <2>1, FS_EmptySet DEF HeapOK
<1>4. CASE \E F : MemOK(mem, root, F)
  BY <1>1, <1>4
<1>5. CASE Destroying
  BY <1>2, <1>5 DEF Destroying
<1>6. CASE Departed
  BY <1>3, <1>6 DEF Departed
<1>7. \/ \E F : MemOK(mem, root, F)
      \/ Destroying \/ Departed
  BY DEF Phase, AtRest, Inserting, Deleting, Getting, InsertingBelow, DeletingBelow, GettingBelow,
    AboutToUpdate, Updating, AboutToDestroy
<1> QED
  BY <1>4, <1>5, <1>6, <1>7

(* In use, the nodes that are fixed are those on the way of the call. *)
LEMMA InUseIs ==
  ASSUME Phase, InUse
  PROVE  MemOK(mem, root, OnTheWay)
<1>1. ASSUME step.do \in {"nothing", "insert", "delete_reference", "get_page"} PROVE OnTheWay = {}
  BY <1>1 DEF OnTheWay, Walking
<1>2. CASE AtRest
  <2>1. step.do = "nothing" /\ MemOK(mem, root, {})
    BY <1>2 DEF AtRest, Idle
  <2> QED
    BY <1>1, <2>1
<1>3. CASE Inserting \/ Deleting \/ Getting
  <2>1. step.do \in {"insert", "delete_reference", "get_page"} /\ MemOK(mem, root, {})
    BY <1>3 DEF Inserting, Deleting, Getting, Simple
  <2> QED
    BY <1>1, <2>1
<1>4. CASE InsertingBelow \/ GettingBelow
  <2>1. step.do \in {"insert_recursive", "get_page_recursive"} /\ MemOK(mem, root, {step.node})
    BY <1>4 DEF InsertingBelow, GettingBelow
  <2>2. OnTheWay = {step.node}
    BY <2>1 DEF OnTheWay, Walking
  <2> QED
    BY <2>1, <2>2
<1>5. CASE DeletingBelow
  <2>1. step.do = "delete_reference_recursive" /\ MemOK(mem, root, {step.parent})
    BY <1>5 DEF DeletingBelow
  <2>2. OnTheWay = {step.parent}
    BY <2>1 DEF OnTheWay, Walking
  <2> QED
    BY <2>1, <2>2
<1>6. CASE AboutToUpdate
  <2>1. step = [do |-> "update_range"] /\ MemOK(mem, root, {})
    BY <1>6 DEF AboutToUpdate
  <2>2. step.do = "update_range" /\ "stack" \notin DOMAIN step
    BY <2>1
  <2>3. OnTheWay = {}
    BY <2>2 DEF OnTheWay, Walking
  <2> QED
    BY <2>1, <2>3
<1>7. CASE Updating
  <2>1. /\ step = [do |-> "update_range", stack |-> step.stack] /\ IsStack(step.stack)
        /\ MemOK(mem, root, NodesOf(step.stack))
    BY <1>7 DEF Updating
  <2>2. step.do = "update_range" /\ Walking("update_range")
    BY <2>1 DEF Walking
  <2>3. OnTheWay = {i.node : i \in Range(step.stack)}
    BY <2>2 DEF OnTheWay
  <2>4. Range(step.stack) = {step.stack[i] : i \in 1 .. Len(step.stack)}
    BY <2>1 DEF IsStack, Range
  <2>5. OnTheWay = NodesOf(step.stack)
    BY <2>3, <2>4 DEF NodesOf
  <2> QED
    BY <2>1, <2>5
<1>8. CASE AboutToDestroy \/ Destroying \/ Departed
  <2>1. step.do \in {"destroy", "gone"}
    BY <1>8 DEF AboutToDestroy, Destroying, Departed, Gone
  <2> QED
    BY <2>1 DEF InUse
<1> QED
  BY <1>2, <1>3, <1>4, <1>5, <1>6, <1>7, <1>8 DEF Phase

(* Nodes as cells. *)
LEMMA NodesAre == Nodes = {a \in DOMAIN mem.heap : IsNodeCell(mem.heap[a])}
BY DEF Nodes, IsNode, IsNodeCell

(* Arrays and frames are what they should be. *)
LEMMA ImpliesTypeOK == HeapInv => TypeOK
<1> SUFFICES ASSUME HeapInv PROVE TypeOK
  OBVIOUS
<1>1. /\ recent \in Seq(CachedKeys) /\ Len(recent) < RingLength
      /\ call \in CacheCalls \cup {NoCall} /\ answer \in CachedPages \cup {0} /\ HeapOK(mem.heap)
  BY CellsAreOK DEF HeapInv, Calling
<1>2. Range(recent) \subseteq CachedKeys
  BY <1>1 DEF Range
<1>3. ASSUME NEW a \in DOMAIN mem.heap
      PROVE  /\ IsNode(a) => mem.heap[a].type \in 1 .. 4 /\ ArraysAgree(mem.heap[a])
             /\ ~IsNode(a) => mem.heap[a] \in [page_id : CachedPages]
  <2>1. CellOK(mem.heap[a]) /\ (IsNode(a) <=> IsNodeCell(mem.heap[a]))
    BY <1>1 DEF HeapOK, IsNode, IsNodeCell
  <2>2. ASSUME IsNode(a) PROVE mem.heap[a].type \in 1 .. 4 /\ ArraysAgree(mem.heap[a])
    BY <2>1, <2>2, ArraysAreOK DEF CellOK
  <2> QED
    BY <2>1, <2>2 DEF CellOK
<1> QED
  BY <1>1, <1>2, <1>3 DEF TypeOK

(* The fixed nodes are those on the way. *)
LEMMA ImpliesFixedOnTheWay == HeapInv => FixedOnTheWay
<1> SUFFICES ASSUME HeapInv, InUse, NEW a \in Nodes
             PROVE  mem.heap[a].fix_count = IF a \in OnTheWay THEN 1 ELSE 0
  BY DEF FixedOnTheWay
<1>1. MemOK(mem, root, OnTheWay)
  BY InUseIs DEF HeapInv
<1>2. Fixes(mem.heap, OnTheWay)
  BY <1>1 DEF MemOK, Good
<1>3. a \in DOMAIN mem.heap /\ IsNodeCell(mem.heap[a])
  BY NodesAre
<1> QED
  BY <1>2, <1>3 DEF Fixes

(* The children of a node are what its digits lead to. *)
LEMMA ChildrenAre ==
  ASSUME NEW h, NEW a \in DOMAIN h, IsNodeCell(h[a]), NEW c
  PROVE  c \in Children(h[a]) <=> \E d : Leads(h, {}, a, d, c)
BY DEF Children, Leads

(* After a call the tree is valid. *)
LEMMA ImpliesValidateAccepts == HeapInv => ValidateAccepts
<1> SUFFICES ASSUME HeapInv, step = Idle PROVE IsCompressed /\ LeafDepthCorrect /\ KeyMatches
  BY DEF ValidateAccepts
<1> DEFINE h == mem.heap
           R == {root} \ {Null}
<1>1. Good(mem, R, {}, {}, {}, 0)
  BY PhaseIs DEF HeapInv, AtRest, MemOK
<1>2. HeapOK(h) /\ LinksOK(h, R, {}) /\ Thick(h, {})
  BY <1>1 DEF Good, Shape
<1> HIDE DEF R
<1>3. ASSUME NEW a \in Nodes
      PROVE a \in DOMAIN h /\ IsNodeCell(h[a]) /\ ArraysOK(h[a]) /\ (h[a].leaf <=> h[a].depth = Digits)
  <2>1. a \in DOMAIN h /\ IsNodeCell(h[a])
    BY NodesAre
  <2> QED
    BY <1>2, <2>1 DEF HeapOK, CellOK
<1>4. IsCompressed
  <2>1. ASSUME NEW a \in Nodes PROVE h[a].leaf \/ h[a].current_size > 1
    <3>1. a \in DOMAIN h \ {} /\ IsNodeCell(h[a])
      BY <1>3
    <3> QED
      BY <1>2, <3>1 DEF Thick
  <2> QED
    BY <2>1 DEF IsCompressed
<1>5. LeafDepthCorrect
  BY <1>3 DEF LeafDepthCorrect
<1>6. ASSUME NEW a \in Nodes, ~h[a].leaf, NEW c \in Children(h[a])
      PROVE  h[a].depth - 1 <= CommonDigits(h[a].key, h[c].key)
  <2>1. PICK d : Leads(h, {}, a, d, c)
    BY <1>3, ChildrenAre
  <2>2. Agree(h[a].key, h[c].key, h[a].depth - 1)
    BY <1>2, <1>6, <2>1 DEF LinksOK, LinkOK
  <2> DEFINE p == h[a].depth - 1
             x == h[a].key
             y == h[c].key
  <2>3. h[a].depth \in 1 .. Digits /\ Digits \in Nat
    BY <1>3, NodeIs, Parameters
  <2>4. p \in 0 .. Digits - 1 /\ Agree(x, y, p)
    BY <2>2, <2>3
  <2> HIDE DEF p, x, y
  <2>5. p < Depth(x, y)
    BY <2>4, DepthIs
  <2>6. CommonDigits(x, y) \in 0 .. Digits - 1 /\ Depth(x, y) = CommonDigits(x, y) + 1
    BY CommonDigitsAre DEF Depth
  <2>7. p <= CommonDigits(x, y)
    BY <2>3, <2>4, <2>5, <2>6
  <2> QED
    BY <2>7 DEF p, x, y
<1>7. KeyMatches
  BY <1>6 DEF KeyMatches
<1> QED
  BY <1>4, <1>5, <1>7

(* What the root leads to in a number of steps: a node is reached after as *)
(* many as its depth tells, for depths grow from node to node.             *)
LEMMA BelowIs ==
  ASSUME NEW R, NEW F, NEW w, Good(mem, R, {}, F, {}, w), NEW X \in SUBSET DOMAIN mem.heap
  PROVE  /\ Below(X) \in SUBSET DOMAIN mem.heap /\ X \subseteq Below(X)
         /\ \A a, d, c : a \in X /\ Leads(mem.heap, {}, a, d, c) => c \in Below(X)
<1> DEFINE h == mem.heap
<1>1. LinksOK(h, R, {})
  BY DEF Good, Shape
<1>2. ASSUME NEW a \in X \cap Nodes PROVE Children(h[a]) \subseteq DOMAIN h
  <2>1. a \in DOMAIN h /\ IsNodeCell(h[a])
    BY <1>2, NodesAre
  <2>2. ASSUME NEW c \in Children(h[a]) PROVE c \in DOMAIN h
    <3>1. PICK d : Leads(h, {}, a, d, c)
      BY <2>1, ChildrenAre
    <3> QED
      BY <1>1, <3>1 DEF LinksOK, LinkOK
  <2> QED
    BY <2>2
<1>3. ASSUME NEW a, NEW d, NEW c, a \in X, Leads(h, {}, a, d, c) PROVE c \in Below(X)
  <2>1. a \in DOMAIN h /\ IsNodeCell(h[a])
    BY <1>3 DEF Leads
  <2>2. c \in Children(h[a]) /\ a \in X \cap Nodes
    BY <1>3, <2>1, ChildrenAre, NodesAre
  <2> QED
    BY <2>2 DEF Below
<1> QED
  BY <1>2, <1>3 DEF Below

(* The root leads to all cells. *)
LEMMA ReachedIs ==
  ASSUME NEW F, MemOK(mem, root, F)
  PROVE  Reached = DOMAIN mem.heap
<1> DEFINE h == mem.heap
           R == {root} \ {Null}
           X == SUBSET DOMAIN h
           Is(f) == f = [i \in 0 .. Digits |-> IF i = 0 THEN R ELSE Below(f[i - 1])]
           W == CHOOSE f : Is(f)
           g == [d \in 1 .. Digits |-> [c \in X |-> Below(c)]]
           S == {k \in 0 .. Digits :
                   /\ W[k] \in X /\ R \subseteq W[k]
                   /\ \A c \in Nodes : h[c].depth <= k + 1 => c \in W[k]}
<1>1. Reached = W[Digits]
  BY DEF Reached
<1>2. Good(mem, R, {}, F, {}, 0) /\ (root # Null => IsNodeCell(h[root]))
  BY DEF MemOK
<1>3. HeapOK(h) /\ LinksOK(h, R, {}) /\ Held(h, R, {}) /\ R \subseteq DOMAIN h
  BY <1>2 DEF Good, Shape
<1>4. R \in X /\ (\A c \in R : c = root /\ IsNodeCell(h[c]))
  BY <1>2, <1>3
<1>5. Digits \in Nat \ {0} /\ Digits \in Nat /\ \A i \in 1 .. Digits : i - 1 \in 0 .. Digits
  BY Parameters
<1> HIDE DEF R
<1>6. \A c \in X : Below(c) \in X /\ c \subseteq Below(c)
                  /\ \A a, d, x : a \in c /\ Leads(h, {}, a, d, x) => x \in Below(c)
  <2> DEFINE w == 0
  <2>1. Good(mem, R, {}, F, {}, w)
    BY <1>2
  <2> HIDE DEF w
  <2> QED
    BY <2>1, BelowIs
<1>7. g \in [1 .. Digits -> [X -> X]]
  BY <1>6
<1> HIDE DEF X, g
<1>8. PICK f \in [0 .. Digits -> X] : Steps(f, g, R, Digits)
  <2>1. R \in X /\ Digits \in Nat
    BY <1>4, <1>5
  <2> QED
    BY <1>7, <2>1, StepsExist
<1>9. Is(f)
  <2>1. ASSUME NEW d \in 0 .. Digits, d # 0 PROVE g[d][f[d - 1]] = Below(f[d - 1])
    <3>1. d \in 1 .. Digits /\ d - 1 \in 0 .. Digits
      BY <1>5, <2>1
    <3>2. f[d - 1] \in X
      BY <3>1
    <3> QED
      BY <3>1, <3>2 DEF g
  <2> QED
    BY <1>8, <2>1 DEF Steps
<1>10. Is(W)
  BY <1>9
<1> HIDE DEF W
<1>11. ASSUME NEW c \in Nodes, c \notin R
       PROVE  \E a \in Nodes : /\ h[a].depth < h[c].depth /\ h[a].depth \in 1 .. Digits
                               /\ \E d : Leads(h, {}, a, d, c)
  <2>1. c \in DOMAIN h /\ IsNodeCell(h[c])
    BY NodesAre
  <2>2. PICK a, d : Leads(h, {}, a, d, c)
    BY <1>3, <1>11, <2>1 DEF Held
  <2>3. LinkOK(h, c, a, d)
    BY <1>3, <2>2 DEF LinksOK
  <2>4. a \in DOMAIN h /\ IsNodeCell(h[a])
    BY <2>2 DEF Leads
  <2>5. h[a].depth < h[c].depth
    BY <2>1, <2>3 DEF LinkOK
  <2>6. h[a].depth \in 1 .. Digits
    BY <1>3, <2>4, NodeIs DEF HeapOK, CellOK
  <2>7. a \in Nodes
    BY <2>4, NodesAre
  <2> QED
    BY <2>2, <2>5, <2>6, <2>7
<1>12. \A c \in Nodes : h[c].depth \in 1 .. Digits
  BY <1>3, NodeIs, NodesAre DEF HeapOK, CellOK
<1>13. 0 \in S
  <2>1. W[0] = R /\ 0 \in 0 .. Digits
    BY <1>5, <1>10
  <2>2. ASSUME NEW c \in Nodes, h[c].depth <= 0 + 1 PROVE c \in R
    <3>1. SUFFICES ASSUME c \notin R PROVE FALSE
      OBVIOUS
    <3>2. PICK a \in Nodes : h[a].depth < h[c].depth /\ h[a].depth \in 1 .. Digits
      BY <1>11, <3>1
    <3>3. h[c].depth \in 1 .. Digits
      BY <1>12
    <3> QED
      BY <2>2, <3>2, <3>3
  <2> QED
    BY <1>4, <2>1, <2>2
<1>14. ASSUME NEW k \in 0 .. Digits - 1, k \in S PROVE k + 1 \in S
  <2>1. k + 1 \in 0 .. Digits /\ k + 1 # 0 /\ (k + 1) - 1 = k
    BY <1>5
  <2>2. W[k + 1] = Below(W[k])
    <3>1. W[k + 1] = Below(W[(k + 1) - 1])
      BY <1>10, <2>1
    <3> QED
      BY <2>1, <3>1
  <2>3. W[k] \in X /\ R \subseteq W[k] /\ \A c \in Nodes : h[c].depth <= k + 1 => c \in W[k]
    BY <1>14
  <2>4. W[k + 1] \in X /\ R \subseteq W[k + 1]
    BY <1>6, <2>2, <2>3
  <2>5. ASSUME NEW c \in Nodes, h[c].depth <= (k + 1) + 1 PROVE c \in W[k + 1]
    <3>1. CASE c \in R
      BY <2>4, <3>1
    <3>2. CASE c \notin R
      <4>1. PICK a \in Nodes : /\ h[a].depth < h[c].depth /\ h[a].depth \in 1 .. Digits
                               /\ \E d : Leads(h, {}, a, d, c)
        BY <1>11, <3>2
      <4>2. h[c].depth \in 1 .. Digits
        BY <1>12
      <4>3. h[a].depth <= k + 1
        BY <2>5, <4>1, <4>2
      <4>4. a \in W[k]
        BY <2>3, <4>3
      <4> QED
        BY <1>6, <2>2, <2>3, <4>1, <4>4
    <3> QED
      BY <3>1, <3>2
  <2> QED
    BY <2>1, <2>4, <2>5
<1> HIDE DEF S
<1>15. \A k \in 0 .. Digits : k \in S
  BY <1>5, <1>13, <1>14, FromStepToStep
<1>16. Digits \in S /\ Digits - 1 \in S /\ Digits \in 0 .. Digits /\ Digits # 0
  <2>1. Digits \in 0 .. Digits /\ Digits - 1 \in 0 .. Digits
    BY <1>5
  <2> QED
    BY <1>5, <1>15, <2>1
<1>17. W[Digits] = Below(W[Digits - 1])
  BY <1>10, <1>16
<1>18. \A c \in Nodes : c \in W[Digits - 1] /\ c \in W[Digits]
  <2>1. \A c \in Nodes : h[c].depth <= Digits + 1 /\ h[c].depth <= (Digits - 1) + 1
    BY <1>5, <1>12
  <2> QED
    BY <1>16, <2>1 DEF S
<1>19. ASSUME NEW c \in DOMAIN h PROVE c \in W[Digits]
  <2>1. CASE c \in R
    BY <1>16, <2>1 DEF S
  <2>2. CASE c \notin R
    <3>1. PICK a, d : Leads(h, {}, a, d, c)
      BY <1>3, <2>2 DEF Held
    <3>2. a \in Nodes
      BY <3>1, NodesAre DEF Leads
    <3>3. W[Digits - 1] \in X
      BY <1>16 DEF S
    <3> QED
      BY <1>6, <1>17, <1>18, <3>1, <3>2, <3>3
  <2> QED
    BY <2>1, <2>2
<1>20. W[Digits] \subseteq DOMAIN h
  BY <1>16 DEF S, X
<1> QED
  BY <1>1, <1>19, <1>20

(* A node has as many children as current_size tells. *)
LEMMA ChildrenCounted ==
  ASSUME NEW F, MemOK(mem, root, F), NEW a \in Nodes
  PROVE  /\ IsFiniteSet(Children(mem.heap[a])) /\ mem.heap[a].current_size \in Nat
         /\ Cardinality(Children(mem.heap[a])) = mem.heap[a].current_size
<1> DEFINE h == mem.heap
           P == Present(h[a])
           C == Children(h[a])
           f == [d \in P |-> Child(h[a], d)]
<1>1. HeapOK(h) /\ OneLink(h, {})
  BY DEF MemOK, Good, Shape
<1>2. a \in DOMAIN h /\ IsNodeCell(h[a]) /\ ArraysOK(h[a])
  BY <1>1, NodesAre DEF HeapOK, CellOK
<1>3. IsFiniteSet(P) /\ Cardinality(P) = h[a].current_size
  <2>1. P \in SUBSET AllDigits
    BY DEF Present
  <2>2. IsFiniteSet(P)
    BY <2>1, Parameters, FS_Subset
  <2> QED
    BY <1>2, <2>2 DEF ArraysOK
<1>4. f \in [P -> C]
  BY DEF Present, Children
<1>5. \A d, e \in P : f[d] = f[e] => d = e
  <2> SUFFICES ASSUME NEW d \in P, NEW e \in P, f[d] = f[e] PROVE d = e
    OBVIOUS
  <2>1. Leads(h, {}, a, d, f[d]) /\ Leads(h, {}, a, e, f[d])
    BY <1>2 DEF Leads, Present
  <2> QED
    BY <1>1, <2>1 DEF OneLink
<1>6. \A c \in C : \E d \in P : f[d] = c
  BY DEF Present, Children
<1> HIDE DEF f
<1>7. f \in Bijection(P, C)
  BY <1>4, <1>5, <1>6 DEF Bijection, Injection, Surjection, IsInjective
<1>8. ExistsBijection(P, C)
  BY <1>7 DEF ExistsBijection
<1>9. IsFiniteSet(C) /\ Cardinality(C) = Cardinality(P)
  BY <1>3, <1>8, FS_Bijection
<1> QED
  BY <1>2, <1>3, <1>9, NodeIs

(* The cells other than the root are the children of the nodes, and no     *)
(* cell is a child twice.                                                  *)
LEMMA CellsCounted ==
  ASSUME NEW F, MemOK(mem, root, F)
  PROVE  Cardinality(DOMAIN mem.heap \ {root}) =
           MapThenSumSet(LAMBDA a : mem.heap[a].current_size, Nodes)
<1> DEFINE h == mem.heap
           v == [a \in Nodes |-> h[a].current_size]
           G == [a \in Nodes |-> Children(h[a])]
           Is(f) == f = [s \in SUBSET Nodes |-> IF s = {} THEN 0
                           ELSE LET x == CHOOSE x \in s : TRUE IN h[x].current_size + f[s \ {x}]]
           W == CHOOSE f : Is(f)
<1>1. MapThenSumSet(LAMBDA a : mem.heap[a].current_size, Nodes) = W[Nodes]
  BY DEF MapThenSumSet, MapThenFoldSet
<1>2. ASSUME NEW f PROVE Is(f) <=> IsSum(f, v, Nodes)
  <2>1. ASSUME NEW s \in SUBSET Nodes, s # {}
        PROVE  LET x == CHOOSE x \in s : TRUE IN v[x] = h[x].current_size
    <3> DEFINE x == CHOOSE x \in s : TRUE
    <3>1. x \in s
      BY <2>1
    <3>2. x \in Nodes
      BY <3>1
    <3> QED
      BY <3>2
  <2> QED
    BY <2>1 DEF IsSum
<1>3. HeapOK(h) /\ OneLink(h, {}) /\ LinksOK(h, {root} \ {Null}, {}) /\ Held(h, {root} \ {Null}, {})
  BY DEF MemOK, Good, Shape
<1>4. Counted(G, v, Nodes)
  <2>1. ASSUME NEW a \in Nodes
        PROVE  IsFiniteSet(G[a]) /\ Cardinality(G[a]) = v[a] /\ v[a] \in Nat
    BY ChildrenCounted
  <2>2. ASSUME NEW a \in Nodes, NEW b \in Nodes, a # b PROVE G[a] \cap G[b] = {}
    <3>1. SUFFICES ASSUME NEW c \in Children(h[a]), c \in Children(h[b]) PROVE FALSE
      OBVIOUS
    <3>2. PICK d : Leads(h, {}, a, d, c)
      BY <3>1, NodesAre, ChildrenAre
    <3>3. PICK e : Leads(h, {}, b, e, c)
      BY <3>1, NodesAre, ChildrenAre
    <3> QED
      BY <1>3, <2>2, <3>2, <3>3 DEF OneLink
  <2> HIDE DEF G, v
  <2> QED
    BY <2>1, <2>2 DEF Counted
<1>5. IsFiniteSet(Nodes)
  BY <1>3, FS_Subset DEF HeapOK, Nodes
<1>6. All(G, Nodes) = DOMAIN h \ {root}
  <2>1. ASSUME NEW c \in All(G, Nodes) PROVE c \in DOMAIN h \ {root}
    <3>1. PICK a \in Nodes : c \in Children(h[a])
      BY DEF All
    <3>2. PICK d : Leads(h, {}, a, d, c)
      BY <3>1, NodesAre, ChildrenAre
    <3>3. c \in DOMAIN h /\ c \notin {root} \ {Null} /\ c # Null
      BY <1>3, <3>2 DEF LinksOK, LinkOK, Leads
    <3> QED
      BY <3>3
  <2>2. ASSUME NEW c \in DOMAIN h \ {root} PROVE c \in All(G, Nodes)
    <3>1. c \in DOMAIN h \ ({root} \ {Null})
      OBVIOUS
    <3>2. PICK a, d : Leads(h, {}, a, d, c)
      BY <1>3, <3>1 DEF Held
    <3>3. a \in DOMAIN h /\ IsNodeCell(h[a])
      BY <3>2 DEF Leads
    <3>4. a \in Nodes /\ c \in Children(h[a])
      BY <3>2, <3>3, NodesAre, ChildrenAre
    <3> QED
      BY <3>4 DEF All
  <2> QED
    BY <2>1, <2>2
<1> HIDE DEF v, G
<1>7. (\E f : IsSum(f, v, Nodes)) /\ \A f : IsSum(f, v, Nodes) => f[Nodes] = Cardinality(All(G, Nodes))
  BY <1>4, <1>5, SumIs
<1> HIDE DEF Is
<1>8. Is(W)
  BY <1>2, <1>7
<1> HIDE DEF W
<1>9. W[Nodes] = Cardinality(All(G, Nodes))
  BY <1>2, <1>7, <1>8
<1> QED
  BY <1>1, <1>6, <1>9

(* current_size of the tree is the size of its cells. *)
LEMMA BytesCounted ==
  ASSUME NEW F, MemOK(mem, root, F)
  PROVE  mem.current_size = MapThenSumSet(Bytes, DOMAIN mem.heap)
<1> DEFINE h == mem.heap
           S == DOMAIN h
           v == [a \in S |-> CellBytes(h[a])]
           Is(f) == f = [s \in SUBSET S |-> IF s = {} THEN 0
                           ELSE LET x == CHOOSE x \in s : TRUE IN Bytes(x) + f[s \ {x}]]
           W == CHOOSE f : Is(f)
<1>1. MapThenSumSet(Bytes, S) = W[S]
  BY DEF MapThenSumSet, MapThenFoldSet
<1>2. ASSUME NEW f PROVE Is(f) <=> IsSum(f, v, S)
  <2>1. ASSUME NEW s \in SUBSET S, s # {}
        PROVE  LET x == CHOOSE x \in s : TRUE IN v[x] = Bytes(x)
    <3> DEFINE x == CHOOSE x \in s : TRUE
    <3>1. x \in s
      BY <2>1
    <3>2. x \in S
      BY <3>1
    <3> QED
      BY <3>2 DEF Bytes, CellBytes, IsNode, IsNodeCell
  <2> QED
    BY <2>1 DEF IsSum
<1>3. HeapOK(h) /\ AccountOK(mem, 0)
  BY DEF MemOK, Good, Shape
<1>4. Counted(BytesOf(h), v, S) /\ IsFiniteSet(S)
  BY <1>3, BytesAreCounted DEF HeapOK
<1> HIDE DEF v
<1> HIDE DEF S
<1>5. (\E f : IsSum(f, v, S)) /\ \A f : IsSum(f, v, S) => f[S] = Cardinality(All(BytesOf(h), S))
  BY <1>4, SumIs
<1> HIDE DEF Is
<1>6. Is(W)
  BY <1>2, <1>5
<1> HIDE DEF W
<1>7. W[S] = Cardinality(All(BytesOf(h), S))
  BY <1>2, <1>5, <1>6
<1>8. mem.current_size = Weight(h) /\ Weight(h) = Cardinality(All(BytesOf(h), S))
  <2>1. Weight(h) \in Nat
    BY <1>3, WeightIs
  <2>2. mem.current_size = Weight(h) + 0
    BY <1>3 DEF AccountOK
  <2> QED
    BY <2>1, <2>2 DEF Weight, Pile, S
<1> QED
  BY <1>1, <1>7, <1>8 DEF S

(* The cells are the tree. *)
LEMMA ImpliesCellsAreTheTree == HeapInv => CellsAreTheTree
<1> SUFFICES ASSUME HeapInv PROVE CellsAreTheTree
  OBVIOUS
<1>1. ASSUME InUse
      PROVE  /\ Reached = DOMAIN mem.heap
             /\ Cardinality(DOMAIN mem.heap \ {root}) =
                  MapThenSumSet(LAMBDA a : mem.heap[a].current_size, Nodes)
             /\ mem.current_size = MapThenSumSet(Bytes, DOMAIN mem.heap)
  <2>1. PICK F : MemOK(mem, root, F)
    BY <1>1, InUseIs DEF HeapInv
  <2>2. Reached = DOMAIN mem.heap
    BY <2>1, ReachedIs
  <2>3. Cardinality(DOMAIN mem.heap \ {root}) =
          MapThenSumSet(LAMBDA a : mem.heap[a].current_size, Nodes)
    BY <2>1, CellsCounted
  <2>4. mem.current_size = MapThenSumSet(Bytes, DOMAIN mem.heap)
    BY <2>1, BytesCounted
  <2> QED
    BY <2>2, <2>3, <2>4
<1>2. ASSUME step = Gone PROVE mem.heap = << >>
  <2>1. Empty(mem)
    BY <1>2, PhaseIs DEF HeapInv, Departed
  <2>2. mem.heap = [a \in DOMAIN mem.heap |-> mem.heap[a]] /\ DOMAIN mem.heap = {}
    BY <2>1 DEF Empty
  <2>3. DOMAIN << >> = {} /\ << >> = [a \in {} |-> mem.heap[a]]
    OBVIOUS
  <2> QED
    BY <2>2, <2>3
<1> QED
  BY <1>1, <1>2 DEF CellsAreTheTree

-----------------------------------------------------------------------------
(* The theorems. *)

(* The memory of the radix tree in every phase of a call: below the root   *)
(* (while the tree is destroyed: below the nodes on the stack) is a tree,  *)
(* but for what a call that is under way has cut off, all cells are in it, *)
(* and the account is their size.  All the other theorems follow from it.  *)
THEOREM TreeStaysWhole == Spec => []HeapInv
<1>1. Init => HeapInv
  BY InitHeapInv
<1>2. HeapInv /\ [Next]_vars => HeapInv'
  BY NextHeapInv
<1> QED
  BY <1>1, <1>2, PTL DEF Spec

(* The arrays of every node agree with one another and with current_size,  *)
(* and none overflows, whatever grows, shrinks or moves (r_nodes.h).       *)
THEOREM ArraysAlwaysAgree == Spec => []TypeOK
<1>1. HeapInv => TypeOK
  BY ImpliesTypeOK
<1> QED
  BY <1>1, TreeStaysWhole, PTL

(* Nothing leaks, nothing is freed twice or used after it was freed:       *)
(* between any two steps of insert, delete_reference, get_page and         *)
(* update_range the cells in use are those the root leads to, each by one  *)
(* pointer; current_size is their size; destroy() leaves none.             *)
THEOREM NothingLeaks == Spec => []CellsAreTheTree
<1>1. HeapInv => CellsAreTheTree
  BY ImpliesCellsAreTheTree
<1> QED
  BY <1>1, TreeStaysWhole, PTL

(* The assertions of fix_node and unfix_node hold: a node is fixed once    *)
(* while a call is on its way through it, and never after it, whatever was *)
(* split, collapsed or replaced meanwhile.                                 *)
THEOREM FixesAreBalanced == Spec => []FixedOnTheWay
<1>1. HeapInv => FixedOnTheWay
  BY ImpliesFixedOnTheWay
<1> QED
  BY <1>1, TreeStaysWhole, PTL

(* After every call valdidate() finds no fault: inner nodes have more than *)
(* one child, the leaves are at the last digit, the keys of children have  *)
(* the prefix of their parent.                                             *)
THEOREM CacheIsValid == Spec => []ValidateAccepts
<1>1. HeapInv => ValidateAccepts
  BY ImpliesValidateAccepts
<1> QED
  BY <1>1, TreeStaysWhole, PTL
=============================================================================
