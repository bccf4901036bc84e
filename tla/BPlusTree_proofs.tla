-------------------------- MODULE BPlusTree_proofs --------------------------
(***************************************************************************)
(* The B+ tree keeps its order and its sizes, call by call and piece by    *)
(* piece, for trees of any height, any number of keys and any node size,   *)
(* and implements a map.                                                   *)
(***************************************************************************)
EXTENDS BTree_proofs

Half == N \div 2
(* Half of the array length, of which the limits on the sizes are made. *)
LEMMA HalfIs == Half \in Nat /\ Half >= 2 /\ 2 * Half <= N /\ N <= 2 * Half + 1 /\ N \in Nat
<1>1. N \in Nat /\ N > 3
  BY NodeSizeAssumption
<1> QED
  BY <1>1 DEF Half

(* What the sizes of nodes mean. *)
LEMMA InnerSizes ==
  ASSUME NEW n, n.inner, Len(n.keys) \in Nat
  PROVE  /\ MaxSize(n) = N - 1 /\ (IsFull(n) <=> Len(n.keys) >= N - 1)
         /\ (CanDelete(n) <=> Len(n.keys) >= Half) /\ (IsTooEmpty(n) <=> Len(n.keys) < Half - 1)
<1>1. N \in Nat /\ N > 3
  BY NodeSizeAssumption
<1>2. MaxSize(n) = N - 1 /\ (MaxSize(n) + 1) \div 2 = Half
  <2>1. (N - 1) + 1 = N
    BY <1>1
  <2> QED
    BY <2>1 DEF MaxSize, Half
<1> QED
  BY <1>2 DEF IsFull, CanDelete, IsTooEmpty
(* The same for leaves. *)
LEMMA OuterSizes ==
  ASSUME NEW n, ~n.inner, Len(n.keys) \in Nat
  PROVE  /\ MaxSize(n) = N /\ (IsFull(n) <=> Len(n.keys) >= N)
         /\ (CanDelete(n) <=> Len(n.keys) > Half) /\ (IsTooEmpty(n) <=> Len(n.keys) < Half)
  BY DEF MaxSize, IsFull, CanDelete, IsTooEmpty, Half

(* Where a full node is cut, both halves have enough entries.              *)
LEMMA SplitIndexIs ==
  /\ SplitIndex(N) \in Nat /\ SplitIndex(N) > 0 /\ SplitIndex(N) < N
  /\ SplitIndex(N) >= Half /\ N - SplitIndex(N) >= Half
  /\ SplitIndex(N - 1) = Half
<1>1. N \in Nat /\ N > 3 /\ N - 1 \in Nat
  BY NodeSizeAssumption
<1>2. CASE N % 2 = 0
  <2>1. SplitIndex(N) = Half /\ N = 2 * Half /\ (N - 1) % 2 = 1 /\ (N - 1) \div 2 = Half - 1
    BY <1>1, <1>2 DEF SplitIndex, Half
  <2> QED
    BY <1>1, <2>1, HalfIs DEF SplitIndex
<1>3. CASE N % 2 # 0
  <2>1. SplitIndex(N) = Half + 1 /\ N = 2 * Half + 1 /\ (N - 1) % 2 = 0 /\ (N - 1) \div 2 = Half
    BY <1>1, <1>3 DEF SplitIndex, Half
  <2> QED
    BY <1>1, <2>1, HalfIs DEF SplitIndex
<1> QED
  BY <1>2, <1>3

-----------------------------------------------------------------------------
(* Pages put together. *)
LEMMA PageIs == ASSUME NEW a, NEW n PROVE DOMAIN Page(a, n) = {a} /\ Page(a, n)[a] = n
  BY DEF Page


-----------------------------------------------------------------------------
(* What Effect does to the counts: every page has the fixes it had, apart  *)
(* from those of the call.                                                 *)
Counts(fc, F) == fc \in [PageIds -> Nat] /\ \A i \in PageIds : fc[i] >= Bit(i \in F)
Others(fc, F, i) == fc[i] - Bit(i \in F)
Turns(F, fixed, unfixed, F2) ==
  unfixed \subseteq F /\ fixed \cap F \subseteq unfixed /\ F2 = (F \ unfixed) \cup fixed
(* The counts follow the pages that are fixed. *)
LEMMA EffectCounts ==
  ASSUME NEW new, NEW fixed, NEW unfixed, NEW saved, Effect(new, fixed, unfixed, saved),
         NEW F, NEW F2, Counts(fix_count, F), Turns(F, fixed, unfixed, F2)
  PROVE  Counts(fix_count', F2) /\ \A i \in PageIds : Others(fix_count', F2, i) = Others(fix_count, F, i)
<1>1. fix_count' = [i \in PageIds |-> fix_count[i] + Bit(i \in fixed) - Bit(i \in unfixed)]
  BY DEF Effect
<1>2. ASSUME NEW i \in PageIds
      PROVE  /\ fix_count'[i] \in Nat /\ fix_count'[i] >= Bit(i \in F2)
             /\ Others(fix_count', F2, i) = Others(fix_count, F, i)
  <2>1. fix_count[i] \in Nat /\ fix_count[i] >= Bit(i \in F)
    BY DEF Counts
  <2>2. fix_count'[i] = fix_count[i] + Bit(i \in fixed) - Bit(i \in unfixed)
    BY <1>1
  <2>3. CASE i \in unfixed
    BY <2>1, <2>2, <2>3 DEF Turns, Bit, Others
  <2>4. CASE i \notin unfixed
    BY <2>1, <2>2, <2>4 DEF Turns, Bit, Others
  <2> QED
    BY <2>3, <2>4
<1>3. fix_count' = [i \in PageIds |-> fix_count'[i]]
  BY <1>1
<1> QED
  BY <1>2, <1>3 DEF Counts
(* Nothing is left unsaved if every page written is saved at once. *)
LEMMA EffectSaves ==
  ASSUME NEW new, NEW fixed, NEW unfixed, NEW saved, Effect(new, fixed, unfixed, saved), unsaved = {},
         \A x \in DOMAIN pages \cap DOMAIN new : x \notin saved => new[x] = pages[x]
  PROVE  unsaved' = {} /\ pages' = new
  BY DEF Effect

(* The call in progress. *)
LEMMA OpFacts ==
  ASSUME op \in Ops
  PROVE  /\ op # NoOp /\ op.key \in Keys /\ op.key \in Int
         /\ -1 < op.key /\ op.key < Top
         /\ op.kind \in {"insert", "update"} => op.value \in Values
<1>1. op.key \in Keys
  BY DEF Ops
<1>2. op.kind \in {"insert", "update"} => op.value \in Values
  BY DEF Ops
<1>3. op.kind \in {"insert", "update", "get", "delete", "scan"}
  BY DEF Ops
<1>4. NoOp.kind = "none"
  BY DEF NoOp
<1> QED
  BY <1>1, <1>2, <1>3, <1>4, KeysAreInts

-----------------------------------------------------------------------------
(* The inductive invariant.  The labels fit the pages, no node is too big  *)
(* or too small, and each place of a call knows where in the tree the call *)
(* is.  The key of the call belongs below a page; once it was exchanged,   *)
(* it is the last key of the odd leaf, the last below every page on the    *)
(* way.                                                                    *)
Here(lo, hi, odd, x) ==
  IF odd = 0 THEN lo[x] < op.key /\ op.key <= hi[x] ELSE hi[x] = hi[odd]
Strictly(lo, hi, odd, x) == Here(lo, hi, odd, x) /\ (odd = 0 => op.key < hi[x])
OpIs(kind) == op \in Ops /\ op.kind = kind /\ node \in DOMAIN pages
Fresh(pg, key) ==
  \A x \in DOMAIN pg : ~pg[x].inner => \A j \in 1 .. Len(pg[x].keys) : pg[x].keys[j] # key
Index == Position(pages[node], op.key)

Resting(odd) == pc = "idle" /\ op = NoOp /\ odd = 0
Walking(lo, hi, odd) ==
  /\ pc \in {"get", "update", "scan"} /\ OpIs(pc) /\ odd = 0 /\ Here(lo, hi, odd, node)
ScanningOn(odd) == pc = "scan_on" /\ OpIs("scan") /\ odd = 0 /\ NodeIsLeaf
Inserting(lo, hi, odd) ==
  /\ pc = "insert" /\ OpIs("insert") /\ odd = 0 /\ Here(lo, hi, odd, node) /\ Fresh(pages, op.key)
  /\ node = root_id \/ ~IsFull(pages[node])
Splitting(lo, hi, odd) ==
  /\ pc = "split" /\ OpIs("insert") /\ odd = 0 /\ Here(lo, hi, odd, node) /\ Fresh(pages, op.key)
  /\ ~NodeIsLeaf /\ ~IsFull(pages[node]) /\ child = NextChild /\ IsFull(pages[child])
  /\ other \in PageIds \ DOMAIN pages
(* A page that is gone to can lose an entry, or its child can. *)
Spares(x) ==
  \/ x = root_id
  \/ CanDelete(pages[x])
  \/ pages[x].inner /\ CanDelete(pages[NextPage(pages[x], op.key)])
Deleting(lo, hi, odd) ==
  /\ pc = "delete" /\ OpIs("delete") /\ Strictly(lo, hi, odd, node) /\ Spares(node)
Finding(lo, hi, h, odd) ==
  /\ pc = "find" /\ OpIs("delete") /\ odd = 0 /\ Strictly(lo, hi, odd, node)
  /\ ~NodeIsLeaf /\ HasKey(pages[node], op.key) /\ child = NextChild /\ CanDelete(pages[child])
  /\ other \in DOMAIN pages /\ hi[other] = op.key /\ h[other] <= h[child]
BalancingPlaces ==
  {"ask_left", "left", "ask_right", "right", "merge", "merge_left", "merge_right"}
Balancing(lo, hi, odd) ==
  /\ pc \in BalancingPlaces /\ OpIs("delete") /\ Strictly(lo, hi, odd, node)
  /\ ~NodeIsLeaf /\ Len(pages[node].keys) > 0 /\ child = NextChild /\ ~CanDelete(pages[child])
  /\ node = root_id \/ CanDelete(pages[node])
  /\ pc \in {"left", "merge_left"} => Index > 1 /\ other = ChildAt(pages, node, Index - 1)
  /\ pc = "right" => Index <= Len(pages[node].keys) /\ other = ChildAt(pages, node, Index + 1)
  /\ pc = "merge_right" => Index = 1 /\ other = ChildAt(pages, node, Index + 1)

Registers(lo, hi, h, odd) ==
  \/ Resting(odd) \/ Walking(lo, hi, odd) \/ ScanningOn(odd)
  \/ Inserting(lo, hi, odd) \/ Splitting(lo, hi, odd)
  \/ Deleting(lo, hi, odd) \/ Finding(lo, hi, h, odd) \/ Balancing(lo, hi, odd)

(* The pages that are fixed. *)
Fixed ==
  IF pc = "idle" THEN {}
  ELSE IF pc \in {"get", "update", "scan", "scan_on", "insert", "delete"} THEN {node}
  ELSE IF pc \in {"ask_left", "ask_right", "merge"} THEN {node, child}
  ELSE IF pc = "find" THEN {node, other}
  ELSE {node, child, other}

(* Only a call that is going to shrink the tree meets a root without keys. *)
RootFilled ==
  pages[root_id].inner /\ pages[root_id].keys = << >> => pc = "delete" /\ node = root_id
NumbersOK == {node, child, other} \subseteq 0 .. MaxPages

Labelled(lo, hi, h, odd, k) ==
  /\ k \in Int /\ Tree(pages, root_id, lo, hi, h, odd, k) /\ (odd # 0 => k = op.key)
  /\ Registers(lo, hi, h, odd)
IInv ==
  /\ \E lo, hi, h, odd, k : Labelled(lo, hi, h, odd, k)
  /\ Sized(pages, root_id) /\ RootFilled /\ NumbersOK
  /\ Counts(fix_count, Fixed) /\ unsaved = {}

(* The pages that only the call in progress has fixed: no call has left    *)
(* any fixed.                                                              *)
Exact == fix_count = [i \in PageIds |-> Bit(i \in Fixed)]

(* A step keeps the invariant, and the fixes that are not its own.         *)
Kept ==
  IInv' /\ \A i \in PageIds : Others(fix_count', Fixed', i) = Others(fix_count, Fixed, i)

(* A step's pages that are fixed before or after it. *)
Few == \E a, b, c : Fixed \cup Fixed' \subseteq {a, b, c}

-----------------------------------------------------------------------------
(* What the place of the call says. *)
LEMMA Places ==
  ASSUME NEW lo, NEW hi, NEW h, NEW odd, Registers(lo, hi, h, odd)
  PROVE  /\ pc = "idle" => Resting(odd)
         /\ pc \in {"get", "update", "scan"} => Walking(lo, hi, odd)
         /\ pc = "scan_on" => ScanningOn(odd)
         /\ pc = "insert" => Inserting(lo, hi, odd)
         /\ pc = "split" => Splitting(lo, hi, odd)
         /\ pc = "delete" => Deleting(lo, hi, odd)
         /\ pc = "find" => Finding(lo, hi, h, odd)
         /\ pc \in BalancingPlaces => Balancing(lo, hi, odd)
  BY DEF Registers, Resting, Walking, ScanningOn, Inserting, Splitting, Deleting, Finding, Balancing,
         BalancingPlaces

(* What a sound tree says of each of its pages. *)
LEMMA TreeFacts ==
  ASSUME NEW pg, NEW root, NEW lo, NEW hi, NEW h, NEW odd, NEW k, Tree(pg, root, lo, hi, h, odd, k)
  PROVE  /\ Skeleton(pg, lo, hi, h) /\ Leaves(pg, lo, hi, h, odd, k) /\ Labels(lo, hi, h)
         /\ DOMAIN pg \subseteq PageIds /\ root \in DOMAIN pg /\ 0 \notin DOMAIN pg
         /\ lo[root] = -1 /\ hi[root] = Top /\ \A x \in DOMAIN pg : h[x] <= h[root]
         /\ \A x \in DOMAIN pg :
              /\ ShapeOK(pg[x]) /\ pg[x].inner \in BOOLEAN /\ Len(pg[x].keys) \in Nat
              /\ lo[x] \in Int /\ hi[x] \in Int /\ h[x] \in Nat /\ -1 <= lo[x] /\ lo[x] < hi[x] /\ hi[x] <= Top
<1>1. /\ Skeleton(pg, lo, hi, h) /\ Leaves(pg, lo, hi, h, odd, k)
      /\ root \in DOMAIN pg /\ lo[root] = -1 /\ hi[root] = Top /\ \A x \in DOMAIN pg : h[x] <= h[root]
  BY DEF Tree, RootOK
<1>2. Labels(lo, hi, h) /\ DOMAIN pg \subseteq PageIds /\ Shapes(pg) /\ Spans(DOMAIN pg, lo, hi)
  BY <1>1 DEF Skeleton
<1>3. 0 \notin PageIds
  BY DEF PageIds
<1>4. ASSUME NEW x \in DOMAIN pg
      PROVE  /\ ShapeOK(pg[x]) /\ pg[x].inner \in BOOLEAN /\ Len(pg[x].keys) \in Nat
             /\ lo[x] \in Int /\ hi[x] \in Int /\ h[x] \in Nat /\ -1 <= lo[x] /\ lo[x] < hi[x] /\ hi[x] <= Top
  <2>1. ShapeOK(pg[x]) /\ pg[x].inner \in BOOLEAN
    BY <1>2 DEF Shapes, ShapeOK
  <2>2. Len(pg[x].keys) \in Nat
    BY <2>1, InnerFacts, LeafFacts DEF ShapeOK
  <2>3. lo[x] \in Int /\ hi[x] \in Int /\ h[x] \in Nat
    BY <1>2 DEF Labels
  <2>4. -1 <= lo[x] /\ lo[x] < hi[x] /\ hi[x] <= Top
    BY <1>2 DEF Spans
  <2> QED
    BY <2>1, <2>2, <2>3, <2>4
<1> QED
  BY <1>1, <1>2, <1>3, <1>4

(* The constructor's tree of one leaf. *)
LEMMA InitIInv == Init => IInv
<1> SUFFICES ASSUME Init PROVE IInv
  OBVIOUS
<1> DEFINE leaf == OuterNode(<< >>, << >>, 0)
           lo == [x \in PageIds |-> -1]
           hi == [x \in PageIds |-> Top]
           h == [x \in PageIds |-> 0]
<1>1. 1 \in PageIds /\ MaxPages \in Nat
  BY MaxPagesAssumption DEF PageIds
<1>2. DOMAIN pages = {1} /\ pages[1] = leaf /\ root_id = 1 /\ pc = "idle" /\ op = NoOp
      /\ node = 0 /\ child = 0 /\ other = 0 /\ unsaved = {} /\ fix_count = [i \in PageIds |-> 0]
  BY PageIs DEF Init
<1>3. leaf.inner = FALSE /\ leaf.keys = << >> /\ leaf.values = << >> /\ leaf.next_lef_id = 0
  BY DEF OuterNode
<1> HIDE DEF leaf
<1>4. Len(leaf.keys) = 0 /\ Len(leaf.values) = 0
  BY <1>3
<1>5. ShapeOK(leaf)
  <2>1. leaf.keys \in Seq(Keys) /\ leaf.values \in Seq(Values) /\ leaf.next_lef_id \in PageIds \cup {0}
    BY <1>3
  <2>2. Ascending(leaf.keys)
    BY <1>4 DEF Ascending
  <2> QED
    BY <1>3, <1>4, <2>1, <2>2 DEF ShapeOK, IsOuter
<1>6. Skeleton(pages, lo, hi, h)
  <2>1. Shapes(pages)
    BY <1>2, <1>5 DEF Shapes
  <2>2. Labels(lo, hi, h)
    BY TopIsAbove DEF Labels
  <2>3. Spans(DOMAIN pages, lo, hi)
    BY <1>1, <1>2, TopIsAbove DEF Spans
  <2>4. Laminar(DOMAIN pages, lo, hi, h)
    BY <1>2 DEF Laminar
  <2>5. Links(pages, lo, hi, h)
    BY <1>2, <1>3 DEF Links
  <2> QED
    BY <1>1, <1>2, <2>1, <2>2, <2>3, <2>4, <2>5 DEF Skeleton
<1>7. Leaves(pages, lo, hi, h, 0, 0)
  <2>1. KeysOK(leaf, lo[1], hi[1]) /\ h[1] = 0 /\ hi[1] = Top
    BY <1>1, <1>4 DEF KeysOK
  <2>2. LeafOK(DOMAIN pages, lo, h, leaf, lo[1], hi[1], h[1], FALSE, 0)
    BY <1>3, <2>1 DEF LeafOK, NextOK
  <2>3. (1 = 0) = FALSE
    OBVIOUS
  <2> QED
    BY <1>2, <2>2, <2>3 DEF Leaves
<1>8. Tree(pages, root_id, lo, hi, h, 0, 0)
  BY <1>1, <1>2, <1>6, <1>7 DEF Tree, RootOK, OddOK
<1>9. Sized(pages, root_id) /\ RootFilled
  <2>1. MaxSize(leaf) = N /\ N \in Nat
    BY <1>3, NodeSizeAssumption DEF MaxSize
  <2>2. ~pages[root_id].inner
    BY <1>2, <1>3
  <2> QED
    BY <1>2, <1>4, <2>1, <2>2 DEF Sized, RootFilled
<1>10. NumbersOK
  BY <1>1, <1>2 DEF NumbersOK
<1>11. Counts(fix_count, Fixed)
  <2>1. \A i \in PageIds : Bit(i \in Fixed) = 0
    BY <1>2 DEF Fixed, Bit
  <2> QED
    BY <1>2, <2>1 DEF Counts
<1>12. Labelled(lo, hi, h, 0, 0)
  BY <1>2, <1>8 DEF Labelled, Registers, Resting
<1> QED
  BY <1>2, <1>9, <1>10, <1>11, <1>12 DEF IInv

-----------------------------------------------------------------------------
(* The steps, one lemma each.  The labels after the step are found first,  *)
(* then what Effect does is put together.                                  *)
LEMMA Lands ==
  ASSUME IInv, \E lo, hi, h, odd, k : Labelled(lo, hi, h, odd, k)',
         Sized(pages', root_id'), RootFilled', NumbersOK',
         NEW new, NEW fixed, NEW unfixed, NEW saved, Effect(new, fixed, unfixed, saved),
         Turns(Fixed, fixed, unfixed, Fixed'),
         \A x \in DOMAIN pages \cap DOMAIN new : x \notin saved => new[x] = pages[x]
  PROVE  Kept
<1>1. /\ Counts(fix_count', Fixed')
      /\ \A i \in PageIds : Others(fix_count', Fixed', i) = Others(fix_count, Fixed, i)
  <2>1. Counts(fix_count, Fixed)
    BY DEF IInv
  <2> QED
    BY <2>1, EffectCounts
<1>2. unsaved' = {}
  <2>1. unsaved = {}
    BY DEF IInv
  <2> QED
    BY <2>1, EffectSaves
<1>3. IInv'
  BY <1>1, <1>2 DEF IInv
<1> QED
  BY <1>1, <1>3 DEF Kept

(* What holds in every state of the invariant. *)
LEMMA Known ==
  ASSUME NEW lo, NEW hi, NEW h, NEW odd, NEW k, Labelled(lo, hi, h, odd, k)
  PROVE  /\ k \in Int /\ Tree(pages, root_id, lo, hi, h, odd, k) /\ (odd # 0 => k = op.key)
         /\ Registers(lo, hi, h, odd)
         /\ Skeleton(pages, lo, hi, h) /\ Leaves(pages, lo, hi, h, odd, k)
         /\ DOMAIN pages \subseteq PageIds /\ root_id \in DOMAIN pages /\ 0 \notin DOMAIN pages
  BY TreeFacts DEF Labelled

(* A leaf at which the call ends: nothing is written. *)
LEMMA ReturnKeeps ==
  ASSUME IInv, node \in DOMAIN pages, Fixed = {node}, pc # "idle", pc # "delete",
         Return, Effect(pages, {}, {node}, {}), UNCHANGED root_id,
         \E lo, hi, h, k : Labelled(lo, hi, h, 0, k)
  PROVE  Kept /\ Few
<1>1. PICK lo, hi, h, k : Labelled(lo, hi, h, 0, k)
  OBVIOUS
<1>2. pc' = "idle" /\ op' = NoOp /\ node' = 0 /\ child' = 0 /\ other' = 0 /\ pages' = pages /\ root_id' = root_id
  BY DEF Return, Effect
<1>3. Labelled(lo, hi, h, 0, k)'
  BY <1>1, <1>2 DEF Labelled, Registers, Resting
<1>4. Sized(pages', root_id') /\ RootFilled' /\ NumbersOK'
  <2>1. 0 \in 0 .. MaxPages
    BY MaxPagesAssumption
  <2> QED
    BY <1>2, <2>1 DEF IInv, RootFilled, NumbersOK
<1>5. Fixed' = {}
  BY <1>2 DEF Fixed
<1>6. Turns(Fixed, {}, {node}, Fixed')
  BY <1>5 DEF Turns
<1>7. Kept
  BY <1>3, <1>4, <1>6, Lands
<1> QED
  BY <1>5, <1>7 DEF Few

(* From a page to a child of it. *)
LEMMA GoesTo ==
  ASSUME NEW lo, NEW hi, NEW h, NEW odd, NEW k, Labelled(lo, hi, h, odd, k),
         op \in Ops, node \in DOMAIN pages, ~NodeIsLeaf, Here(lo, hi, odd, node)
  PROVE  /\ NextChild \in DOMAIN pages /\ h[node] = h[NextChild] + 1 /\ NextChild # node /\ NextChild # root_id
         /\ Index \in 1 .. Len(pages[node].keys) + 1 /\ NextChild = ChildAt(pages, node, Index)
         /\ Here(lo, hi, odd, NextChild)
         /\ ~HasKey(pages[node], op.key) /\ Strictly(lo, hi, odd, node) => Strictly(lo, hi, odd, NextChild)
         /\ HasKey(pages[node], op.key) => odd = 0 /\ hi[NextChild] = op.key
         /\ odd # 0 => Index = Len(pages[node].keys) + 1 /\ op.key = k /\ hi[node] < k
<1> DEFINE c == NextChild
           q == op.key
           n == pages[node]
<1>1. /\ Skeleton(pages, lo, hi, h) /\ Leaves(pages, lo, hi, h, odd, k) /\ (odd # 0 => k = q)
      /\ q \in Int /\ Tree(pages, root_id, lo, hi, h, odd, k) /\ n.inner
  <2>1. n.inner
    BY Known, TreeFacts DEF NodeIsLeaf
  <2> QED
    BY <2>1, Known, OpFacts
<1>2. /\ lo[node] \in Int /\ hi[node] \in Int /\ lo[node] < hi[node] /\ h[node] \in Nat
      /\ \A x \in DOMAIN pages : h[x] \in Nat /\ h[x] <= h[root_id]
  BY <1>1, TreeFacts
<1>3. odd # 0 => hi[odd] < q /\ hi[node] = hi[odd]
  <2>1. ASSUME odd # 0 PROVE hi[odd] < q
    <3>1. odd \in DOMAIN pages /\ ~pages[odd].inner
      BY <1>1, <2>1 DEF Tree, OddOK
    <3>2. LeafOK(DOMAIN pages, lo, h, pages[odd], lo[odd], hi[odd], h[odd], odd = odd, k)
      BY <1>1, <3>1 DEF Leaves
    <3>3. OddKeysOK(pages[odd], lo[odd], hi[odd], k)
      BY <3>2 DEF LeafOK
    <3> QED
      BY <1>1, <2>1, <3>3 DEF OddKeysOK
  <2> QED
    BY <2>1 DEF Here
<1>4. lo[node] < q /\ (odd = 0 => q <= hi[node])
  <2>1. CASE odd = 0
    BY <2>1 DEF Here
  <2>2. CASE odd # 0
    BY <1>1, <1>2, <1>3, <2>2
  <2> QED
    BY <2>1, <2>2
<1>5. /\ Index \in 1 .. Len(n.keys) + 1 /\ c = ChildAt(pages, node, Index)
      /\ c \in DOMAIN pages /\ h[node] = h[c] + 1 /\ lo[c] < q
      /\ q <= hi[node] => q <= hi[c]
      /\ ~HasKey(n, q) /\ q < hi[node] => q < hi[c]
      /\ HasKey(n, q) => hi[c] = q
      /\ hi[node] < q => Index = Len(n.keys) + 1 /\ hi[c] = hi[node] /\ ~HasKey(n, q)
  BY <1>1, <1>4, Routing DEF Index, NextChild
<1>6. c # node /\ c # root_id
  <2>1. h[c] \in Nat /\ h[node] \in Nat /\ h[node] <= h[root_id] /\ h[root_id] \in Nat
    BY <1>1, <1>2, <1>5, TreeFacts
  <2>2. h[c] # h[node] /\ h[c] # h[root_id]
    BY <1>5, <2>1
  <2> QED
    BY <2>2
<1> HIDE DEF c, n, q
<1>7. CASE odd = 0
  BY <1>4, <1>5, <1>6, <1>7 DEF Here, Strictly, c, n, q
<1>8. CASE odd # 0
  BY <1>1, <1>3, <1>4, <1>5, <1>6, <1>8 DEF Here, Strictly, c, n, q
<1> QED
  BY <1>7, <1>8

(* get_value, update and scan walk down. *)
LEMMA DescendKeeps == IInv /\ Descend => Kept /\ Few
<1> SUFFICES ASSUME IInv, Descend PROVE Kept /\ Few
  OBVIOUS
<1> DEFINE c == NextChild
<1>1. PICK lo, hi, h, odd, k : Labelled(lo, hi, h, odd, k)
  BY DEF IInv
<1>2. /\ pc \in {"get", "update", "scan"} /\ ~NodeIsLeaf /\ pages' = pages /\ root_id' = root_id
      /\ Effect(pages, {c}, {node}, {}) /\ pc' = op.kind /\ node' = c /\ child' = 0 /\ other' = 0 /\ op' = op
  BY DEF Descend, Recur, Effect
<1>3. Walking(lo, hi, odd)
  BY <1>1, <1>2, Known, Places
<1>4. op \in Ops /\ op.kind = pc /\ node \in DOMAIN pages /\ odd = 0 /\ Here(lo, hi, odd, node)
  BY <1>3 DEF Walking, OpIs
<1>5. c \in DOMAIN pages /\ c # node /\ Here(lo, hi, odd, c)
  BY <1>1, <1>2, <1>4, GoesTo
<1> HIDE DEF c
<1>6. Labelled(lo, hi, h, odd, k)'
  <2>1. Here(lo, hi, odd, node)'
    BY <1>2, <1>5 DEF Here
  <2>2. Walking(lo, hi, odd)'
    BY <1>2, <1>4, <1>5, <2>1 DEF Walking, OpIs
  <2>3. Registers(lo, hi, h, odd)'
    BY <2>2 DEF Registers
  <2> QED
    BY <1>1, <1>2, <2>3 DEF Labelled
<1>7. Sized(pages', root_id') /\ RootFilled' /\ NumbersOK'
  <2>1. c \in 0 .. MaxPages /\ 0 \in 0 .. MaxPages
    BY <1>1, <1>5, Known, MaxPagesAssumption DEF PageIds
  <2>2. ~(pages[root_id].inner /\ pages[root_id].keys = << >>)
    BY <1>2 DEF IInv, RootFilled
  <2> QED
    BY <1>2, <2>1, <2>2 DEF IInv, RootFilled, NumbersOK
<1>8. Fixed = {node} /\ Fixed' = {c}
  BY <1>2, <1>4 DEF Fixed
<1>9. Turns(Fixed, {c}, {node}, Fixed')
  BY <1>5, <1>8 DEF Turns
<1>10. Kept
  BY <1>2, <1>6, <1>7, <1>9, Lands
<1> QED
  BY <1>8, <1>10 DEF Few

(* A leaf is read. *)
LEMMA GetAtLeafKeeps == IInv /\ GetAtLeaf => Kept /\ Few
<1> SUFFICES ASSUME IInv, GetAtLeaf PROVE Kept /\ Few
  OBVIOUS
<1>1. PICK lo, hi, h, odd, k : Labelled(lo, hi, h, odd, k)
  BY DEF IInv
<1>2. pc = "get" /\ Return /\ Effect(pages, {}, {node}, {}) /\ UNCHANGED root_id
  BY DEF GetAtLeaf
<1>3. Walking(lo, hi, odd)
  BY <1>1, <1>2, Known, Places
<1>4. node \in DOMAIN pages /\ odd = 0 /\ Fixed = {node}
  BY <1>2, <1>3 DEF Walking, OpIs, Fixed
<1> QED
  BY <1>1, <1>2, <1>4, ReturnKeeps

(* A scan goes on to the next leaf, or returns. *)
LEMMA ScanningKeeps ==
  ASSUME IInv, NEW lo, NEW hi, NEW h, NEW k, Labelled(lo, hi, h, 0, k),
         pc \in {"scan", "scan_on"}, OpIs("scan"), NodeIsLeaf, UNCHANGED root_id,
         NEW start, Scanning(start)
  PROVE  Kept /\ Few
<1> DEFINE next == pages[node].next_lef_id
<1>1. node \in DOMAIN pages /\ op \in Ops /\ op.kind = "scan" /\ Fixed = {node}
  BY DEF OpIs, Fixed
<1>2. CASE pc' = "idle"
  <2>1. Return /\ Effect(pages, {}, {node}, {})
    BY <1>2 DEF Scanning
  <2> QED
    BY <1>1, <2>1, ReturnKeeps
<1>3. CASE pc' # "idle"
  <2>1. /\ next # 0 /\ pc' = "scan_on" /\ node' = next /\ Effect(pages, {next}, {node}, {})
        /\ op' = op /\ child' = child /\ other' = other /\ pages' = pages /\ root_id' = root_id
    BY <1>3 DEF Scanning, Return, Effect
  <2>2. next \in DOMAIN pages /\ ~pages[next].inner /\ next # node
    <3>1. /\ Skeleton(pages, lo, hi, h) /\ Leaves(pages, lo, hi, h, 0, k) /\ DOMAIN pages \subseteq PageIds
          /\ Labels(lo, hi, h) /\ Spans(DOMAIN pages, lo, hi)
      BY Known DEF Skeleton
    <3>2. LeafOK(DOMAIN pages, lo, h, pages[node], lo[node], hi[node], h[node], node = 0, k)
      BY <1>1, <3>1 DEF Leaves, NodeIsLeaf
    <3>3. next \in DOMAIN pages /\ h[next] = 0 /\ lo[next] = hi[node]
      BY <2>1, <3>2 DEF LeafOK, NextOK
    <3>4. ~pages[next].inner
      BY <3>1, <3>3, LeavesAreLowest
    <3>5. lo[node] \in Int /\ hi[node] \in Int /\ lo[node] < hi[node]
      BY <1>1, <3>1 DEF Labels, Spans
    <3>6. next # node
      BY <3>3, <3>5
    <3> QED
      BY <3>3, <3>4, <3>6
  <2> HIDE DEF next
  <2>3. Labelled(lo, hi, h, 0, k)'
    <3>1. ScanningOn(0)'
      BY <1>1, <2>1, <2>2 DEF ScanningOn, OpIs, NodeIsLeaf
    <3> QED
      BY <2>1, <3>1 DEF Labelled, Registers
  <2>4. Sized(pages', root_id') /\ RootFilled' /\ NumbersOK'
    <3>1. next \in 0 .. MaxPages
      BY <2>2, Known, MaxPagesAssumption DEF PageIds
    <3>2. ~(pages[root_id].inner /\ pages[root_id].keys = << >>)
      BY DEF IInv, RootFilled
    <3> QED
      BY <2>1, <3>1, <3>2 DEF IInv, RootFilled, NumbersOK
  <2>5. Fixed' = {next}
    BY <2>1 DEF Fixed
  <2>6. Turns(Fixed, {next}, {node}, Fixed')
    BY <1>1, <2>2, <2>5 DEF Turns
  <2>7. Kept
    BY <2>1, <2>3, <2>4, <2>6, Lands
  <2> QED
    BY <1>1, <2>5, <2>7 DEF Few
<1> QED
  BY <1>2, <1>3

(* A scan at its first leaf. *)
LEMMA ScanAtLeafKeeps == IInv /\ ScanAtLeaf => Kept /\ Few
<1> SUFFICES ASSUME IInv, ScanAtLeaf PROVE Kept /\ Few
  OBVIOUS
<1>1. PICK lo, hi, h, odd, k : Labelled(lo, hi, h, odd, k)
  BY DEF IInv
<1>2. pc = "scan" /\ NodeIsLeaf /\ Scanning(Position(pages[node], op.key)) /\ UNCHANGED root_id
  BY DEF ScanAtLeaf
<1>3. Walking(lo, hi, odd)
  BY <1>1, <1>2, Known, Places
<1>4. OpIs("scan") /\ odd = 0
  BY <1>2, <1>3 DEF Walking
<1> QED
  BY <1>1, <1>2, <1>4, ScanningKeeps

(* A scan at a further leaf. *)
LEMMA ScanOnKeeps == IInv /\ ScanOn => Kept /\ Few
<1> SUFFICES ASSUME IInv, ScanOn PROVE Kept /\ Few
  OBVIOUS
<1>1. PICK lo, hi, h, odd, k : Labelled(lo, hi, h, odd, k)
  BY DEF IInv
<1>2. pc = "scan_on" /\ Scanning(1) /\ UNCHANGED root_id
  BY DEF ScanOn
<1>3. ScanningOn(odd)
  BY <1>1, <1>2, Known, Places
<1>4. OpIs("scan") /\ odd = 0 /\ NodeIsLeaf
  BY <1>3 DEF ScanningOn
<1> QED
  BY <1>1, <1>2, <1>4, ScanningKeeps

-----------------------------------------------------------------------------
(* A call begins at the root, whose span has every key. *)
LEMMA CallKeeps ==
  ASSUME IInv, NEW o \in Ops, o.kind = "insert" => o.key \notin StoredKeys, Call(o)
  PROVE  Kept /\ Few
<1>1. PICK lo, hi, h, odd, k : Labelled(lo, hi, h, odd, k)
  BY DEF IInv
<1>2. /\ pc = "idle" /\ op' = o /\ pc' = o.kind /\ node' = root_id /\ Effect(pages, {root_id}, {}, {})
      /\ root_id' = root_id /\ child' = child /\ other' = other /\ pages' = pages
  BY DEF Call, Effect
<1>3. Resting(odd)
  BY <1>1, <1>2, Known, Places
<1>4. odd = 0
  BY <1>3 DEF Resting
<1>5. o.kind \in {"insert", "update", "get", "delete", "scan"} /\ o.key \in Int /\ -1 < o.key /\ o.key < Top
  <2>1. o.kind \in {"insert", "update", "get", "delete", "scan"} /\ o.key \in Keys
    BY DEF Ops
  <2> QED
    BY <2>1, KeysAreInts
<1>6. /\ root_id \in DOMAIN pages /\ lo[root_id] = -1 /\ hi[root_id] = Top /\ hi[root_id] \in Int
      /\ \A x \in DOMAIN pages : pages[x].inner \in BOOLEAN /\ Len(pages[x].keys) \in Nat
  BY <1>1, Known, TreeFacts
<1>7. o.kind = "insert" => Fresh(pages, o.key)
  <2>1. SUFFICES ASSUME o.kind = "insert", NEW x \in DOMAIN pages, ~pages[x].inner,
                        NEW j \in 1 .. Len(pages[x].keys), pages[x].keys[j] = o.key
                 PROVE  FALSE
    BY DEF Fresh
  <2>2. o.key \notin StoredKeys
    BY <2>1
  <2>3. DOMAIN pages[x].keys = 1 .. Len(pages[x].keys)
    <3>1. IsOuter(pages[x], Keys, Values, PageIds)
      BY <1>1, <2>1, Known, TreeFacts DEF ShapeOK
    <3> QED
      BY <3>1, LeafFacts
  <2>4. o.key \in Range(pages[x].keys)
    BY <2>1, <2>3 DEF Range
  <2> QED
    BY <2>1, <2>2, <2>4 DEF StoredKeys
<1>8. Here(lo, hi, odd, node)' /\ Strictly(lo, hi, odd, node)'
  <2>1. lo[root_id] < o.key /\ o.key < hi[root_id] /\ o.key <= hi[root_id]
    BY <1>5, <1>6
  <2> QED
    BY <1>2, <1>4, <2>1 DEF Here, Strictly
<1>9. Registers(lo, hi, h, odd)'
  <2>1. OpIs(o.kind)'
    BY <1>2, <1>6 DEF OpIs
  <2>2. CASE o.kind \in {"get", "update", "scan"}
    <3>1. Walking(lo, hi, odd)'
      BY <1>2, <1>4, <1>8, <2>1, <2>2 DEF Walking
    <3> QED
      BY <3>1 DEF Registers
  <2>3. CASE o.kind = "insert"
    <3>1. Inserting(lo, hi, odd)'
      BY <1>2, <1>4, <1>7, <1>8, <2>1, <2>3 DEF Inserting
    <3> QED
      BY <3>1 DEF Registers
  <2>4. CASE o.kind = "delete"
    <3>1. Deleting(lo, hi, odd)'
      BY <1>2, <1>4, <1>8, <2>1, <2>4 DEF Deleting, Spares
    <3> QED
      BY <3>1 DEF Registers
  <2> QED
    BY <1>5, <2>2, <2>3, <2>4
<1>10. Labelled(lo, hi, h, odd, k)'
  BY <1>1, <1>2, <1>4, <1>9 DEF Labelled
<1>11. Sized(pages', root_id') /\ RootFilled' /\ NumbersOK'
  <2>1. root_id \in 0 .. MaxPages
    BY <1>1, Known, MaxPagesAssumption DEF PageIds
  <2>2. ~(pages[root_id].inner /\ pages[root_id].keys = << >>)
    BY <1>2 DEF IInv, RootFilled
  <2> QED
    BY <1>2, <2>1, <2>2 DEF IInv, RootFilled, NumbersOK
<1>12. Fixed = {} /\ Fixed' = {root_id}
  BY <1>2, <1>5 DEF Fixed
<1>13. Turns(Fixed, {root_id}, {}, Fixed')
  BY <1>12 DEF Turns
<1>14. Kept
  BY <1>2, <1>10, <1>11, <1>13, Lands
<1> QED
  BY <1>12, <1>14 DEF Few

-----------------------------------------------------------------------------
(* A leaf is written, and the call returns: what has to be shown of it.    *)
LEMMA WriteKeeps ==
  ASSUME IInv, NEW lo, NEW hi, NEW h, NEW odd, NEW k, Labelled(lo, hi, h, odd, k),
         node \in DOMAIN pages, NodeIsLeaf, odd \in {0, node}, Fixed = {node}, op # NoOp,
         NEW n, ShapeOK(n), ~n.inner, n.next_lef_id = pages[node].next_lef_id,
         KeysOK(n, lo[node], hi[node]), Len(n.keys) <= N, node = root_id \/ Len(n.keys) >= Half,
         Effect(With(Page(node, n)), {}, {node}, {node}), Return, UNCHANGED root_id
  PROVE  Kept /\ Few
<1> DEFINE pg2 == With(Page(node, n))
<1>1. /\ pc' = "idle" /\ op' = NoOp /\ node' = 0 /\ child' = 0 /\ other' = 0 /\ pages' = pg2 /\ root_id' = root_id
  BY DEF Return, Effect
<1>0. pg2 = With(Page(node, n))
  OBVIOUS
<1> HIDE DEF pg2
<1>2. DOMAIN pg2 = DOMAIN pages /\ pg2[node] = n /\ \A x \in DOMAIN pages : x # node => pg2[x] = pages[x]
  <2>1. DOMAIN pg2 = DOMAIN pages \cup {node} /\ pg2[node] = n /\ \A x \in DOMAIN pages : x # node => pg2[x] = pages[x]
    BY <1>0 DEF With, Page, ++
  <2> QED
    BY <2>1
<1>3. Tree(pages, root_id, lo, hi, h, odd, k) /\ ~pages[node].inner
  BY Known DEF NodeIsLeaf
<1>4. Tree(pg2, root_id, lo, hi, h, 0, k)
  BY <1>2, <1>3, LeafEdit
<1>5. Labelled(lo, hi, h, 0, k)'
  <2>1. k \in Int
    BY Known
  <2> QED
    BY <1>1, <1>4, <2>1 DEF Labelled, Registers, Resting
<1>6. Sized(pages', root_id')
  <2>1. Len(n.keys) \in Nat
    BY LeafFacts DEF ShapeOK
  <2>2. MaxSize(n) = N /\ (IsTooEmpty(n) <=> Len(n.keys) < Half)
    BY <2>1, OuterSizes
  <2>3. Half \in Nat
    BY HalfIs
  <2>4. Sized(pages, root_id)
    BY DEF IInv
  <2> QED
    BY <1>1, <1>2, <2>1, <2>2, <2>3, <2>4 DEF Sized
<1>7. RootFilled' /\ NumbersOK'
  <2>1. 0 \in 0 .. MaxPages
    BY MaxPagesAssumption
  <2>2. ~(pg2[root_id].inner /\ pg2[root_id].keys = << >>)
    <3>1. CASE root_id = node
      BY <1>2, <3>1
    <3>2. CASE root_id # node
      BY <1>2, <3>2, Known DEF IInv, RootFilled
    <3> QED
      BY <3>1, <3>2
  <2> QED
    BY <1>1, <2>1, <2>2 DEF RootFilled, NumbersOK
<1>8. Fixed' = {}
  BY <1>1 DEF Fixed
<1>9. Turns(Fixed, {}, {node}, Fixed')
  BY <1>8 DEF Turns
<1>10. \A x \in DOMAIN pages \cap DOMAIN pg2 : x \notin {node} => pg2[x] = pages[x]
  BY <1>2
<1>11. Effect(pg2, {}, {node}, {node})
  BY DEF pg2
<1>12. Kept
  BY <1>5, <1>6, <1>7, <1>9, <1>10, <1>11, Lands
<1> QED
  BY <1>8, <1>12 DEF Few

(* update: the entry's value only, and nothing if the key is not there. *)
LEMMA UpdateAtLeafKeeps == IInv /\ UpdateAtLeaf => Kept /\ Few
<1> SUFFICES ASSUME IInv, UpdateAtLeaf PROVE Kept /\ Few
  OBVIOUS
<1> DEFINE n == OuterUpdate(pages[node], op.key, op.value)
<1>1. PICK lo, hi, h, odd, k : Labelled(lo, hi, h, odd, k)
  BY DEF IInv
<1>2. /\ pc = "update" /\ NodeIsLeaf /\ Return /\ UNCHANGED root_id
      /\ Effect(With(Page(node, n)), {}, {node}, {node})
  BY DEF UpdateAtLeaf
<1>3. Walking(lo, hi, odd)
  BY <1>1, <1>2, Known, Places
<1>4. node \in DOMAIN pages /\ odd = 0 /\ Fixed = {node} /\ op \in Ops /\ op.kind = "update"
  BY <1>2, <1>3 DEF Walking, OpIs, Fixed
<1>5. op # NoOp /\ op.key \in Keys /\ op.value \in Values
  BY <1>4, OpFacts
<1>6. /\ IsOuter(pages[node], Keys, Values, PageIds) /\ ~pages[node].inner /\ pages[node].inner \in BOOLEAN
      /\ KeysOK(pages[node], lo[node], hi[node])
  <2>1. ShapeOK(pages[node]) /\ ~pages[node].inner /\ node # 0
    BY <1>1, <1>2, <1>4, Known, TreeFacts DEF NodeIsLeaf
  <2>2. LeafOK(DOMAIN pages, lo, h, pages[node], lo[node], hi[node], h[node], node = 0, k)
    BY <1>1, <1>4, <2>1, Known DEF Leaves
  <2> QED
    BY <2>1, <2>2 DEF ShapeOK, LeafOK
<1>7. IsOuter(n, Keys, Values, PageIds) /\ n.next_lef_id = pages[node].next_lef_id /\ n.keys = pages[node].keys
  <2> DEFINE leaf == pages[node]
             key == op.key
             value == op.value
  <2>1. IsOuter(leaf, Keys, Values, PageIds) /\ key \in Keys /\ value \in Values /\ Keys \in SUBSET Int
    BY <1>5, <1>6, KeysAreInts
  <2> HIDE DEF leaf, key, value
  <2>2. LET r == OuterUpdate(leaf, key, value) IN
        IsOuter(r, Keys, Values, PageIds) /\ r.next_lef_id = leaf.next_lef_id /\ r.keys = leaf.keys
    BY ONLY <2>1, OuterUpdateIs
  <2> QED
    BY <2>2 DEF leaf, key, value
<1>8. n.inner = FALSE
  BY <1>6 DEF OuterUpdate, OuterNode
<1> HIDE DEF n
<1>9. ShapeOK(n) /\ ~n.inner /\ KeysOK(n, lo[node], hi[node])
  BY <1>6, <1>7, <1>8 DEF ShapeOK, KeysOK
<1>10. Len(n.keys) <= N /\ (node = root_id \/ Len(n.keys) >= Half)
  <2>1. Len(n.keys) \in Nat
    BY <1>7, LeafFacts
  <2>2. Len(pages[node].keys) \in Nat
    BY <1>7, <2>1
  <2>3. MaxSize(pages[node]) = N /\ (IsTooEmpty(pages[node]) <=> Len(pages[node].keys) < Half)
    BY <1>6, <2>2, OuterSizes
  <2>4. Sized(pages, root_id) /\ Half \in Nat
    BY HalfIs DEF IInv
  <2> QED
    BY <1>4, <1>7, <2>1, <2>3, <2>4 DEF Sized
<1> QED
  BY <1>1, <1>2, <1>4, <1>5, <1>7, <1>9, <1>10, WriteKeeps

(* The keys of a leaf stay in its span, and its last key is its end: with  *)
(* another key, without one, and without the odd key.                      *)
LEMMA LeafKeysWith ==
  ASSUME NEW leaf, IsOuter(leaf, Keys, Values, PageIds), NEW a \in Int, NEW b \in Int, KeysOK(leaf, a, b),
         NEW n, NEW p \in 1 .. Len(leaf.keys) + 1, NEW key \in Int, IsWith(n.keys, leaf.keys, p, key),
         \A i \in 1 .. Len(leaf.keys) : leaf.keys[i] < key <=> i < p,
         \A i \in 1 .. Len(leaf.keys) : leaf.keys[i] # key, a < key, key <= b
  PROVE  KeysOK(n, a, b)
<1> DEFINE w == Len(leaf.keys)
<1>1. w \in Nat /\ p \in 1 .. w + 1 /\ Len(n.keys) = w + 1 /\ \A i \in 1 .. w : leaf.keys[i] \in Int
  BY LeafFacts DEF IsWith
<1>2. \A j \in 1 .. w + 1 : n.keys[j] = IF j < p THEN leaf.keys[j] ELSE IF j = p THEN key ELSE leaf.keys[j - 1]
  BY DEF IsWith
<1>3. /\ \A i \in 1 .. w : a < leaf.keys[i] /\ leaf.keys[i] <= b
      /\ b # Top => w > 0 /\ leaf.keys[w] = b
  BY DEF KeysOK
<1>4. \A i \in 1 .. w : (leaf.keys[i] < key <=> i < p) /\ leaf.keys[i] # key
  OBVIOUS
<1> HIDE DEF w
<1>5. ASSUME NEW j \in 1 .. w + 1 PROVE a < n.keys[j] /\ n.keys[j] <= b
  <2>1. CASE j < p
    <3>1. j \in 1 .. w
      BY <1>1, <2>1
    <3> QED
      BY <1>2, <1>3, <2>1, <3>1
  <2>2. CASE j = p
    BY <1>2, <2>2
  <2>3. CASE j > p
    <3>1. j - 1 \in 1 .. w /\ ~(j < p) /\ j # p
      BY <1>1, <2>3
    <3> QED
      BY <1>2, <1>3, <3>1
  <2> QED
    BY <1>1, <2>1, <2>2, <2>3
<1>6. ASSUME b # Top PROVE n.keys[w + 1] = b
  <2>1. w > 0 /\ leaf.keys[w] = b /\ w \in 1 .. w
    BY <1>1, <1>3, <1>6
  <2>2. ~(w < p)
    BY <1>1, <1>4, <2>1
  <2>3. w + 1 \in 1 .. w + 1 /\ ~(w + 1 < p) /\ w + 1 # p /\ (w + 1) - 1 = w
    BY <1>1, <2>2
  <2> QED
    BY <1>2, <2>1, <2>3
<1> QED
  BY <1>1, <1>5, <1>6 DEF KeysOK

(* A leaf that loses a key other than its last one. *)
LEMMA LeafKeysWithout ==
  ASSUME NEW leaf, IsOuter(leaf, Keys, Values, PageIds), NEW a \in Int, NEW b \in Int, KeysOK(leaf, a, b),
         NEW n, NEW p \in 1 .. Len(leaf.keys), IsWithout(n.keys, leaf.keys, p), leaf.keys[p] < b
  PROVE  KeysOK(n, a, b)
<1> DEFINE w == Len(leaf.keys)
<1>1. w \in Nat /\ p \in 1 .. w /\ Len(n.keys) = w - 1
  BY LeafFacts DEF IsWithout
<1>2. \A j \in 1 .. w - 1 : n.keys[j] = IF j < p THEN leaf.keys[j] ELSE leaf.keys[j + 1]
  BY DEF IsWithout
<1>3. /\ \A i \in 1 .. w : a < leaf.keys[i] /\ leaf.keys[i] <= b
      /\ b # Top => w > 0 /\ leaf.keys[w] = b
  BY DEF KeysOK
<1> HIDE DEF w
<1>4. ASSUME NEW j \in 1 .. w - 1 PROVE a < n.keys[j] /\ n.keys[j] <= b
  <2>1. j \in 1 .. w /\ j + 1 \in 1 .. w
    BY <1>1
  <2> QED
    BY <1>2, <1>3, <2>1
<1>5. ASSUME b # Top PROVE w - 1 > 0 /\ n.keys[w - 1] = b
  <2>1. leaf.keys[w] = b /\ p # w
    BY <1>3, <1>5
  <2>3. w - 1 \in 1 .. w - 1 /\ ~(w - 1 < p) /\ (w - 1) + 1 = w
    BY <1>1, <2>1
  <2>4. n.keys[w - 1] = leaf.keys[w]
    BY <1>2, <2>3
  <2> QED
    BY <2>1, <2>3, <2>4
<1> QED
  BY <1>1, <1>4, <1>5 DEF KeysOK

(* The odd leaf that loses the odd key is an ordinary one. *)
LEMMA LeafKeysWithoutOdd ==
  ASSUME NEW leaf, IsOuter(leaf, Keys, Values, PageIds), NEW a \in Int, NEW b \in Int, NEW k \in Int,
         OddKeysOK(leaf, a, b, k), NEW n, IsWithout(n.keys, leaf.keys, Len(leaf.keys))
  PROVE  KeysOK(n, a, b)
<1> DEFINE w == Len(leaf.keys)
<1>1. w \in Nat /\ w > 1 /\ Len(n.keys) = w - 1 /\ leaf.keys \in Seq(Int) /\ Ascending(leaf.keys)
  BY LeafFacts DEF IsWithout, OddKeysOK
<1>2. \A j \in 1 .. w - 1 : n.keys[j] = leaf.keys[j]
  BY <1>1 DEF IsWithout
<1>3. leaf.keys[w - 1] = b /\ \A i \in 1 .. w : a < leaf.keys[i]
  BY DEF OddKeysOK
<1>4. ASSUME NEW j \in 1 .. w - 1 PROVE a < n.keys[j] /\ n.keys[j] <= b
  <2>1. j \in 1 .. w /\ w - 1 \in 1 .. w /\ j <= w - 1
    BY <1>1
  <2>2. leaf.keys[j] <= leaf.keys[w - 1]
    BY <1>1, <2>1, AscendingWeakly
  <2> QED
    BY <1>2, <1>3, <2>1, <2>2
<1>5. w - 1 > 0 /\ n.keys[w - 1] = b
  <2>1. w - 1 \in 1 .. w - 1
    BY <1>1
  <2>2. n.keys[w - 1] = leaf.keys[w - 1]
    BY <1>2, <2>1
  <2> QED
    BY <1>1, <1>3, <2>2
<1> QED
  BY <1>1, <1>4, <1>5 DEF KeysOK

(* An insert at its leaf. *)
LEMMA InsertAtLeafKeeps == IInv /\ InsertAtLeaf => Kept /\ Few
<1> SUFFICES ASSUME IInv, InsertAtLeaf PROVE Kept /\ Few
  OBVIOUS
<1> DEFINE leaf == pages[node]
           key == op.key
           n == OuterInsert(leaf, key, op.value)
<1>1. PICK lo, hi, h, odd, k : Labelled(lo, hi, h, odd, k)
  BY DEF IInv
<1>2. /\ pc = "insert" /\ NodeIsLeaf /\ ~(node = root_id /\ IsFull(leaf)) /\ Return /\ UNCHANGED root_id
      /\ Effect(With(Page(node, n)), {}, {node}, {node})
  BY DEF InsertAtLeaf
<1>3. Inserting(lo, hi, odd)
  BY <1>1, <1>2, Known, Places
<1>4. /\ node \in DOMAIN pages /\ odd = 0 /\ Fixed = {node} /\ op \in Ops /\ op.kind = "insert"
      /\ Here(lo, hi, odd, node) /\ Fresh(pages, key) /\ ~IsFull(leaf)
  BY <1>2, <1>3 DEF Inserting, OpIs, Fixed
<1>5. op # NoOp /\ key \in Keys /\ key \in Int /\ op.value \in Values
  BY <1>4, OpFacts
<1>6. /\ IsOuter(leaf, Keys, Values, PageIds) /\ ~leaf.inner /\ KeysOK(leaf, lo[node], hi[node])
      /\ lo[node] \in Int /\ hi[node] \in Int /\ Len(leaf.keys) \in Nat
  <2>1. ShapeOK(leaf) /\ ~leaf.inner /\ node # 0 /\ lo[node] \in Int /\ hi[node] \in Int /\ Len(leaf.keys) \in Nat
    BY <1>1, <1>2, <1>4, Known, TreeFacts DEF NodeIsLeaf
  <2>2. LeafOK(DOMAIN pages, lo, h, leaf, lo[node], hi[node], h[node], node = 0, k)
    BY <1>1, <1>4, <2>1, Known DEF Leaves
  <2> QED
    BY <2>1, <2>2 DEF ShapeOK, LeafOK
<1>7. \A j \in 1 .. Len(leaf.keys) : leaf.keys[j] # key
  BY <1>4, <1>6 DEF Fresh
<1>8. lo[node] < key /\ key <= hi[node]
  BY <1>4 DEF Here
<1>9. /\ IsOuter(n, Keys, Values, PageIds) /\ n.next_lef_id = leaf.next_lef_id
      /\ KeysOK(n, lo[node], hi[node]) /\ Len(n.keys) = Len(leaf.keys) + 1
  <2> DEFINE value == op.value
             p == Position(leaf, key)
             a == lo[node]
             b == hi[node]
  <2>1. /\ IsOuter(leaf, Keys, Values, PageIds) /\ key \in Keys /\ value \in Values /\ Keys \in SUBSET Int
        /\ n = OuterInsert(leaf, key, value) /\ a \in Int /\ b \in Int /\ KeysOK(leaf, a, b) /\ key \in Int
        /\ a < key /\ key <= b /\ \A j \in 1 .. Len(leaf.keys) : leaf.keys[j] # key
    BY <1>5, <1>6, <1>7, <1>8, KeysAreInts
  <2> HIDE DEF leaf, key, value, n, a, b
  <2>2. ~HasKey(leaf, key)
    <3>1. leaf.keys \in Seq(Int) /\ Ascending(leaf.keys)
      BY <2>1, LeafFacts
    <3> QED
      BY <2>1, <3>1, HasKeyMeans
  <2>3. LET r == OuterInsert(leaf, key, value)  q == Position(leaf, key) IN
        /\ IsOuter(r, Keys, Values, PageIds) /\ r.next_lef_id = leaf.next_lef_id
        /\ q \in 1 .. Len(leaf.keys) + 1
        /\ \A i \in 1 .. Len(leaf.keys) : leaf.keys[i] < key <=> i < q
        /\ IsWith(r.keys, leaf.keys, q, key) /\ IsWith(r.values, leaf.values, q, value)
    BY ONLY <2>1, <2>2, OuterInsertIs
  <2>4. /\ IsOuter(n, Keys, Values, PageIds) /\ n.next_lef_id = leaf.next_lef_id
        /\ p \in 1 .. Len(leaf.keys) + 1 /\ IsWith(n.keys, leaf.keys, p, key)
        /\ \A i \in 1 .. Len(leaf.keys) : leaf.keys[i] < key <=> i < p
    BY <2>1, <2>3
  <2> HIDE DEF p
  <2>5. KeysOK(n, a, b)
    BY <2>1, <2>4, LeafKeysWith
  <2> QED
    BY <2>4, <2>5 DEF IsWith, a, b
<1>10. n.inner = FALSE
  BY DEF OuterInsert, OuterNode
<1> HIDE DEF n, leaf, key
<1>11. ShapeOK(n) /\ ~n.inner
  BY <1>9, <1>10 DEF ShapeOK
<1>12. Len(n.keys) <= N /\ (node = root_id \/ Len(n.keys) >= Half)
  <2>1. (IsFull(leaf) <=> Len(leaf.keys) >= N) /\ (IsTooEmpty(leaf) <=> Len(leaf.keys) < Half)
    BY <1>6, OuterSizes
  <2>2. Sized(pages, root_id) /\ Half \in Nat /\ N \in Nat
    BY HalfIs DEF IInv
  <2>3. node # root_id => ~IsTooEmpty(leaf)
    BY <1>4, <2>2 DEF Sized, leaf
  <2> QED
    BY <1>4, <1>6, <1>9, <2>1, <2>2, <2>3
<1>13. Effect(With(Page(node, n)), {}, {node}, {node}) /\ n.next_lef_id = pages[node].next_lef_id
  BY <1>2, <1>9 DEF leaf
<1> QED
  BY <1>1, <1>2, <1>4, <1>5, <1>9, <1>11, <1>12, <1>13, WriteKeeps

(* A delete at its leaf: the key is not its last, or the leaf is the odd   *)
(* one.                                                                    *)
LEMMA DeleteAtLeafKeeps == IInv /\ DeleteAtLeaf => Kept /\ Few
<1> SUFFICES ASSUME IInv, DeleteAtLeaf PROVE Kept /\ Few
  OBVIOUS
<1> DEFINE leaf == pages[node]
           key == op.key
           n == OuterDelete(leaf, key)
<1>1. PICK lo, hi, h, odd, k : Labelled(lo, hi, h, odd, k)
  BY DEF IInv
<1> DEFINE a == lo[node]
           b == hi[node]
<1>2. /\ pc = "delete" /\ NodeIsLeaf /\ Return /\ UNCHANGED root_id
      /\ Effect(With(Page(node, n)), {}, {node}, {node})
  BY DEF DeleteAtLeaf
<1>3. Deleting(lo, hi, odd)
  BY <1>1, <1>2, Known, Places
<1>4. /\ node \in DOMAIN pages /\ Fixed = {node} /\ op \in Ops /\ op.kind = "delete"
      /\ Strictly(lo, hi, odd, node) /\ Spares(node)
  BY <1>2, <1>3 DEF Deleting, OpIs, Fixed
<1>5. op # NoOp /\ key \in Keys /\ key \in Int
  BY <1>4, OpFacts
<1>6. /\ ShapeOK(leaf) /\ IsOuter(leaf, Keys, Values, PageIds) /\ ~leaf.inner
      /\ lo[node] \in Int /\ hi[node] \in Int /\ Len(leaf.keys) \in Nat
      /\ k \in Int /\ (odd # 0 => k = key) /\ Tree(pages, root_id, lo, hi, h, odd, k)
      /\ Leaves(pages, lo, hi, h, odd, k) /\ Skeleton(pages, lo, hi, h) /\ node # 0
  <2>1. /\ k \in Int /\ Tree(pages, root_id, lo, hi, h, odd, k) /\ (odd # 0 => k = key)
        /\ Skeleton(pages, lo, hi, h) /\ Leaves(pages, lo, hi, h, odd, k)
    BY <1>1, Known
  <2>2. /\ ShapeOK(leaf) /\ lo[node] \in Int /\ hi[node] \in Int /\ Len(leaf.keys) \in Nat /\ node # 0
    BY <1>4, <2>1, TreeFacts
  <2> QED
    BY <1>2, <2>1, <2>2 DEF ShapeOK, NodeIsLeaf
<1>7. odd \in {0, node}
  <2>1. SUFFICES ASSUME odd # 0 PROVE odd = node
    OBVIOUS
  <2>2. odd \in DOMAIN pages /\ ~pages[odd].inner
    BY <1>6, <2>1 DEF Tree, OddOK
  <2>3. h[odd] = 0 /\ h[node] = 0
    BY <1>2, <1>4, <1>6, <2>2, LeavesAreLowest DEF NodeIsLeaf
  <2>4. hi[node] = hi[odd]
    BY <1>4, <2>1 DEF Strictly, Here
  <2>5. /\ DOMAIN pages \subseteq PageIds /\ Labels(lo, hi, h) /\ Spans(DOMAIN pages, lo, hi)
        /\ Laminar(DOMAIN pages, lo, hi, h)
    BY <1>6 DEF Skeleton
  <2> QED
    BY <1>4, <2>2, <2>3, <2>4, <2>5, OneEnd
<1>8. LeafOK(DOMAIN pages, lo, h, leaf, a, b, h[node], node = odd, k)
  BY <1>4, <1>6 DEF Leaves
<1>9. odd = 0 => KeysOK(leaf, a, b) /\ key < b
  BY <1>4, <1>6, <1>8 DEF LeafOK, Strictly
<1>10. odd = node => OddKeysOK(leaf, a, b, key)
  BY <1>6, <1>8 DEF LeafOK
<1>11. a \in Int /\ b \in Int /\ n = OuterDelete(leaf, key) /\ Keys \in SUBSET Int
       /\ leaf.keys \in Seq(Int) /\ Ascending(leaf.keys)
  BY <1>6, LeafFacts, KeysAreInts
<1>12. leaf.inner = FALSE
  BY <1>6 DEF ShapeOK
<1> HIDE DEF leaf, key, n, a, b
<1>13. /\ ShapeOK(n) /\ ~n.inner /\ n.next_lef_id = leaf.next_lef_id /\ KeysOK(n, a, b)
       /\ Len(n.keys) \in Nat /\ Len(n.keys) <= Len(leaf.keys) /\ Len(n.keys) >= Len(leaf.keys) - 1
  <2>1. CASE ~HasKey(leaf, key)
    <3>1. n = leaf
      BY <1>11, <2>1 DEF OuterDelete
    <3>2. odd # node
      <4>1. SUFFICES ASSUME odd = node PROVE HasKey(leaf, key)
        BY <2>1
      <4>2. leaf.keys[Len(leaf.keys)] = key /\ Len(leaf.keys) > 1
        BY <1>10, <4>1 DEF OddKeysOK
      <4>3. Len(leaf.keys) \in 1 .. Len(leaf.keys)
        BY <1>6, <4>2
      <4> QED
        BY <1>5, <1>11, <4>2, <4>3, HasKeyMeans
    <3>3. KeysOK(leaf, a, b)
      BY <1>7, <1>9, <3>2
    <3> QED
      BY <1>6, <3>1, <3>3
  <2>2. CASE HasKey(leaf, key)
    <3> DEFINE p == Position(leaf, key)
    <3>1. LET r == OuterDelete(leaf, key)  q == Position(leaf, key) IN
          /\ IsOuter(r, Keys, Values, PageIds) /\ r.next_lef_id = leaf.next_lef_id
          /\ q \in 1 .. Len(leaf.keys) /\ leaf.keys[q] = key
          /\ IsWithout(r.keys, leaf.keys, q) /\ IsWithout(r.values, leaf.values, q)
      BY <1>5, <1>6, <1>11, <2>2, OuterDeleteIs
    <3>2. /\ IsOuter(n, Keys, Values, PageIds) /\ n.next_lef_id = leaf.next_lef_id
          /\ p \in 1 .. Len(leaf.keys) /\ leaf.keys[p] = key /\ IsWithout(n.keys, leaf.keys, p)
      BY <1>11, <3>1
    <3>3. n.inner = FALSE
      BY <1>11, <1>12, <2>2 DEF OuterDelete, OuterNode
    <3>4. odd = node => p = Len(leaf.keys)
      <4>1. SUFFICES ASSUME odd = node PROVE p = Len(leaf.keys)
        OBVIOUS
      <4>2. leaf.keys[Len(leaf.keys)] = key /\ Len(leaf.keys) > 1
        BY <1>10, <4>1 DEF OddKeysOK
      <4>3. Len(leaf.keys) \in 1 .. Len(leaf.keys)
        BY <1>6, <4>2
      <4> QED
        BY <1>11, <4>2, <4>3, PositionOfKey
    <3> HIDE DEF p
    <3>5. KeysOK(n, a, b)
      <4>1. CASE odd = 0
        BY <1>6, <1>9, <1>11, <3>2, <4>1, LeafKeysWithout
      <4>2. CASE odd = node
        BY <1>5, <1>6, <1>10, <1>11, <3>2, <3>4, <4>2, LeafKeysWithoutOdd
      <4> QED
        BY <1>7, <4>1, <4>2
    <3>6. ShapeOK(n) /\ Len(n.keys) = Len(leaf.keys) - 1 /\ Len(n.keys) \in Nat
      BY <1>6, <3>2, <3>3, LeafFacts DEF ShapeOK, IsWithout
    <3> QED
      BY <1>6, <3>2, <3>3, <3>5, <3>6
  <2> QED
    BY <2>1, <2>2
<1>14. Len(n.keys) <= N /\ (node = root_id \/ Len(n.keys) >= Half)
  <2>1. /\ MaxSize(leaf) = N /\ (CanDelete(leaf) <=> Len(leaf.keys) > Half)
    BY <1>6, OuterSizes
  <2>2. Sized(pages, root_id) /\ Half \in Nat /\ N \in Nat
    BY HalfIs DEF IInv
  <2>3. Len(leaf.keys) <= MaxSize(leaf)
    BY <1>4, <2>2 DEF Sized, leaf
  <2>4. node = root_id \/ CanDelete(leaf)
    BY <1>4, <1>6 DEF Spares, leaf
  <2> QED
    BY <1>6, <1>13, <2>1, <2>2, <2>3, <2>4
<1>15. /\ Effect(With(Page(node, n)), {}, {node}, {node}) /\ n.next_lef_id = pages[node].next_lef_id
       /\ KeysOK(n, lo[node], hi[node])
  BY <1>2, <1>13 DEF leaf, a, b
<1> QED
  BY <1>1, <1>2, <1>4, <1>5, <1>7, <1>13, <1>14, <1>15, WriteKeeps

-----------------------------------------------------------------------------
(* Steps that only request a page: the tree stays, the call goes on.       *)
RootSpent == pages[root_id].inner /\ pages[root_id].keys = << >>
(* Pages are only requested and given back. *)
LEMMA ReadKeeps ==
  ASSUME IInv, NEW fixed, NEW unfixed, Effect(pages, fixed, unfixed, {}), UNCHANGED root_id,
         Turns(Fixed, fixed, unfixed, Fixed'), ~RootSpent, NumbersOK',
         NEW lo, NEW hi, NEW h, NEW odd, NEW k, Labelled(lo, hi, h, odd, k), op' = op,
         Registers(lo, hi, h, odd)'
  PROVE  Kept
<1>1. pages' = pages /\ root_id' = root_id
  BY DEF Effect
<1>2. Labelled(lo, hi, h, odd, k)'
  BY <1>1 DEF Labelled
<1>3. Sized(pages', root_id') /\ RootFilled'
  BY <1>1 DEF IInv, RootFilled, RootSpent
<1> QED
  BY <1>2, <1>3, Lands

(* A page of the tree is a number. *)
LEMMA PagesAreNumbers ==
  ASSUME NEW lo, NEW hi, NEW h, NEW odd, NEW k, Labelled(lo, hi, h, odd, k), NEW x \in DOMAIN pages
  PROVE  x \in 0 .. MaxPages /\ 0 \in 0 .. MaxPages /\ x \in PageIds /\ x # 0
  BY Known, MaxPagesAssumption DEF PageIds

(* An insert goes to a child that is not full. *)
LEMMA InsertDescendKeeps == IInv /\ InsertDescend => Kept /\ Few
<1> SUFFICES ASSUME IInv, InsertDescend PROVE Kept /\ Few
  OBVIOUS
<1> DEFINE c == NextChild
<1>1. PICK lo, hi, h, odd, k : Labelled(lo, hi, h, odd, k)
  BY DEF IInv
<1>2. /\ pc = "insert" /\ ~NodeIsLeaf /\ pages' = pages /\ root_id' = root_id /\ ~IsFull(pages[c])
      /\ Effect(pages, {c}, {node}, {}) /\ pc' = op.kind /\ node' = c /\ child' = 0 /\ other' = 0 /\ op' = op
  BY DEF InsertDescend, Recur, Effect
<1>3. Inserting(lo, hi, odd)
  BY <1>1, <1>2, Known, Places
<1>4. /\ op \in Ops /\ op.kind = pc /\ node \in DOMAIN pages /\ odd = 0 /\ Here(lo, hi, odd, node)
      /\ Fresh(pages, op.key)
  BY <1>2, <1>3 DEF Inserting, OpIs
<1>5. c \in DOMAIN pages /\ c # node /\ Here(lo, hi, odd, c)
  BY <1>1, <1>2, <1>4, GoesTo
<1> HIDE DEF c
<1>6. Registers(lo, hi, h, odd)'
  <2>1. Here(lo, hi, odd, node)'
    BY <1>2, <1>5 DEF Here
  <2>2. Inserting(lo, hi, odd)'
    BY <1>2, <1>4, <1>5, <2>1 DEF Inserting, OpIs, Fresh
  <2> QED
    BY <2>2 DEF Registers
<1>7. ~RootSpent /\ NumbersOK'
  <2>1. ~RootSpent
    BY <1>2 DEF IInv, RootFilled, RootSpent
  <2>2. c \in 0 .. MaxPages /\ 0 \in 0 .. MaxPages
    BY <1>1, <1>5, PagesAreNumbers
  <2> QED
    BY <1>2, <2>1, <2>2 DEF NumbersOK
<1>8. Fixed = {node} /\ Fixed' = {c}
  BY <1>2, <1>4 DEF Fixed
<1>9. Turns(Fixed, {c}, {node}, Fixed')
  BY <1>5, <1>8 DEF Turns
<1>10. Kept
  BY <1>1, <1>2, <1>6, <1>7, <1>9, ReadKeeps
<1> QED
  BY <1>8, <1>10 DEF Few

(* A delete goes to a child that can lose an entry. *)
LEMMA DeleteDescendKeeps == IInv /\ DeleteDescend => Kept /\ Few
<1> SUFFICES ASSUME IInv, DeleteDescend PROVE Kept /\ Few
  OBVIOUS
<1> DEFINE c == NextChild
<1>1. PICK lo, hi, h, odd, k : Labelled(lo, hi, h, odd, k)
  BY DEF IInv
<1>2. /\ pc = "delete" /\ ~NodeIsLeaf /\ pages' = pages /\ root_id' = root_id /\ ~RootIsSpent
      /\ CanDelete(pages[c]) /\ ~HasKey(pages[node], op.key)
      /\ Effect(pages, {c}, {node}, {}) /\ pc' = op.kind /\ node' = c /\ child' = 0 /\ other' = 0 /\ op' = op
  BY DEF DeleteDescend, DeleteInner, Recur, Effect
<1>3. Deleting(lo, hi, odd)
  BY <1>1, <1>2, Known, Places
<1>4. op \in Ops /\ op.kind = pc /\ node \in DOMAIN pages /\ Strictly(lo, hi, odd, node)
  BY <1>2, <1>3 DEF Deleting, OpIs
<1>5. c \in DOMAIN pages /\ c # node /\ Strictly(lo, hi, odd, c)
  <2>1. Here(lo, hi, odd, node)
    BY <1>4 DEF Strictly
  <2> QED
    BY <1>1, <1>2, <1>4, <2>1, GoesTo
<1> HIDE DEF c
<1>6. Registers(lo, hi, h, odd)'
  <2>1. Strictly(lo, hi, odd, node)'
    BY <1>2, <1>5 DEF Here, Strictly
  <2>2. Deleting(lo, hi, odd)'
    BY <1>2, <1>4, <1>5, <2>1 DEF Deleting, OpIs, Spares
  <2> QED
    BY <2>2 DEF Registers
<1>7. ~RootSpent /\ NumbersOK'
  <2>1. ~RootSpent
    BY <1>2 DEF IInv, RootFilled, RootSpent, RootIsSpent
  <2>2. c \in 0 .. MaxPages /\ 0 \in 0 .. MaxPages
    BY <1>1, <1>5, PagesAreNumbers
  <2> QED
    BY <1>2, <2>1, <2>2 DEF NumbersOK
<1>8. Fixed = {node} /\ Fixed' = {c}
  BY <1>2, <1>4 DEF Fixed
<1>9. Turns(Fixed, {c}, {node}, Fixed')
  BY <1>5, <1>8 DEF Turns
<1>10. Kept
  BY <1>1, <1>2, <1>6, <1>7, <1>9, ReadKeeps
<1> QED
  BY <1>8, <1>10 DEF Few

(* find_biggest goes down the last children, below the child of the node. *)
LEMMA FindBiggestKeeps == IInv /\ FindBiggest => Kept /\ Few
<1> SUFFICES ASSUME IInv, FindBiggest PROVE Kept /\ Few
  OBVIOUS
<1>1. PICK lo, hi, h, odd, k : Labelled(lo, hi, h, odd, k)
  BY DEF IInv
<1>2. CASE pc = "delete"
  <2> DEFINE c == NextChild
  <2>1. /\ ~NodeIsLeaf /\ pages' = pages /\ root_id' = root_id /\ ~RootIsSpent
        /\ CanDelete(pages[c]) /\ HasKey(pages[node], op.key)
        /\ Effect(pages, {c}, {}, {}) /\ pc' = "find" /\ node' = node /\ child' = c /\ other' = c /\ op' = op
    BY <1>2 DEF FindBiggest, DeleteInner, Goto, Effect
  <2>2. Deleting(lo, hi, odd)
    BY <1>1, <1>2, Known, Places
  <2>3. /\ op \in Ops /\ op.kind = "delete" /\ node \in DOMAIN pages
        /\ Strictly(lo, hi, odd, node) /\ Here(lo, hi, odd, node)
    BY <2>2 DEF Deleting, OpIs, Strictly
  <2>4. c \in DOMAIN pages /\ c # node /\ odd = 0 /\ hi[c] = op.key
    BY <1>1, <2>1, <2>3, GoesTo
  <2>5. h[c] \in Nat
    BY <1>1, <2>4, Known, TreeFacts
  <2> HIDE DEF c
  <2>6. Registers(lo, hi, h, odd)'
    <3>1. Strictly(lo, hi, odd, node)'
      BY <2>1, <2>3 DEF Here, Strictly
    <3>2. child' = NextChild' /\ ~NodeIsLeaf' /\ h[other'] <= h[child']
      BY <2>1, <2>5 DEF NextChild, NodeIsLeaf, c
    <3>3. Finding(lo, hi, h, odd)'
      BY <2>1, <2>3, <2>4, <3>1, <3>2 DEF Finding, OpIs
    <3> QED
      BY <3>3 DEF Registers
  <2>7. ~RootSpent /\ NumbersOK'
    <3>1. ~RootSpent
      BY <1>2, <2>1 DEF IInv, RootFilled, RootSpent, RootIsSpent
    <3>2. c \in 0 .. MaxPages
      BY <1>1, <2>4, PagesAreNumbers
    <3> QED
      BY <2>1, <3>1, <3>2 DEF IInv, NumbersOK
  <2>8. Fixed = {node} /\ Fixed' = {node, c}
    BY <1>2, <2>1 DEF Fixed
  <2>9. Turns(Fixed, {c}, {}, Fixed')
    BY <2>4, <2>8 DEF Turns
  <2>10. Kept
    BY <1>1, <2>1, <2>6, <2>7, <2>9, ReadKeeps
  <2> QED
    BY <2>8, <2>10 DEF Few
<1>3. CASE pc = "find"
  <2> DEFINE last == Last(pages[other].child_ids)
  <2>1. /\ pages[other].inner /\ pages' = pages /\ root_id' = root_id
        /\ Effect(pages, {last}, {other}, {}) /\ pc' = "find" /\ node' = node /\ child' = child
        /\ other' = last /\ op' = op
    BY <1>3 DEF FindBiggest, DeleteInner, Goto, Effect
  <2>2. Finding(lo, hi, h, odd)
    BY <1>1, <1>3, Known, Places
  <2>3. /\ op \in Ops /\ op.kind = "delete" /\ node \in DOMAIN pages /\ odd = 0
        /\ Strictly(lo, hi, odd, node) /\ Here(lo, hi, odd, node) /\ ~NodeIsLeaf
        /\ HasKey(pages[node], op.key) /\ child = NextChild /\ CanDelete(pages[child])
        /\ other \in DOMAIN pages /\ hi[other] = op.key /\ h[other] <= h[child]
    BY <2>2 DEF Finding, OpIs, Strictly
  <2>4. child \in DOMAIN pages /\ h[node] = h[child] + 1
    BY <1>1, <2>3, GoesTo
  <2>5. last \in DOMAIN pages /\ h[other] = h[last] + 1 /\ hi[last] = hi[other]
    <3> DEFINE w == Len(pages[other].keys)
    <3>1. IsInner(pages[other], Keys, PageIds) /\ Skeleton(pages, lo, hi, h)
      BY <1>1, <2>1, <2>3, Known, TreeFacts DEF ShapeOK
    <3>2. w \in Nat /\ Len(pages[other].child_ids) = w + 1 /\ w + 1 \in 1 .. w + 1
      BY <3>1, InnerFacts DEF IsInner
    <3>3. last = ChildAt(pages, other, w + 1)
      BY <3>2 DEF Last, ChildAt
    <3>4. /\ ChildAt(pages, other, w + 1) \in DOMAIN pages
          /\ h[other] = h[ChildAt(pages, other, w + 1)] + 1
          /\ hi[ChildAt(pages, other, w + 1)] = Cut(pages[other], lo[other], hi[other], w + 1)
      BY <2>1, <2>3, <3>1, <3>2, ChildIsBelow
    <3>5. Cut(pages[other], lo[other], hi[other], w + 1) = hi[other]
      BY <3>2 DEF Cut
    <3> QED
      BY <3>3, <3>4, <3>5
  <2> HIDE DEF last
  <2>6. last # node /\ other # node /\ h[last] <= h[child]
    <3>1. h[last] \in Nat /\ h[other] \in Nat /\ h[child] \in Nat /\ h[node] \in Nat
      BY <1>1, <2>3, <2>4, <2>5, Known, TreeFacts
    <3> QED
      BY <2>3, <2>4, <2>5, <3>1
  <2>7. Registers(lo, hi, h, odd)'
    <3>1. Strictly(lo, hi, odd, node)'
      BY <2>1, <2>3 DEF Here, Strictly
    <3>2. child' = NextChild' /\ ~NodeIsLeaf'
      BY <2>1, <2>3 DEF NextChild, NodeIsLeaf
    <3>3. Finding(lo, hi, h, odd)'
      BY <2>1, <2>3, <2>5, <2>6, <3>1, <3>2 DEF Finding, OpIs
    <3> QED
      BY <3>3 DEF Registers
  <2>8. ~RootSpent /\ NumbersOK'
    <3>1. ~RootSpent
      BY <1>3 DEF IInv, RootFilled, RootSpent
    <3>2. last \in 0 .. MaxPages
      BY <1>1, <2>5, PagesAreNumbers
    <3> QED
      BY <2>1, <3>1, <3>2 DEF IInv, NumbersOK
  <2>9. Fixed = {node, other} /\ Fixed' = {node, last}
    BY <1>3, <2>1 DEF Fixed
  <2>10. Turns(Fixed, {last}, {other}, Fixed')
    BY <2>6, <2>9 DEF Turns
  <2>11. Kept
    BY <1>1, <2>1, <2>7, <2>8, <2>10, ReadKeeps
  <2>12. Fixed \cup Fixed' \subseteq {node, other, last}
    BY <2>9
  <2> QED
    BY <2>11, <2>12 DEF Few
<1> QED
  BY <1>2, <1>3 DEF FindBiggest, DeleteInner

(* The child is too small: rebalancing begins. *)
LEMMA RebalanceKeeps == IInv /\ Rebalance => Kept /\ Few
<1> SUFFICES ASSUME IInv, Rebalance PROVE Kept /\ Few
  OBVIOUS
<1> DEFINE c == NextChild
<1>1. PICK lo, hi, h, odd, k : Labelled(lo, hi, h, odd, k)
  BY DEF IInv
<1>2. /\ pc = "delete" /\ ~NodeIsLeaf /\ pages' = pages /\ root_id' = root_id /\ ~RootIsSpent
      /\ ~CanDelete(pages[c])
      /\ Effect(pages, {c}, {}, {}) /\ pc' = "ask_left" /\ node' = node /\ child' = c /\ other' = 0 /\ op' = op
  BY DEF Rebalance, DeleteInner, Goto, Effect
<1>3. Deleting(lo, hi, odd)
  BY <1>1, <1>2, Known, Places
<1>4. /\ op \in Ops /\ op.kind = "delete" /\ node \in DOMAIN pages
      /\ Strictly(lo, hi, odd, node) /\ Here(lo, hi, odd, node) /\ Spares(node)
  BY <1>3 DEF Deleting, OpIs, Strictly
<1>5. c \in DOMAIN pages /\ c # node
  BY <1>1, <1>2, <1>4, GoesTo
<1>6. node = root_id \/ CanDelete(pages[node])
  BY <1>2, <1>4 DEF Spares, NextChild
<1>7. Len(pages[node].keys) > 0
  <2>1. pages[node].inner /\ IsInner(pages[node], Keys, PageIds) /\ Len(pages[node].keys) \in Nat
    BY <1>1, <1>2, <1>4, Known, TreeFacts DEF ShapeOK, NodeIsLeaf
  <2>2. CASE node = root_id
    <3>1. pages[node].keys # << >> /\ pages[node].keys \in Seq(Keys)
      BY <1>2, <2>1, <2>2 DEF RootIsSpent, IsInner
    <3> QED
      BY <2>1, <3>1
  <2>3. CASE node # root_id
    <3>1. Len(pages[node].keys) >= Half /\ Half \in Nat /\ Half >= 2
      BY <1>6, <2>1, <2>3, InnerSizes, HalfIs
    <3> QED
      BY <2>1, <3>1
  <2> QED
    BY <2>2, <2>3
<1> HIDE DEF c
<1>8. Registers(lo, hi, h, odd)'
  <2>1. Strictly(lo, hi, odd, node)'
    BY <1>2, <1>4 DEF Here, Strictly
  <2>2. child' = NextChild' /\ ~NodeIsLeaf'
    BY <1>2 DEF NextChild, NodeIsLeaf, c
  <2>3. Balancing(lo, hi, odd)'
    BY <1>2, <1>4, <1>6, <1>7, <2>1, <2>2 DEF Balancing, BalancingPlaces, OpIs
  <2> QED
    BY <2>3 DEF Registers
<1>9. ~RootSpent /\ NumbersOK'
  <2>1. ~RootSpent
    BY <1>2 DEF IInv, RootFilled, RootSpent, RootIsSpent
  <2>2. c \in 0 .. MaxPages /\ 0 \in 0 .. MaxPages
    BY <1>1, <1>5, PagesAreNumbers
  <2> QED
    BY <1>2, <2>1, <2>2 DEF IInv, NumbersOK
<1>10. Fixed = {node} /\ Fixed' = {node, c}
  BY <1>2, <1>4 DEF Fixed
<1>11. Turns(Fixed, {c}, {}, Fixed')
  BY <1>5, <1>10 DEF Turns
<1>12. Kept
  BY <1>1, <1>2, <1>8, <1>9, <1>11, ReadKeeps
<1> QED
  BY <1>10, <1>12 DEF Few

(* The child's place among its siblings. *)
LEMMA BalancingFacts ==
  ASSUME NEW lo, NEW hi, NEW h, NEW odd, NEW k, Labelled(lo, hi, h, odd, k), Balancing(lo, hi, odd)
  PROVE  /\ ChildIndex = Index /\ Index \in 1 .. Len(pages[node].keys) + 1
         /\ Len(pages[node].keys) \in Nat /\ Len(pages[node].keys) > 0
         /\ Len(Siblings) = Len(pages[node].keys) + 1 /\ pages[node].inner
         /\ op \in Ops /\ op.kind = "delete" /\ node \in DOMAIN pages /\ child \in DOMAIN pages
         /\ child = ChildAt(pages, node, Index) /\ Here(lo, hi, odd, node) /\ Strictly(lo, hi, odd, node)
         /\ \A i \in 1 .. Len(pages[node].keys) + 1 :
              /\ Siblings[i] = ChildAt(pages, node, i) /\ Siblings[i] \in DOMAIN pages /\ Siblings[i] # node
              /\ h[node] = h[Siblings[i]] + 1
              /\ i # Index => Siblings[i] # child
<1> DEFINE w == Len(pages[node].keys)
<1>1. /\ op \in Ops /\ op.kind = "delete" /\ node \in DOMAIN pages /\ ~NodeIsLeaf /\ child = NextChild
      /\ Strictly(lo, hi, odd, node) /\ Here(lo, hi, odd, node) /\ w > 0
  BY DEF Balancing, OpIs, Strictly
<1>2. child \in DOMAIN pages /\ Index \in 1 .. w + 1 /\ child = ChildAt(pages, node, Index)
  BY <1>1, GoesTo
<1>3. Skeleton(pages, lo, hi, h) /\ pages[node].inner /\ IsInner(pages[node], Keys, PageIds) /\ w \in Nat
  BY <1>1, Known, TreeFacts DEF ShapeOK, NodeIsLeaf
<1>4. Len(Siblings) = w + 1 /\ DOMAIN Siblings = 1 .. w + 1
  BY <1>3 DEF Siblings, IsInner
<1>5. \A i \in 1 .. w + 1 : Siblings[i] = ChildAt(pages, node, i)
  BY DEF Siblings, ChildAt
<1>6. ASSUME NEW i \in 1 .. w + 1
      PROVE  /\ Siblings[i] \in DOMAIN pages /\ Siblings[i] # node /\ h[node] = h[Siblings[i]] + 1
             /\ i # Index => Siblings[i] # child
  <2>1. ChildAt(pages, node, i) \in DOMAIN pages /\ h[node] = h[ChildAt(pages, node, i)] + 1
    BY <1>1, <1>3, ChildIsBelow
  <2>2. ChildAt(pages, node, i) # node
    <3>1. h[ChildAt(pages, node, i)] \in Nat /\ h[node] \in Nat
      BY <1>1, <2>1, Known, TreeFacts
    <3> QED
      BY <2>1, <3>1
  <2>3. i # Index => ChildAt(pages, node, i) # ChildAt(pages, node, Index)
    BY <1>1, <1>2, <1>3, OnlyParent
  <2> QED
    BY <1>2, <1>5, <2>1, <2>2, <2>3
<1>7. ChildIndex = Index
  <2>1. Index \in DOMAIN Siblings /\ Siblings[Index] = child
    BY <1>2, <1>4, <1>5
  <2>2. \A i \in DOMAIN Siblings : Siblings[i] = child => i = Index
    BY <1>4, <1>6
  <2> QED
    BY <2>1, <2>2 DEF ChildIndex
<1> QED
  BY <1>1, <1>2, <1>3, <1>4, <1>5, <1>6, <1>7

(* The registers change, a sibling is requested or given back. *)
LEMMA BalancingKeeps ==
  ASSUME IInv, NEW lo, NEW hi, NEW h, NEW odd, NEW k, Labelled(lo, hi, h, odd, k), Balancing(lo, hi, odd),
         pc' \in BalancingPlaces, child' = child, node' = node, op' = op, UNCHANGED root_id,
         NEW fixed, NEW unfixed, Effect(pages, fixed, unfixed, {}), Turns(Fixed, fixed, unfixed, Fixed'),
         other' \in 0 .. MaxPages,
         pc' \in {"left", "merge_left"} => Index > 1 /\ other' = ChildAt(pages, node, Index - 1),
         pc' = "right" => Index <= Len(pages[node].keys) /\ other' = ChildAt(pages, node, Index + 1),
         pc' = "merge_right" => Index = 1 /\ other' = ChildAt(pages, node, Index + 1)
  PROVE  Kept
<1>1. pages' = pages /\ Index' = Index /\ NextChild' = NextChild /\ NodeIsLeaf' = NodeIsLeaf
  BY DEF Effect, Index, NextChild, NodeIsLeaf
<1>2. Strictly(lo, hi, odd, node)' = Strictly(lo, hi, odd, node)
  BY DEF Strictly, Here
<1>3. Balancing(lo, hi, odd)'
  BY <1>1, <1>2 DEF Balancing, OpIs
<1>4. Registers(lo, hi, h, odd)'
  BY <1>3 DEF Registers
<1>5. ~RootSpent
  <2>1. pc # "delete"
    BY DEF Balancing, BalancingPlaces
  <2> QED
    BY <2>1 DEF IInv, RootFilled, RootSpent
<1>6. NumbersOK'
  BY DEF IInv, NumbersOK
<1> QED
  BY <1>4, <1>5, <1>6, ReadKeeps

(* Leaving pages and counts alone is an effect, too. *)
LEMMA NothingIsAnEffect ==
  ASSUME IInv, UNCHANGED <<pages, fix_count, unsaved>>
  PROVE  Effect(pages, {}, {}, {})
<1>1. fix_count \in [PageIds -> Nat] /\ unsaved = {}
  BY DEF IInv, Counts
<1>2. fix_count' = [i \in PageIds |-> fix_count[i] + Bit(i \in {}) - Bit(i \in {})]
  BY <1>1 DEF Bit
<1> QED
  BY <1>1, <1>2 DEF Effect

(* substitute looks for a left sibling. *)
LEMMA AskLeftKeeps == IInv /\ AskLeft => Kept /\ Few
<1> SUFFICES ASSUME IInv, AskLeft PROVE Kept /\ Few
  OBVIOUS
<1>1. PICK lo, hi, h, odd, k : Labelled(lo, hi, h, odd, k)
  BY DEF IInv
<1>2. pc = "ask_left" /\ root_id' = root_id
  BY DEF AskLeft
<1>3. Balancing(lo, hi, odd)
  BY <1>1, <1>2, Known, Places DEF BalancingPlaces
<1>4. /\ ChildIndex = Index /\ Index \in 1 .. Len(pages[node].keys) + 1 /\ Len(pages[node].keys) \in Nat
      /\ \A i \in 1 .. Len(pages[node].keys) + 1 :
           /\ Siblings[i] = ChildAt(pages, node, i) /\ Siblings[i] \in DOMAIN pages /\ Siblings[i] # node
           /\ i # Index => Siblings[i] # child
  BY <1>1, <1>3, BalancingFacts
<1>5. Fixed = {node, child}
  BY <1>2 DEF Fixed
<1>6. CASE Index > 1
  <2> DEFINE s == Siblings[Index - 1]
  <2>1. /\ Effect(pages, {s}, {}, {}) /\ pc' = "left" /\ child' = child /\ other' = s
        /\ op' = op /\ node' = node
    BY <1>4, <1>6 DEF AskLeft, Goto
  <2>2. Index - 1 \in 1 .. Len(pages[node].keys) + 1 /\ Index - 1 # Index
    BY <1>4, <1>6
  <2>3. s = ChildAt(pages, node, Index - 1) /\ s \in DOMAIN pages /\ s # node /\ s # child
    BY <1>4, <2>2
  <2>4. s \in 0 .. MaxPages
    BY <1>1, <2>3, PagesAreNumbers
  <2> HIDE DEF s
  <2>5. Fixed' = {node, child, s}
    BY <2>1 DEF Fixed
  <2>6. Turns(Fixed, {s}, {}, Fixed')
    BY <1>5, <2>3, <2>5 DEF Turns
  <2>7. Kept
    BY <1>1, <1>2, <1>3, <1>6, <2>1, <2>3, <2>4, <2>6, BalancingKeeps DEF BalancingPlaces
  <2> QED
    BY <1>5, <2>5, <2>7 DEF Few
<1>7. CASE ~(Index > 1)
  <2>1. /\ UNCHANGED <<pages, fix_count, unsaved>> /\ pc' = "ask_right" /\ child' = child /\ other' = 0
        /\ op' = op /\ node' = node
    BY <1>4, <1>7 DEF AskLeft, Goto
  <2>2. Effect(pages, {}, {}, {})
    BY <2>1, NothingIsAnEffect
  <2>3. Fixed' = {node, child} /\ 0 \in 0 .. MaxPages
    BY <2>1, MaxPagesAssumption DEF Fixed
  <2>4. Turns(Fixed, {}, {}, Fixed')
    BY <1>5, <2>3 DEF Turns
  <2>5. Kept
    BY <1>1, <1>2, <1>3, <2>1, <2>2, <2>3, <2>4, BalancingKeeps DEF BalancingPlaces
  <2> QED
    BY <1>5, <2>3, <2>5 DEF Few
<1> QED
  BY <1>6, <1>7

(* substitute looks for a right sibling. *)
LEMMA AskRightKeeps == IInv /\ AskRight => Kept /\ Few
<1> SUFFICES ASSUME IInv, AskRight PROVE Kept /\ Few
  OBVIOUS
<1>1. PICK lo, hi, h, odd, k : Labelled(lo, hi, h, odd, k)
  BY DEF IInv
<1>2. pc = "ask_right" /\ root_id' = root_id
  BY DEF AskRight
<1>3. Balancing(lo, hi, odd)
  BY <1>1, <1>2, Known, Places DEF BalancingPlaces
<1>4. /\ ChildIndex = Index /\ Index \in 1 .. Len(pages[node].keys) + 1 /\ Len(pages[node].keys) \in Nat
      /\ Len(Siblings) = Len(pages[node].keys) + 1
      /\ \A i \in 1 .. Len(pages[node].keys) + 1 :
           /\ Siblings[i] = ChildAt(pages, node, i) /\ Siblings[i] \in DOMAIN pages /\ Siblings[i] # node
           /\ i # Index => Siblings[i] # child
  BY <1>1, <1>3, BalancingFacts
<1>5. Fixed = {node, child}
  BY <1>2 DEF Fixed
<1>6. CASE Index < Len(Siblings)
  <2> DEFINE s == Siblings[Index + 1]
  <2>1. /\ Effect(pages, {s}, {}, {}) /\ pc' = "right" /\ child' = child /\ other' = s
        /\ op' = op /\ node' = node
    BY <1>4, <1>6 DEF AskRight, Goto
  <2>2. Index + 1 \in 1 .. Len(pages[node].keys) + 1 /\ Index + 1 # Index /\ Index <= Len(pages[node].keys)
    BY <1>4, <1>6
  <2>3. s = ChildAt(pages, node, Index + 1) /\ s \in DOMAIN pages /\ s # node /\ s # child
    BY <1>4, <2>2
  <2>4. s \in 0 .. MaxPages
    BY <1>1, <2>3, PagesAreNumbers
  <2> HIDE DEF s
  <2>5. Fixed' = {node, child, s}
    BY <2>1 DEF Fixed
  <2>6. Turns(Fixed, {s}, {}, Fixed')
    BY <1>5, <2>3, <2>5 DEF Turns
  <2>7. Kept
    BY <1>1, <1>2, <1>3, <2>1, <2>2, <2>3, <2>4, <2>6, BalancingKeeps DEF BalancingPlaces
  <2> QED
    BY <1>5, <2>5, <2>7 DEF Few
<1>7. CASE ~(Index < Len(Siblings))
  <2>1. /\ UNCHANGED <<pages, fix_count, unsaved>> /\ pc' = "merge" /\ child' = child /\ other' = 0
        /\ op' = op /\ node' = node
    BY <1>4, <1>7 DEF AskRight, Goto
  <2>2. Effect(pages, {}, {}, {})
    BY <2>1, NothingIsAnEffect
  <2>3. Fixed' = {node, child} /\ 0 \in 0 .. MaxPages
    BY <2>1, MaxPagesAssumption DEF Fixed
  <2>4. Turns(Fixed, {}, {}, Fixed')
    BY <1>5, <2>3 DEF Turns
  <2>5. Kept
    BY <1>1, <1>2, <1>3, <2>1, <2>2, <2>3, <2>4, BalancingKeeps DEF BalancingPlaces
  <2> QED
    BY <1>5, <2>3, <2>5 DEF Few
<1> QED
  BY <1>6, <1>7

(* merge requests a sibling. *)
LEMMA AskMergeKeeps == IInv /\ AskMerge => Kept /\ Few
<1> SUFFICES ASSUME IInv, AskMerge PROVE Kept /\ Few
  OBVIOUS
<1>1. PICK lo, hi, h, odd, k : Labelled(lo, hi, h, odd, k)
  BY DEF IInv
<1>2. pc = "merge" /\ root_id' = root_id
  BY DEF AskMerge
<1>3. Balancing(lo, hi, odd)
  BY <1>1, <1>2, Known, Places DEF BalancingPlaces
<1>4. /\ ChildIndex = Index /\ Index \in 1 .. Len(pages[node].keys) + 1
      /\ Len(pages[node].keys) \in Nat /\ Len(pages[node].keys) > 0
      /\ \A i \in 1 .. Len(pages[node].keys) + 1 :
           /\ Siblings[i] = ChildAt(pages, node, i) /\ Siblings[i] \in DOMAIN pages /\ Siblings[i] # node
           /\ i # Index => Siblings[i] # child
  BY <1>1, <1>3, BalancingFacts
<1>5. Fixed = {node, child}
  BY <1>2 DEF Fixed
<1> DEFINE i == IF Index > 1 THEN Index - 1 ELSE Index + 1
           s == Siblings[i]
<1>6. /\ Effect(pages, {s}, {}, {}) /\ child' = child /\ other' = s /\ op' = op /\ node' = node
      /\ pc' = IF i < Index THEN "merge_left" ELSE "merge_right"
  BY <1>4 DEF AskMerge, Goto
<1>7. /\ i \in 1 .. Len(pages[node].keys) + 1 /\ i # Index
      /\ i < Index => Index > 1 /\ i = Index - 1
      /\ ~(i < Index) => Index = 1 /\ i = Index + 1
  BY <1>4
<1> HIDE DEF i
<1>8. s = ChildAt(pages, node, i) /\ s \in DOMAIN pages /\ s # node /\ s # child
  BY <1>4, <1>7
<1>9. s \in 0 .. MaxPages
  BY <1>1, <1>8, PagesAreNumbers
<1> HIDE DEF s
<1>10. Fixed' = {node, child, s}
  BY <1>6 DEF Fixed
<1>11. Turns(Fixed, {s}, {}, Fixed')
  BY <1>5, <1>8, <1>10 DEF Turns
<1>12. Kept
  <2>1. pc' \in BalancingPlaces /\ pc' \notin {"left", "right"}
    BY <1>6 DEF BalancingPlaces
  <2>2. /\ pc' \in {"left", "merge_left"} => Index > 1 /\ other' = ChildAt(pages, node, Index - 1)
        /\ pc' = "right" => Index <= Len(pages[node].keys) /\ other' = ChildAt(pages, node, Index + 1)
        /\ pc' = "merge_right" => Index = 1 /\ other' = ChildAt(pages, node, Index + 1)
    BY <1>6, <1>7, <1>8
  <2> QED
    BY <1>1, <1>2, <1>3, <1>6, <1>9, <1>11, <2>1, <2>2, BalancingKeeps
<1> QED
  BY <1>5, <1>10, <1>12 DEF Few

(* A sibling that cannot spare an entry is given back. *)
LEMMA RefuseKeeps == IInv /\ Refuse => Kept /\ Few
<1> SUFFICES ASSUME IInv, Refuse PROVE Kept /\ Few
  OBVIOUS
<1>1. PICK lo, hi, h, odd, k : Labelled(lo, hi, h, odd, k)
  BY DEF IInv
<1>2. /\ pc \in {"left", "right"} /\ root_id' = root_id /\ Effect(pages, {}, {other}, {})
      /\ pc' = (IF pc = "left" THEN "ask_right" ELSE "merge")
      /\ child' = child /\ other' = 0 /\ op' = op /\ node' = node
  BY DEF Refuse, Goto
<1>3. Balancing(lo, hi, odd)
  BY <1>1, <1>2, Known, Places DEF BalancingPlaces
<1>4. /\ Index \in 1 .. Len(pages[node].keys) + 1 /\ Len(pages[node].keys) \in Nat
      /\ \A i \in 1 .. Len(pages[node].keys) + 1 :
           /\ Siblings[i] = ChildAt(pages, node, i) /\ Siblings[i] # node
           /\ i # Index => Siblings[i] # child
  BY <1>1, <1>3, BalancingFacts
<1>5. /\ pc = "left" => Index > 1 /\ other = ChildAt(pages, node, Index - 1)
      /\ pc = "right" => Index <= Len(pages[node].keys) /\ other = ChildAt(pages, node, Index + 1)
  BY <1>3 DEF Balancing
<1>6. other # node /\ other # child
  <2>1. CASE pc = "left"
    <3>1. Index - 1 \in 1 .. Len(pages[node].keys) + 1 /\ Index - 1 # Index
      BY <1>4, <1>5, <2>1
    <3> QED
      BY <1>4, <1>5, <2>1, <3>1
  <2>2. CASE pc = "right"
    <3>1. Index + 1 \in 1 .. Len(pages[node].keys) + 1 /\ Index + 1 # Index
      BY <1>4, <1>5, <2>2
    <3> QED
      BY <1>4, <1>5, <2>2, <3>1
  <2> QED
    BY <1>2, <2>1, <2>2
<1>7. Fixed = {node, child, other} /\ Fixed' = {node, child}
  BY <1>2 DEF Fixed
<1>8. Turns(Fixed, {}, {other}, Fixed')
  BY <1>6, <1>7 DEF Turns
<1>9. 0 \in 0 .. MaxPages
  BY MaxPagesAssumption
<1>10. Kept
  BY <1>1, <1>2, <1>3, <1>8, <1>9, BalancingKeeps DEF BalancingPlaces
<1> QED
  BY <1>7, <1>10 DEF Few

-----------------------------------------------------------------------------
(* Splitting a full node. *)
LEMMA CreateSiblingKeeps == IInv /\ CreateSibling => Kept /\ Few
<1> SUFFICES ASSUME IInv, CreateSibling PROVE Kept /\ Few
  OBVIOUS
<1> DEFINE c == NextChild
           new == NewId(DOMAIN pages)
<1>1. PICK lo, hi, h, odd, k : Labelled(lo, hi, h, odd, k)
  BY DEF IInv
<1>2. /\ pc = "insert" /\ ~NodeIsLeaf /\ pages' = pages /\ root_id' = root_id /\ IsFull(pages[c])
      /\ ~(node = root_id /\ IsFull(pages[node])) /\ Room(DOMAIN pages)
      /\ Effect(pages, {c, new}, {}, {}) /\ pc' = "split" /\ node' = node /\ child' = c /\ other' = new /\ op' = op
  BY DEF CreateSibling, Goto, Effect
<1>3. Inserting(lo, hi, odd)
  BY <1>1, <1>2, Known, Places
<1>4. /\ op \in Ops /\ op.kind = "insert" /\ node \in DOMAIN pages /\ odd = 0 /\ Here(lo, hi, odd, node)
      /\ Fresh(pages, op.key) /\ ~IsFull(pages[node])
  BY <1>2, <1>3 DEF Inserting, OpIs
<1>5. c \in DOMAIN pages /\ c # node
  BY <1>1, <1>2, <1>4, GoesTo
<1>6. new \in PageIds \ DOMAIN pages
  <2>1. \E id \in PageIds : id \notin DOMAIN pages
    BY <1>2 DEF Room
  <2> QED
    BY <2>1 DEF NewId
<1> HIDE DEF new
<1>7. Registers(lo, hi, h, odd)'
  <2>1. Here(lo, hi, odd, node)'
    BY <1>2, <1>4 DEF Here
  <2>2. child' = NextChild' /\ ~NodeIsLeaf' /\ Fresh(pages, op.key)'
    BY <1>2, <1>4 DEF NextChild, NodeIsLeaf, Fresh
  <2>3. Splitting(lo, hi, odd)'
    BY <1>2, <1>4, <1>5, <1>6, <2>1, <2>2 DEF Splitting, OpIs
  <2> QED
    BY <2>3 DEF Registers
<1>8. ~RootSpent /\ NumbersOK'
  <2>1. ~RootSpent
    BY <1>2 DEF IInv, RootFilled, RootSpent
  <2>2. c \in 0 .. MaxPages
    BY <1>1, <1>5, PagesAreNumbers
  <2>3. new \in 0 .. MaxPages
    BY <1>6, MaxPagesAssumption DEF PageIds
  <2> QED
    BY <1>2, <2>1, <2>2, <2>3 DEF IInv, NumbersOK
<1> HIDE DEF c
<1>9. Fixed = {node} /\ Fixed' = {node, c, new}
  BY <1>2, <1>4 DEF Fixed
<1>10. Turns(Fixed, {c, new}, {}, Fixed')
  BY <1>4, <1>5, <1>6, <1>9 DEF Turns
<1>11. Kept
  BY <1>1, <1>2, <1>7, <1>8, <1>10, ReadKeeps
<1> QED
  BY <1>9, <1>11 DEF Few

(* The halves of a full node are neither full nor too small. *)
LEMMA HalvesSized ==
  ASSUME NEW n, n.inner \in BOOLEAN, Len(n.keys) \in Nat, Len(n.keys) = MaxSize(n),
         NEW at, at = SplitIndex(MaxSize(n))
  PROVE  /\ at \in 1 .. Len(n.keys) /\ (~n.inner => at < Len(n.keys))
         /\ \A q : /\ q.inner = n.inner
                   /\ \/ Len(q.keys) = IF n.inner THEN at - 1 ELSE at
                      \/ Len(q.keys) = Len(n.keys) - at
                   => Len(q.keys) <= MaxSize(q) /\ ~IsFull(q) /\ ~IsTooEmpty(q)
<1>1. /\ Half \in Nat /\ Half >= 2 /\ N \in Nat /\ 2 * Half <= N /\ N <= 2 * Half + 1
  BY HalfIs
<1>2. CASE n.inner
  <2>1. Len(n.keys) = N - 1 /\ at = Half
    BY <1>2, InnerSizes, SplitIndexIs
  <2>2. ASSUME NEW q, q.inner = n.inner, Len(q.keys) = at - 1 \/ Len(q.keys) = Len(n.keys) - at
        PROVE  Len(q.keys) <= MaxSize(q) /\ ~IsFull(q) /\ ~IsTooEmpty(q)
    <3>1. /\ Len(q.keys) \in Nat /\ Len(q.keys) < N - 1 /\ Len(q.keys) >= Half - 1 /\ q.inner
      BY <1>1, <1>2, <2>1, <2>2
    <3>2. MaxSize(q) = N - 1 /\ (IsFull(q) <=> Len(q.keys) >= N - 1) /\ (IsTooEmpty(q) <=> Len(q.keys) < Half - 1)
      BY <3>1, InnerSizes
    <3> QED
      BY <1>1, <3>1, <3>2
  <2>3. at \in 1 .. Len(n.keys)
    BY <1>1, <2>1
  <2> QED
    BY <1>2, <2>2, <2>3
<1>3. CASE ~n.inner
  <2>1. /\ Len(n.keys) = N /\ at \in Nat /\ at > 0 /\ at < N /\ at >= Half /\ N - at >= Half
    BY <1>3, OuterSizes, SplitIndexIs
  <2>2. ASSUME NEW q, q.inner = n.inner, Len(q.keys) = at \/ Len(q.keys) = Len(n.keys) - at
        PROVE  Len(q.keys) <= MaxSize(q) /\ ~IsFull(q) /\ ~IsTooEmpty(q)
    <3>1. Len(q.keys) \in Nat /\ Len(q.keys) < N /\ Len(q.keys) >= Half /\ ~q.inner
      BY <1>1, <1>3, <2>1, <2>2
    <3>2. MaxSize(q) = N /\ (IsFull(q) <=> Len(q.keys) >= N) /\ (IsTooEmpty(q) <=> Len(q.keys) < Half)
      BY <3>1, OuterSizes
    <3> QED
      BY <1>1, <3>1, <3>2
  <2>3. at \in 1 .. Len(n.keys) /\ at < Len(n.keys)
    BY <1>1, <2>1
  <2> QED
    BY <1>3, <2>2, <2>3
<1> QED
  BY <1>2, <1>3

(* A key that is in no leaf is in none after a leaf was divided. *)
LEMMA DivisionKeepsFresh ==
  ASSUME NEW small, NEW big, NEW p, NEW i, NEW l, NEW r, NEW m, Divides(small, big, p, i, l, r, m),
         DOMAIN small \subseteq PageIds, NEW key, Fresh(small, key)
  PROVE  Fresh(big, key)
<1>1. /\ Len(small[l].keys) \in Nat /\ Len(big[l].keys) \in Nat /\ Len(big[r].keys) \in Nat
      /\ small[l].inner = big[l].inner /\ small[l].inner = big[r].inner
  BY DividesFacts
<1>2. /\ l \in DOMAIN small /\ DOMAIN big = DOMAIN small \cup {r} /\ big[p].inner
      /\ \A x \in DOMAIN small : x # l /\ x # p => big[x] = small[x]
      /\ InnerJoin(small[l], big[l], m, big[r]) \/ LeafJoin(small[l], big[l], m, big[r])
  BY DEF Divides
<1>3. SUFFICES ASSUME NEW x \in DOMAIN big, ~big[x].inner, NEW j \in 1 .. Len(big[x].keys)
               PROVE  big[x].keys[j] # key
  BY DEF Fresh
<1>4. CASE x = l \/ x = r
  <2>1. ~small[l].inner
    BY <1>1, <1>3, <1>4
  <2>2. LeafJoin(small[l], big[l], m, big[r])
    BY <1>2, <2>1 DEF InnerJoin
  <2>3. \A q \in 1 .. Len(small[l].keys) : small[l].keys[q] # key
    BY <1>2, <2>1 DEF Fresh
  <2>6. Len(small[l].keys) = Len(big[l].keys) + Len(big[r].keys)
    BY <2>2 DEF LeafJoin
  <2>7. /\ \A q \in 1 .. Len(big[l].keys) : q \in 1 .. Len(small[l].keys)
        /\ \A q \in 1 .. Len(big[r].keys) : Len(big[l].keys) + q \in 1 .. Len(small[l].keys)
    BY <1>1, <2>6, PlacesOfHalves
  <2>4. CASE x = l
    <3>1. j \in 1 .. Len(big[l].keys)
      BY <1>3, <2>4
    <3>2. small[l].keys[j] = big[l].keys[j]
      BY <2>2, <3>1 DEF LeafJoin
    <3>3. j \in 1 .. Len(small[l].keys)
      BY <2>7, <3>1
    <3> QED
      BY <2>3, <2>4, <3>2, <3>3
  <2>5. CASE x = r
    <3>1. j \in 1 .. Len(big[r].keys)
      BY <1>3, <2>5
    <3>2. small[l].keys[Len(big[l].keys) + j] = big[r].keys[j]
      BY <2>2, <3>1 DEF LeafJoin
    <3>3. Len(big[l].keys) + j \in 1 .. Len(small[l].keys)
      BY <2>7, <3>1
    <3> QED
      BY <2>3, <2>5, <3>2, <3>3
  <2> QED
    BY <1>4, <2>4, <2>5
<1>5. CASE x # l /\ x # r
  BY <1>2, <1>3, <1>5 DEF Fresh
<1> QED
  BY <1>4, <1>5

(* The child l of p is full and goes half to r; p has room for the key.    *)
CutInHalf(pg, p, i, l, r, at, m) ==
  /\ p \in DOMAIN pg /\ pg[p].inner /\ i \in 1 .. Len(pg[p].keys) + 1 /\ l = ChildAt(pg, p, i)
  /\ r \in PageIds /\ r \notin DOMAIN pg
  /\ Len(pg[l].keys) = MaxSize(pg[l]) /\ at = SplitIndex(MaxSize(pg[l])) /\ m = pg[l].keys[at]
  /\ ~IsFull(pg[p])
SizedBut(pg, root, l) ==
  \A x \in DOMAIN pg : x # l => Len(pg[x].keys) <= MaxSize(pg[x]) /\ (x # root => ~IsTooEmpty(pg[x]))

(* A full child of a page can be cut in half. *)
LEMMA FullIsToSplit ==
  ASSUME NEW pg, NEW root, NEW lo, NEW hi, NEW h, NEW odd, NEW k, Tree(pg, root, lo, hi, h, odd, k),
         NEW p, NEW i, NEW l, NEW r, NEW at, NEW m, CutInHalf(pg, p, i, l, r, at, m)
  PROVE  ToSplit(pg, p, i, l, r, at, m) /\ l \in DOMAIN pg /\ l # p /\ l # root /\ h[p] = h[l] + 1
<1>1. /\ Skeleton(pg, lo, hi, h) /\ p \in DOMAIN pg /\ pg[p].inner /\ i \in 1 .. Len(pg[p].keys) + 1
      /\ l = ChildAt(pg, p, i) /\ root \in DOMAIN pg
  BY TreeFacts DEF CutInHalf
<1>2. l \in DOMAIN pg /\ h[p] = h[l] + 1
  BY <1>1, ChildIsBelow
<1>3. /\ pg[l].inner \in BOOLEAN /\ Len(pg[l].keys) \in Nat /\ h[l] \in Nat /\ h[p] \in Nat
      /\ h[root] \in Nat /\ h[p] <= h[root]
  BY <1>1, <1>2, TreeFacts
<1>4. l # p /\ l # root
  BY <1>2, <1>3
<1>5. at \in 1 .. Len(pg[l].keys) /\ (~pg[l].inner => at < Len(pg[l].keys))
  <2> DEFINE n == pg[l]
  <2>1. n.inner \in BOOLEAN /\ Len(n.keys) \in Nat /\ Len(n.keys) = MaxSize(n) /\ at = SplitIndex(MaxSize(n))
    BY <1>3 DEF CutInHalf
  <2> HIDE DEF n
  <2>2. at \in 1 .. Len(n.keys) /\ (~n.inner => at < Len(n.keys))
    BY <2>1, HalvesSized
  <2> QED
    BY <2>2 DEF n
<1> QED
  BY <1>2, <1>4, <1>5 DEF ToSplit, CutInHalf

(* What a split leaves: a sound tree, no half full or too empty. *)
LEMMA FullSplits ==
  ASSUME NEW small, NEW root, NEW lo, NEW hi, NEW h, NEW k \in Int, Tree(small, root, lo, hi, h, 0, k),
         NEW p, NEW i, NEW l, NEW r, NEW at, NEW m, CutInHalf(small, p, i, l, r, at, m),
         NEW big, HasSplit(small, big, p, i, l, r, at, m),
         NEW lo2, NEW hi2, NEW h2, Halved(lo, hi, h, lo2, hi2, h2, l, r, m),
         SizedBut(small, root, l), NEW key, Fresh(small, key)
  PROVE  /\ Tree(big, root, lo2, hi2, h2, 0, k) /\ Sized(big, root) /\ Fresh(big, key) /\ SameHeld(small, big)
         /\ ~IsFull(big[l]) /\ ~IsFull(big[r]) /\ Len(big[p].keys) > 0
<1>1. ToSplit(small, p, i, l, r, at, m) /\ l \in DOMAIN small /\ l # p /\ l # root
  BY FullIsToSplit
<1>2. /\ Tree(big, root, lo2, hi2, h2, 0, k) /\ Divides(small, big, p, i, l, r, m)
      /\ big[l].inner = small[l].inner /\ big[r].inner = small[l].inner
      /\ Len(big[l].keys) = (IF small[l].inner THEN at - 1 ELSE at)
      /\ Len(big[r].keys) = Len(small[l].keys) - at
  BY <1>1, SplitTree
<1>3. DOMAIN small \subseteq PageIds /\ \A x \in DOMAIN small : small[x].inner \in BOOLEAN /\ Len(small[x].keys) \in Nat
  BY TreeFacts
<1>4. Fresh(big, key)
  BY <1>2, <1>3, DivisionKeepsFresh
<1>5. /\ Len(big[l].keys) <= MaxSize(big[l]) /\ ~IsFull(big[l]) /\ ~IsTooEmpty(big[l])
      /\ Len(big[r].keys) <= MaxSize(big[r]) /\ ~IsFull(big[r]) /\ ~IsTooEmpty(big[r])
  <2> DEFINE n == small[l]
             a == big[l]
             b == big[r]
  <2>1. n.inner \in BOOLEAN /\ Len(n.keys) \in Nat /\ Len(n.keys) = MaxSize(n) /\ at = SplitIndex(MaxSize(n))
    BY <1>1, <1>3 DEF CutInHalf
  <2>2. /\ a.inner = n.inner /\ b.inner = n.inner
        /\ Len(a.keys) = (IF n.inner THEN at - 1 ELSE at) /\ Len(b.keys) = Len(n.keys) - at
    BY <1>2
  <2> HIDE DEF n, a, b
  <2>3. \A q : /\ q.inner = n.inner
               /\ \/ Len(q.keys) = IF n.inner THEN at - 1 ELSE at
                  \/ Len(q.keys) = Len(n.keys) - at
               => Len(q.keys) <= MaxSize(q) /\ ~IsFull(q) /\ ~IsTooEmpty(q)
    BY <2>1, HalvesSized
  <2>4. Len(a.keys) <= MaxSize(a) /\ ~IsFull(a) /\ ~IsTooEmpty(a)
    BY <2>2, <2>3
  <2>5. Len(b.keys) <= MaxSize(b) /\ ~IsFull(b) /\ ~IsTooEmpty(b)
    BY <2>2, <2>3
  <2> QED
    BY <2>4, <2>5 DEF a, b
<1>6. /\ p \in DOMAIN small /\ small[p].inner /\ big[p].inner /\ Len(big[p].keys) = Len(small[p].keys) + 1
      /\ Len(small[p].keys) \in Nat
  <2>1. Len(small[p].keys) \in Nat /\ Len(big[p].keys) = Len(small[p].keys) + 1
    BY <1>2, <1>3, DividesFacts
  <2> QED
    BY <1>2, <2>1 DEF Divides
<1>7. Len(big[p].keys) > 0 /\ Len(big[p].keys) <= MaxSize(big[p]) /\ (p # root => ~IsTooEmpty(big[p]))
  <2>1. /\ (IsFull(small[p]) <=> Len(small[p].keys) >= N - 1)
        /\ (IsTooEmpty(small[p]) <=> Len(small[p].keys) < Half - 1)
    BY <1>6, InnerSizes
  <2>2. MaxSize(big[p]) = N - 1 /\ (IsTooEmpty(big[p]) <=> Len(big[p].keys) < Half - 1)
    BY <1>6, InnerSizes
  <2>3. ~IsFull(small[p]) /\ (p # root => ~IsTooEmpty(small[p]))
    BY <1>1, <1>6 DEF CutInHalf, SizedBut
  <2>4. N \in Nat /\ Half \in Nat
    BY HalfIs
  <2> QED
    BY <1>6, <2>1, <2>2, <2>3, <2>4
<1>8. /\ DOMAIN big = DOMAIN small \cup {r}
      /\ \A x \in DOMAIN small : x # l /\ x # p => big[x] = small[x]
  BY <1>2 DEF Divides
<1>9. Sized(big, root)
  BY <1>5, <1>7, <1>8 DEF Sized, SizedBut
<1>10. SameHeld(small, big)
  BY <1>2, <1>3, DivisionKeepsHeld
<1> QED
  BY <1>2, <1>4, <1>5, <1>7, <1>9, <1>10

(* The two halves, and the parent, among the pages. *)
LEMMA SplitIs ==
  ASSUME NEW id, NEW new, id # new, NEW c, c = Split(id, new)
  PROVE  /\ DOMAIN c = {id, new}
         /\ SplitAt(pages[id], c[id], c[new], SplitIndex(MaxSize(pages[id])), new)
<1> DEFINE n == pages[id]
           at == SplitIndex(MaxSize(n))
<1> HIDE DEF at
<1>1. CASE n.inner
  <2> DEFINE l == InnerNode(SubSeq(n.keys, 1, at - 1), SubSeq(n.child_ids, 1, at))
             r == InnerNode(SubSeq(n.keys, at + 1, Len(n.keys)),
                            SubSeq(n.child_ids, at + 1, Len(n.child_ids)))
  <2>1. c = Page(id, l) ++ Page(new, r)
    BY <1>1 DEF Split, at
  <2> HIDE DEF l, r
  <2>2. DOMAIN c = {id, new} /\ c[id] = l /\ c[new] = r
    BY <2>1 DEF Page, ++
  <2>3. SplitAt(n, c[id], c[new], at, new)
    BY <1>1, <2>2 DEF SplitAt, l, r
  <2> QED
    BY <2>2, <2>3 DEF at
<1>2. CASE ~n.inner
  <2> DEFINE l == OuterNode(SubSeq(n.keys, 1, at), SubSeq(n.values, 1, at), new)
             r == OuterNode(SubSeq(n.keys, at + 1, Len(n.keys)),
                            SubSeq(n.values, at + 1, Len(n.keys)), n.next_lef_id)
  <2>1. c = Page(id, l) ++ Page(new, r)
    BY <1>2 DEF Split, at
  <2> HIDE DEF l, r
  <2>2. DOMAIN c = {id, new} /\ c[id] = l /\ c[new] = r
    BY <2>1 DEF Page, ++
  <2>3. SplitAt(n, c[id], c[new], at, new)
    BY <1>2, <2>2 DEF SplitAt, l, r
  <2> QED
    BY <2>2, <2>3 DEF at
<1> QED
  BY <1>1, <1>2

HalvesAndParent(big, id, new, p, q) ==
  big = With(Split(id, new) ++ Page(p, q)) /\ id # new /\ p # id /\ p # new
WithHalves(big, id, new, p, q) ==
  /\ DOMAIN big = DOMAIN pages \cup {id, new, p} /\ big[p] = q
  /\ SplitAt(pages[id], big[id], big[new], SplitIndex(MaxSize(pages[id])), new)
  /\ \A x \in DOMAIN pages : x # id /\ x # new /\ x # p => big[x] = pages[x]
(* The pages a split writes. *)
LEMMA WithSplit ==
  ASSUME NEW id, NEW new, NEW p, NEW q, NEW big, HalvesAndParent(big, id, new, p, q)
  PROVE  WithHalves(big, id, new, p, q)
<1> DEFINE c1 == Split(id, new)
           c == c1 ++ Page(p, q)
<1>0. c1 = Split(id, new) /\ id # new /\ p # id /\ p # new
  BY DEF HalvesAndParent
<1>00. c = c1 ++ Page(p, q)
  OBVIOUS
<1>3. big = With(c)
  BY DEF HalvesAndParent
<1> HIDE DEF c, c1
<1>1. /\ DOMAIN c1 = {id, new}
      /\ SplitAt(pages[id], c1[id], c1[new], SplitIndex(MaxSize(pages[id])), new)
  BY <1>0, SplitIs
<1>2. DOMAIN c = {id, new, p} /\ c[id] = c1[id] /\ c[new] = c1[new] /\ c[p] = q
  BY <1>00, <1>0, <1>1 DEF Page, ++
<1>4. /\ DOMAIN big = DOMAIN pages \cup DOMAIN c
      /\ \A x \in DOMAIN c : big[x] = c[x]
      /\ \A x \in DOMAIN pages : x \notin DOMAIN c => big[x] = pages[x]
  BY <1>3 DEF With, ++
<1> QED
  BY <1>1, <1>2, <1>4 DEF WithHalves

(* There are labels for the halves. *)
LEMMA HalvedLabels ==
  ASSUME NEW lo, NEW hi, NEW h, Labels(lo, hi, h), NEW l \in PageIds, NEW r \in PageIds, l # r, NEW m \in Int
  PROVE  \E lo2, hi2, h2 :
           /\ Halved(lo, hi, h, lo2, hi2, h2, l, r, m)
           /\ \A x \in PageIds : x # l /\ x # r => Same(lo, hi, h, lo2, hi2, h2, x)
           /\ lo2[l] = lo[l] /\ hi2[l] = m /\ h2[l] = h[l]
           /\ lo2[r] = m /\ hi2[r] = hi[l] /\ h2[r] = h[l]
<1> DEFINE lo2 == [lo EXCEPT ![r] = m]
           hi2 == [hi EXCEPT ![l] = m, ![r] = hi[l]]
           h2 == [h EXCEPT ![r] = h[l]]
<1>1. Halved(lo, hi, h, lo2, hi2, h2, l, r, m)
  BY DEF Halved
<1>2. /\ \A x \in PageIds : x # l /\ x # r => lo2[x] = lo[x] /\ hi2[x] = hi[x] /\ h2[x] = h[x]
      /\ lo2[l] = lo[l] /\ hi2[l] = m /\ h2[l] = h[l]
      /\ lo2[r] = m /\ hi2[r] = hi[l] /\ h2[r] = h[l]
  BY DEF Labels
<1> HIDE DEF lo2, hi2, h2
<1> QED
  BY <1>1, <1>2 DEF Same

(* A full child is split. *)
LEMMA SplitChildKeeps == IInv /\ SplitChild => Kept /\ Few /\ SameHeld(pages, pages')
<1> SUFFICES ASSUME IInv, SplitChild PROVE Kept /\ Few /\ SameHeld(pages, pages')
  OBVIOUS
<1> DEFINE i == Index
           at == SplitIndex(MaxSize(pages[child]))
           m == SplitKey(child)
           q == InnerInsert(pages[node], m, other)
           big == With(Split(child, other) ++ Page(node, q))
           next == NextPage(q, op.key)
<1>1. PICK lo, hi, h, odd, k : Labelled(lo, hi, h, odd, k)
  BY DEF IInv
<1>2. /\ pc = "split" /\ root_id' = root_id /\ pages' = big
      /\ Effect(big, {next}, {node, child, other}, {node, child, other})
      /\ pc' = op.kind /\ node' = next /\ child' = 0 /\ other' = 0 /\ op' = op
  BY DEF SplitChild, Recur, Effect
<1>3. Splitting(lo, hi, odd)
  BY <1>1, <1>2, Known, Places
<1>4. /\ op \in Ops /\ op.kind = "insert" /\ node \in DOMAIN pages /\ odd = 0 /\ Here(lo, hi, odd, node)
      /\ Fresh(pages, op.key) /\ ~NodeIsLeaf /\ ~IsFull(pages[node]) /\ child = NextChild
      /\ IsFull(pages[child]) /\ other \in PageIds \ DOMAIN pages
  BY <1>3 DEF Splitting, OpIs
<1>5. /\ child \in DOMAIN pages /\ child # node /\ child # root_id /\ h[node] = h[child] + 1
      /\ i \in 1 .. Len(pages[node].keys) + 1 /\ child = ChildAt(pages, node, i) /\ Here(lo, hi, odd, child)
  BY <1>1, <1>4, GoesTo
<1>6. /\ k \in Int /\ Tree(pages, root_id, lo, hi, h, 0, k) /\ Labels(lo, hi, h)
      /\ Skeleton(pages, lo, hi, h) /\ Leaves(pages, lo, hi, h, 0, k) /\ DOMAIN pages \subseteq PageIds
      /\ Len(pages[child].keys) \in Nat /\ pages[node].inner /\ Len(pages[node].keys) \in Nat
      /\ lo[node] \in Int /\ hi[node] \in Int /\ h[node] \in Nat /\ pages[child].inner \in BOOLEAN
      /\ root_id \in DOMAIN pages
  BY <1>1, <1>4, <1>5, Known, TreeFacts DEF NodeIsLeaf
<1>7. Len(pages[child].keys) = MaxSize(pages[child])
  <2>1. Len(pages[child].keys) <= MaxSize(pages[child]) /\ Len(pages[child].keys) >= MaxSize(pages[child])
    BY <1>4, <1>5 DEF IInv, Sized, IsFull
  <2>2. MaxSize(pages[child]) \in Int
    BY NodeSizeAssumption DEF MaxSize
  <2> QED
    BY <1>6, <2>1, <2>2
<1>8. m = pages[child].keys[at]
  BY DEF SplitKey
<1>14. child # other /\ node # child /\ node # other
  BY <1>4, <1>5
<1>9. q = InnerInsert(pages[node], m, other) /\ HalvesAndParent(big, child, other, node, q)
      /\ next = NextPage(q, op.key) /\ at = SplitIndex(MaxSize(pages[child]))
  BY <1>14 DEF HalvesAndParent
<1> HIDE DEF big, q, m, next, i, at
<1>10. CutInHalf(pages, node, i, child, other, at, m)
  BY <1>4, <1>5, <1>6, <1>7, <1>8, <1>9 DEF CutInHalf
<1>11. ToSplit(pages, node, i, child, other, at, m)
  BY <1>6, <1>10, FullIsToSplit
<1>12. /\ ShapeOK(q) /\ q.inner /\ KeysWith(q, pages[node], i, m)
       /\ IsWith(q.child_ids, pages[node].child_ids, i + 1, other)
  BY <1>6, <1>9, <1>11, InsertsSeparator
<1>13. m \in Int /\ lo[child] < m /\ m < hi[child]
  BY <1>6, <1>11, SplitKeyInside
<1>15. /\ DOMAIN big = DOMAIN pages \cup {child, other, node} /\ big[node] = q
       /\ SplitAt(pages[child], big[child], big[other], SplitIndex(MaxSize(pages[child])), other)
       /\ \A x \in DOMAIN pages : x # child /\ x # other /\ x # node => big[x] = pages[x]
  <2> DEFINE c == child
             o == other
             p == node
  <2>1. HalvesAndParent(big, c, o, p, q)
    BY <1>9, <1>14
  <2> HIDE DEF c, o, p
  <2>2. WithHalves(big, c, o, p, q)
    BY <2>1, WithSplit
  <2> QED
    BY <2>2 DEF c, o, p, WithHalves
<1>16. DOMAIN big = DOMAIN pages \cup {other}
  BY <1>4, <1>5, <1>15
<1>17. HasSplit(pages, big, node, i, child, other, at, m)
  BY <1>4, <1>9, <1>12, <1>15, <1>16 DEF HasSplit
<1>18. PICK lo2, hi2, h2 :
           /\ Halved(lo, hi, h, lo2, hi2, h2, child, other, m)
           /\ \A x \in PageIds : x # child /\ x # other => Same(lo, hi, h, lo2, hi2, h2, x)
           /\ lo2[child] = lo[child] /\ hi2[child] = m /\ h2[child] = h[child]
           /\ lo2[other] = m /\ hi2[other] = hi[child] /\ h2[other] = h[child]
  <2>1. child \in PageIds /\ other \in PageIds
    BY <1>4, <1>5, <1>6
  <2> QED
    BY <1>6, <1>13, <1>14, <2>1, HalvedLabels
<1>19. SizedBut(pages, root_id, child)
  BY DEF IInv, Sized, SizedBut
<1>20. /\ Tree(big, root_id, lo2, hi2, h2, 0, k) /\ Sized(big, root_id) /\ Fresh(big, op.key)
       /\ ~IsFull(big[child]) /\ ~IsFull(big[other]) /\ Len(big[node].keys) > 0 /\ SameHeld(pages, big)
  BY <1>4, <1>6, <1>10, <1>17, <1>18, <1>19, FullSplits
<1>21. /\ next \in DOMAIN big /\ h2[node] = h2[next] + 1 /\ lo2[next] < op.key /\ op.key <= hi2[next]
  <2>1. Skeleton(big, lo2, hi2, h2) /\ node \in DOMAIN big /\ big[node].inner
    BY <1>4, <1>12, <1>15, <1>16, <1>20, TreeFacts
  <2>2. lo2[node] = lo[node] /\ hi2[node] = hi[node]
    BY <1>4, <1>6, <1>14, <1>18 DEF Same
  <2>3. op.key \in Int /\ lo2[node] < op.key /\ op.key <= hi2[node]
    BY <1>4, <2>2, OpFacts DEF Here
  <2>4. next = NextPage(big[node], op.key)
    BY <1>9, <1>15
  <2> QED
    BY <2>1, <2>3, <2>4, Routing
<1>22. next = child \/ next = other
  <2> DEFINE D == DOMAIN big
  <2>1. /\ DOMAIN big \subseteq PageIds /\ Labels(lo2, hi2, h2) /\ Laminar(DOMAIN big, lo2, hi2, h2)
    BY <1>20, TreeFacts DEF Skeleton
  <2>2. op.key \in Int /\ lo[child] < op.key /\ op.key <= hi[child]
    BY <1>4, <1>5, OpFacts DEF Here
  <2>3. h2[next] = h[child]
    <3>1. h2[node] = h[node]
      BY <1>4, <1>6, <1>14, <1>18 DEF Same
    <3>2. h2[next] \in Nat /\ h[child] \in Nat
      BY <1>1, <1>5, <1>20, <1>21, Known, TreeFacts
    <3> QED
      BY <1>5, <1>21, <3>1, <3>2
  <2>4. child \in DOMAIN big /\ other \in DOMAIN big
    BY <1>5, <1>16
  <2>7. /\ D \subseteq PageIds /\ Labels(lo2, hi2, h2) /\ Laminar(D, lo2, hi2, h2) /\ next \in D
        /\ child \in D /\ other \in D /\ op.key \in Int /\ lo2[next] < op.key /\ op.key <= hi2[next]
    BY <1>21, <2>1, <2>2, <2>4
  <2> HIDE DEF D
  <2>5. CASE op.key <= m
    <3>1. h2[next] = h2[child] /\ lo2[child] < op.key /\ op.key <= hi2[child]
      BY <1>18, <2>2, <2>3, <2>5
    <3> QED
      BY ONLY <2>7, <3>1, OneHolder
  <2>6. CASE ~(op.key <= m)
    <3>1. h2[next] = h2[other] /\ lo2[other] < op.key /\ op.key <= hi2[other]
      BY <1>13, <1>18, <2>2, <2>3, <2>6
    <3> QED
      BY ONLY <2>7, <3>1, OneHolder
  <2> QED
    BY <2>5, <2>6
<1>23. Labelled(lo2, hi2, h2, 0, k)'
  <2>1. Inserting(lo2, hi2, 0)'
    <3>1. Here(lo2, hi2, 0, node)'
      BY <1>2, <1>21 DEF Here
    <3>2. OpIs("insert")'
      BY <1>2, <1>4, <1>21 DEF OpIs
    <3>3. Fresh(pages, op.key)' /\ ~IsFull(pages[node])'
      BY <1>2, <1>20, <1>22 DEF Fresh
    <3> QED
      BY <1>2, <1>4, <3>1, <3>2, <3>3 DEF Inserting
  <2>2. Registers(lo2, hi2, h2, 0)'
    BY <2>1 DEF Registers
  <2> QED
    BY <1>2, <1>6, <1>20, <2>2 DEF Labelled
<1>24. RootFilled'
  <2>1. ~(big[root_id].inner /\ big[root_id].keys = << >>)
    <3>1. CASE root_id = node
      <4>1. Len(big[root_id].keys) > 0
        BY <1>20, <3>1
      <4>2. big[root_id].keys # << >>
        BY <4>1
      <4> QED
        BY <4>2
    <3>2. CASE root_id # node
      <4>1. big[root_id] = pages[root_id]
        BY <1>4, <1>5, <1>6, <1>15, <3>2
      <4> QED
        BY <1>2, <4>1 DEF IInv, RootFilled
    <3> QED
      BY <3>1, <3>2
  <2> QED
    BY <1>2, <2>1 DEF RootFilled
<1>25. NumbersOK'
  <2>1. next \in 0 .. MaxPages /\ 0 \in 0 .. MaxPages
    <3>1. next \in PageIds
      BY <1>4, <1>5, <1>6, <1>22
    <3> QED
      BY <3>1, MaxPagesAssumption DEF PageIds
  <2> QED
    BY <1>2, <2>1 DEF NumbersOK
<1>26. Fixed = {node, child, other} /\ Fixed' = {next}
  BY <1>2, <1>4 DEF Fixed
<1>27. Turns(Fixed, {next}, {node, child, other}, Fixed')
  BY <1>26 DEF Turns
<1>28. \A x \in DOMAIN pages \cap DOMAIN big : x \notin {node, child, other} => big[x] = pages[x]
  BY <1>15
<1>29. Kept
  <2>1. Sized(pages', root_id')
    BY <1>2, <1>20
  <2> QED
    BY <1>2, <1>23, <1>24, <1>25, <1>27, <1>28, <2>1, Lands
<1>30. Fixed \cup Fixed' \subseteq {node, child, other}
  BY <1>22, <1>26
<1> QED
  BY <1>2, <1>20, <1>29, <1>30 DEF Few

(* A full root gets a parent without keys first, which then has it split.  *)
LEMMA ShortTuples ==
  ASSUME NEW S, NEW a \in S, NEW b \in S
  PROVE  /\ <<a>> \in Seq(S) /\ Len(<<a>>) = 1 /\ <<a>>[1] = a
         /\ <<a, b>> \in Seq(S) /\ Len(<<a, b>>) = 2 /\ <<a, b>>[1] = a /\ <<a, b>>[2] = b
         /\ << >> \in Seq(S) /\ Len(<< >>) = 0
  OBVIOUS
(* One element after none. *)
LEMMA OneMore ==
  ASSUME NEW t, NEW s, Len(t) = 1, Len(s) = 0, NEW e, t[1] = e
  PROVE  IsWith(t, s, 1, e)
<1>1. 1 .. Len(s) + 1 = {1}
  OBVIOUS
<1> QED
  BY <1>1 DEF IsWith
(* A second element after the first. *)
LEMMA TwoOfOne ==
  ASSUME NEW t, NEW s, Len(t) = 2, Len(s) = 1, NEW e, t[1] = s[1], t[2] = e
  PROVE  IsWith(t, s, 2, e)
<1>1. 1 .. Len(s) + 1 = {1, 2}
  OBVIOUS
<1> QED
  BY <1>1 DEF IsWith
NewRoot(q, n, m, a, b) == q = InnerNode(<<m>>, <<a, b>>) /\ n = InnerNode(<< >>, <<a>>)
(* A root of one key and two children. *)
LEMMA NewRootIs ==
  ASSUME NEW m \in Keys, NEW a \in PageIds, NEW b \in PageIds, NEW q, NEW n, NewRoot(q, n, m, a, b)
  PROVE  /\ ShapeOK(q) /\ q.inner /\ KeysWith(q, n, 1, m) /\ IsWith(q.child_ids, n.child_ids, 2, b)
<1> DEFINE ks == q.keys
           cs == q.child_ids
           ks0 == n.keys
           cs0 == n.child_ids
<1>1. /\ q.inner = TRUE /\ ks = <<m>> /\ cs = <<a, b>> /\ ks0 = << >> /\ cs0 = <<a>>
  BY DEF NewRoot, InnerNode
<1> HIDE DEF ks, cs, ks0, cs0
<1>2. ks \in Seq(Keys) /\ Len(ks) = 1 /\ ks[1] = m
  BY <1>1, ShortTuples
<1>3. cs \in Seq(PageIds) /\ Len(cs) = 2 /\ cs[1] = a /\ cs[2] = b
  BY <1>1, ShortTuples
<1>4. Len(ks0) = 0 /\ Len(cs0) = 1 /\ cs0[1] = a
  BY <1>1, ShortTuples
<1>5. ShapeOK(q)
  <2>1. Ascending(ks)
    <3>1. 1 .. Len(ks) = {1}
      BY <1>2
    <3> QED
      BY <3>1 DEF Ascending
  <2>2. q.inner \in BOOLEAN /\ q.inner /\ Len(cs) = Len(ks) + 1
    <3>1. q.inner = TRUE
      BY <1>1
    <3>2. Len(cs) = Len(ks) + 1
      BY <1>2, <1>3
    <3> QED
      BY <3>1, <3>2
  <2>3. IsInner(q, Keys, PageIds)
    BY <1>2, <1>3, <2>1, <2>2 DEF IsInner, ks, cs
  <2> QED
    BY <2>2, <2>3 DEF ShapeOK
<1>6. IsWith(ks, ks0, 1, m)
  BY <1>2, <1>4, OneMore
<1>7. IsWith(cs, cs0, 2, b)
  BY <1>3, <1>4, TwoOfOne
<1> QED
  BY <1>1, <1>5, <1>6, <1>7 DEF KeysWith, ks, cs, ks0, cs0

(* A function with one value changed.                                      *)
LEMMA ExceptInto ==
  ASSUME NEW D, NEW V, NEW f \in [D -> V], NEW x, NEW e \in V
  PROVE  [f EXCEPT ![x] = e] \in [D -> V]
  OBVIOUS

(* The root is split: it becomes the child of a root without keys, which   *)
(* is then split.                                                          *)
LEMMA SplitRootKeeps == IInv /\ SplitRoot => Kept /\ Few /\ SameHeld(pages, pages')
<1> SUFFICES ASSUME IInv, SplitRoot PROVE Kept /\ Few /\ SameHeld(pages, pages')
  OBVIOUS
<1> DEFINE s == NewId(DOMAIN pages)
           t == NewId(DOMAIN pages \cup {s})
           m == SplitKey(node)
           q == InnerNode(<<m>>, <<node, s>>)
           n == InnerNode(<< >>, <<node>>)
           at == SplitIndex(MaxSize(pages[node]))
           big == With(Split(node, s) ++ Page(t, q))
<1>1. PICK lo, hi, h, odd, k : Labelled(lo, hi, h, odd, k)
  BY DEF IInv
<1>2. /\ pc = "insert" /\ node = root_id /\ IsFull(pages[node]) /\ Room(DOMAIN pages \cup {s})
      /\ Effect(big, {t}, {node}, {node}) /\ pages' = big /\ root_id' = t
      /\ pc' = op.kind /\ node' = t /\ child' = 0 /\ other' = 0 /\ op' = op
  BY DEF SplitRoot, Recur, Effect
<1>3. Inserting(lo, hi, odd)
  BY <1>1, <1>2, Known, Places
<1>4. /\ op \in Ops /\ op.kind = "insert" /\ node \in DOMAIN pages /\ odd = 0 /\ Fresh(pages, op.key)
  BY <1>3 DEF Inserting, OpIs
<1>5. /\ k \in Int /\ Tree(pages, root_id, lo, hi, h, 0, k) /\ Labels(lo, hi, h) /\ DOMAIN pages \subseteq PageIds
      /\ Len(pages[node].keys) \in Nat /\ h[node] \in Nat
  BY <1>1, <1>4, Known, TreeFacts
<1>6. /\ s \in PageIds /\ s \notin DOMAIN pages /\ t \in PageIds /\ t \notin DOMAIN pages /\ t # s
      /\ node \in PageIds /\ node # s /\ node # t
  <2>1. PICK id \in PageIds : id \notin DOMAIN pages \cup {s}
    BY <1>2 DEF Room
  <2>2. s \in PageIds /\ s \notin DOMAIN pages
    BY <2>1 DEF NewId
  <2> HIDE DEF s
  <2>3. t \in PageIds /\ t \notin DOMAIN pages \cup {s}
    BY <2>1 DEF NewId
  <2> QED
    BY <1>4, <1>5, <2>2, <2>3
<1>7. Len(pages[node].keys) = MaxSize(pages[node])
  <2>1. Len(pages[node].keys) <= MaxSize(pages[node]) /\ Len(pages[node].keys) >= MaxSize(pages[node])
    BY <1>2, <1>4 DEF IInv, Sized, IsFull
  <2>2. MaxSize(pages[node]) \in Int
    BY NodeSizeAssumption DEF MaxSize
  <2> QED
    BY <1>5, <2>1, <2>2
<1>8. /\ m = pages[node].keys[at] /\ at = SplitIndex(MaxSize(pages[node]))
      /\ n = InnerNode(<< >>, <<node>>) /\ q = InnerNode(<<m>>, <<node, s>>)
  BY DEF SplitKey
<1>9. HalvesAndParent(big, node, s, t, q)
  BY <1>6 DEF HalvesAndParent
<1> HIDE DEF s, t, m, q, n, at, big
<1> DEFINE mid == [x \in DOMAIN pages \cup {t} |-> IF x = t THEN n ELSE pages[x]]
           lo1 == [lo EXCEPT ![t] = -1]
           hi1 == [hi EXCEPT ![t] = Top]
           h1 == [h EXCEPT ![t] = h[root_id] + 1]
<1>10. DOMAIN mid = DOMAIN pages \cup {t} /\ mid[t] = n /\ \A x \in DOMAIN pages : mid[x] = pages[x]
  BY <1>6
<1>11. /\ Labels(lo1, hi1, h1) /\ \A x \in DOMAIN pages : Same(lo, hi, h, lo1, hi1, h1, x)
       /\ lo1[t] = -1 /\ hi1[t] = Top /\ h1[t] = h[root_id] + 1
  <2>1. Top \in Int /\ h[root_id] + 1 \in Nat
    BY <1>2, <1>5, TopIsAbove
  <2>2. Labels(lo1, hi1, h1)
    <3>1. lo \in [PageIds -> Int] /\ hi \in [PageIds -> Int] /\ h \in [PageIds -> Nat]
      BY <1>5 DEF Labels
    <3>2. lo1 \in [PageIds -> Int] /\ hi1 \in [PageIds -> Int] /\ h1 \in [PageIds -> Nat]
      <4> HIDE DEF lo1, hi1, h1
      <4>1. lo1 \in [PageIds -> Int]
        BY ONLY <3>1, -1 \in Int, ExceptInto DEF lo1
      <4>2. hi1 \in [PageIds -> Int]
        BY ONLY <2>1, <3>1, ExceptInto DEF hi1
      <4>3. h1 \in [PageIds -> Nat]
        BY ONLY <2>1, <3>1, ExceptInto DEF h1
      <4> QED
        BY ONLY <4>1, <4>2, <4>3
    <3> QED
      BY ONLY <3>2 DEF Labels
  <2>3. lo1[t] = -1 /\ hi1[t] = Top /\ h1[t] = h[root_id] + 1
    BY <1>5, <1>6 DEF Labels
  <2>4. \A x \in DOMAIN pages : lo1[x] = lo[x] /\ hi1[x] = hi[x] /\ h1[x] = h[x]
    BY <1>5, <1>6 DEF Labels
  <2> QED
    BY <2>2, <2>3, <2>4 DEF Same
<1> HIDE DEF mid, lo1, hi1, h1
<1>12. Tree(mid, t, lo1, hi1, h1, 0, k)
  <2>1. mid[t] = InnerNode(<< >>, <<root_id>>) /\ t \in PageIds \ DOMAIN pages
    BY <1>2, <1>6, <1>8, <1>10
  <2> QED
    BY <1>5, <1>10, <1>11, <2>1, GrowRoot
<1>13. n.inner /\ Len(n.keys) = 0 /\ n.child_ids[1] = node
  <2>1. n.inner = TRUE /\ n.keys = << >> /\ n.child_ids = <<node>>
    BY <1>8 DEF InnerNode
  <2> QED
    BY <2>1, <1>6, ShortTuples
<1>14. CutInHalf(mid, t, 1, node, s, at, m)
  <2>1. ~IsFull(n)
    <3>1. N \in Nat /\ N > 3
      BY NodeSizeAssumption
    <3> QED
      BY <1>13, <3>1, InnerSizes
  <2>2. node = ChildAt(mid, t, 1) /\ 1 \in 1 .. Len(mid[t].keys) + 1 /\ mid[node] = pages[node]
    BY <1>4, <1>10, <1>13 DEF ChildAt
  <2> QED
    BY <1>6, <1>7, <1>8, <1>10, <1>13, <2>1, <2>2 DEF CutInHalf
<1>15. m \in Int /\ m \in Keys
  <2>1. ToSplit(mid, t, 1, node, s, at, m)
    BY <1>12, <1>14, FullIsToSplit
  <2>2. Skeleton(mid, lo1, hi1, h1) /\ Leaves(mid, lo1, hi1, h1, 0, k)
    BY <1>12, TreeFacts
  <2> QED
    BY <2>1, <2>2, SplitKeyInside
<1>16. /\ ShapeOK(q) /\ q.inner /\ KeysWith(q, n, 1, m) /\ IsWith(q.child_ids, n.child_ids, 2, s)
  <2> DEFINE c == node
  <2>1. NewRoot(q, n, m, c, s) /\ m \in Keys /\ c \in PageIds /\ s \in PageIds
    BY <1>6, <1>8, <1>15 DEF NewRoot
  <2> HIDE DEF c
  <2> QED
    BY <2>1, NewRootIs
<1>17. WithHalves(big, node, s, t, q)
  <2> DEFINE c == node
  <2>1. HalvesAndParent(big, c, s, t, q)
    BY <1>9
  <2> HIDE DEF c
  <2>2. WithHalves(big, c, s, t, q)
    BY <2>1, WithSplit
  <2> QED
    BY <2>2 DEF c
<1>18. /\ DOMAIN big = DOMAIN pages \cup {node, s, t} /\ big[t] = q
       /\ SplitAt(pages[node], big[node], big[s], at, s)
       /\ \A x \in DOMAIN pages : x # node /\ x # s /\ x # t => big[x] = pages[x]
  BY <1>8, <1>17 DEF WithHalves
<1>19. HasSplit(mid, big, t, 1, node, s, at, m)
  <2>1. DOMAIN big = DOMAIN mid \cup {s}
    BY <1>4, <1>10, <1>18
  <2>2. \A x \in DOMAIN mid : x # node /\ x # t => big[x] = mid[x]
    BY <1>6, <1>10, <1>18
  <2>3. mid[node] = pages[node] /\ mid[t] = n /\ 1 + 1 = 2
    BY <1>4, <1>10
  <2> QED
    BY <1>16, <1>18, <2>1, <2>2, <2>3 DEF HasSplit
<1>20. PICK lo2, hi2, h2 : Halved(lo1, hi1, h1, lo2, hi2, h2, node, s, m)
  BY <1>6, <1>11, <1>15, HalvedLabels
<1>21. SizedBut(mid, t, node)
  <2>1. Len(n.keys) <= MaxSize(n)
    <3>1. MaxSize(n) = N - 1 /\ N \in Nat /\ N > 3
      BY <1>13, InnerSizes, NodeSizeAssumption
    <3> QED
      BY <1>13, <3>1
  <2>2. Sized(pages, root_id)
    BY DEF IInv
  <2> QED
    BY <1>2, <1>10, <2>1, <2>2 DEF Sized, SizedBut
<1>22. Fresh(mid, op.key)
  BY <1>4, <1>10, <1>13 DEF Fresh
<1>23. /\ Tree(big, t, lo2, hi2, h2, 0, k) /\ Sized(big, t) /\ Fresh(big, op.key) /\ Len(big[t].keys) > 0
       /\ SameHeld(mid, big)
  BY <1>5, <1>12, <1>14, <1>19, <1>20, <1>21, <1>22, FullSplits
<1>24. Labelled(lo2, hi2, h2, 0, k)'
  <2>1. Here(lo2, hi2, 0, node)'
    <3>1. lo2[t] = -1 /\ hi2[t] = Top
      BY <1>23, TreeFacts
    <3>2. -1 < op.key /\ op.key <= Top
      BY <1>4, OpFacts, TopIsAbove
    <3> QED
      BY <1>2, <3>1, <3>2 DEF Here
  <2>2. OpIs("insert")'
    BY <1>2, <1>4, <1>18 DEF OpIs
  <2>3. Inserting(lo2, hi2, 0)'
    BY <1>2, <1>4, <1>23, <2>1, <2>2 DEF Inserting, Fresh
  <2>4. Registers(lo2, hi2, h2, 0)'
    BY <2>3 DEF Registers
  <2> QED
    BY <1>2, <1>5, <1>23, <2>4 DEF Labelled
<1>25. Sized(pages', root_id') /\ RootFilled'
  <2>1. big[t].keys # << >>
    BY <1>23
  <2> QED
    BY <1>2, <1>23, <2>1 DEF RootFilled
<1>26. NumbersOK'
  <2>1. t \in 0 .. MaxPages /\ 0 \in 0 .. MaxPages
    BY <1>6, MaxPagesAssumption DEF PageIds
  <2> QED
    BY <1>2, <2>1 DEF NumbersOK
<1>27. Fixed = {node} /\ Fixed' = {t}
  BY <1>2, <1>4 DEF Fixed
<1>28. Turns(Fixed, {t}, {node}, Fixed')
  BY <1>6, <1>27 DEF Turns
<1>29. \A x \in DOMAIN pages \cap DOMAIN big : x \notin {node} => big[x] = pages[x]
  BY <1>6, <1>18
<1>30. Kept
  BY <1>2, <1>24, <1>25, <1>26, <1>28, <1>29, Lands
<1>31. SameHeld(pages, pages')
  <2>1. SameHeld(pages, mid)
    BY <1>6, <1>10, <1>13, SameLeavesHold
  <2> QED
    BY <1>2, <1>23, <2>1 DEF SameHeld
<1> QED
  BY <1>27, <1>30, <1>31 DEF Few

-----------------------------------------------------------------------------
(* A root without keys: its only child becomes the root. *)
LEMMA ShrinkRootKeeps == IInv /\ ShrinkRoot => Kept /\ Few /\ SameHeld(pages, pages')
<1> SUFFICES ASSUME IInv, ShrinkRoot PROVE Kept /\ Few /\ SameHeld(pages, pages')
  OBVIOUS
<1> DEFINE c == pages[node].child_ids[1]
           pg2 == Without(node, << >>)
<1>1. PICK lo, hi, h, odd, k : Labelled(lo, hi, h, odd, k)
  BY DEF IInv
<1>2. /\ pc = "delete" /\ ~NodeIsLeaf /\ node = root_id /\ pages[node].keys = << >>
      /\ root_id' = c /\ Effect(pg2, {c}, {node}, {}) /\ pages' = pg2
      /\ pc' = op.kind /\ node' = c /\ child' = 0 /\ other' = 0 /\ op' = op
  BY DEF ShrinkRoot, RootIsSpent, Recur, Effect
<1>3. Deleting(lo, hi, odd)
  BY <1>1, <1>2, Known, Places
<1>4. op \in Ops /\ op.kind = "delete" /\ node \in DOMAIN pages /\ Strictly(lo, hi, odd, node)
  BY <1>3 DEF Deleting, OpIs
<1>5. k \in Int /\ Tree(pages, root_id, lo, hi, h, odd, k) /\ pages[root_id].inner /\ (odd # 0 => k = op.key)
      /\ DOMAIN pages \subseteq PageIds
  BY <1>1, <1>2, <1>4, Known, TreeFacts DEF NodeIsLeaf
<1>6. DOMAIN pg2 = DOMAIN pages \ {node} /\ \A x \in DOMAIN pg2 : pg2[x] = pages[x]
  <2>1. DOMAIN << >> = {}
    OBVIOUS
  <2> QED
    BY <2>1 DEF Without, With, ++
<1> HIDE DEF pg2
<1>7. Tree(pg2, c, lo, hi, h, odd, k) /\ c \in DOMAIN pg2 /\ lo[c] = lo[node] /\ hi[c] = hi[node]
  <2> DEFINE c0 == c
  <2>1. RootGone(pages, root_id, pg2, c0)
    BY <1>2, <1>5, <1>6 DEF RootGone
  <2> HIDE DEF c0
  <2>2. Tree(pg2, c0, lo, hi, h, odd, k) /\ c0 \in DOMAIN pg2 /\ lo[c0] = lo[root_id] /\ hi[c0] = hi[root_id]
    BY <1>5, <2>1, ShrinksRoot
  <2> QED
    BY <1>2, <2>2 DEF c0
<1> HIDE DEF c
<1>8. Labelled(lo, hi, h, odd, k)'
  <2>1. Strictly(lo, hi, odd, node)'
    BY <1>2, <1>4, <1>7 DEF Strictly, Here
  <2>2. Deleting(lo, hi, odd)'
    BY <1>2, <1>4, <1>7, <2>1 DEF Deleting, OpIs, Spares
  <2>3. Registers(lo, hi, h, odd)'
    BY <2>2 DEF Registers
  <2> QED
    BY <1>2, <1>5, <1>7, <2>3 DEF Labelled
<1>9. Sized(pages', root_id') /\ RootFilled' /\ NumbersOK'
  <2>1. Sized(pg2, c)
    BY <1>2, <1>6 DEF IInv, Sized
  <2>2. RootFilled'
    BY <1>2, <1>4 DEF RootFilled
  <2>3. c \in 0 .. MaxPages /\ 0 \in 0 .. MaxPages
    BY <1>5, <1>6, <1>7, MaxPagesAssumption DEF PageIds
  <2> QED
    BY <1>2, <2>1, <2>2, <2>3 DEF NumbersOK
<1>10. Fixed = {node} /\ Fixed' = {c}
  BY <1>2, <1>4 DEF Fixed
<1>11. Turns(Fixed, {c}, {node}, Fixed')
  BY <1>6, <1>7, <1>10 DEF Turns
<1>12. Kept
  BY <1>2, <1>6, <1>8, <1>9, <1>11, Lands
<1>13. SameHeld(pages, pages')
  BY <1>2, <1>5, <1>6, SameLeavesHold
<1> QED
  BY <1>10, <1>12, <1>13 DEF Few

(* The key of the node and the last key but one of the leaf. *)
LEMMA ExchangeKeyKeeps == IInv /\ ExchangeKey => Kept /\ Few /\ SameHeld(pages, pages')
<1> SUFFICES ASSUME IInv, ExchangeKey PROVE Kept /\ Few /\ SameHeld(pages, pages')
  OBVIOUS
<1> DEFINE q == op.key
           b == Biggest(pages[other])
           n == Exchange(pages[node], q, b)
           pg2 == With(Page(node, n))
<1>1. PICK lo, hi, h, odd, k : Labelled(lo, hi, h, odd, k)
  BY DEF IInv
<1>2. /\ pc = "find" /\ ~pages[other].inner /\ root_id' = root_id
      /\ Effect(pg2, {child}, {node, other}, {node}) /\ pages' = pg2
      /\ pc' = op.kind /\ node' = child /\ child' = 0 /\ other' = 0 /\ op' = op
  BY DEF ExchangeKey, Recur, Effect
<1>3. Finding(lo, hi, h, odd)
  BY <1>1, <1>2, Known, Places
<1>4. /\ op \in Ops /\ op.kind = "delete" /\ node \in DOMAIN pages /\ odd = 0
      /\ Here(lo, hi, odd, node) /\ ~NodeIsLeaf
      /\ HasKey(pages[node], q) /\ child = NextChild /\ CanDelete(pages[child])
      /\ other \in DOMAIN pages /\ hi[other] = q /\ h[other] <= h[child]
  BY <1>3 DEF Finding, OpIs, Strictly
<1>5. /\ child \in DOMAIN pages /\ h[node] = h[child] + 1 /\ child # node /\ hi[child] = q
      /\ Index \in 1 .. Len(pages[node].keys) + 1
  BY <1>1, <1>4, GoesTo
<1>6. Index \in 1 .. Len(pages[node].keys) /\ q = pages[node].keys[Index] /\ Index = Position(pages[node], q)
  <2>1. Index <= Len(pages[node].keys) /\ pages[node].keys[Index] = q /\ Index = Position(pages[node], q)
    BY <1>4 DEF HasKey, Index
  <2>2. Len(pages[node].keys) \in Nat
    BY <1>1, <1>4, Known, TreeFacts
  <2> QED
    BY <1>5, <2>1, <2>2
<1>7. /\ k \in Int /\ Tree(pages, root_id, lo, hi, h, 0, k) /\ Labels(lo, hi, h) /\ pages[node].inner
      /\ Len(pages[node].keys) \in Nat /\ Len(pages[other].keys) \in Nat /\ DOMAIN pages \subseteq PageIds
      /\ 0 \notin DOMAIN pages /\ IsOuter(pages[other], Keys, Values, PageIds)
  BY <1>1, <1>2, <1>4, Known, TreeFacts DEF NodeIsLeaf, ShapeOK
<1>8. Len(pages[other].keys) > 1
  <2>1. h[other] \in Nat /\ h[child] \in Nat /\ h[node] \in Nat /\ h[root_id] \in Nat /\ h[node] <= h[root_id]
    BY <1>4, <1>5, <1>7, TreeFacts
  <2>2. other # root_id
    BY <1>4, <1>5, <2>1
  <2>3. ~IsTooEmpty(pages[other])
    BY <1>4, <2>2 DEF IInv, Sized
  <2>4. Half \in Nat /\ Half >= 2
    BY HalfIs
  <2>5. IsTooEmpty(pages[other]) <=> Len(pages[other].keys) < Half
    BY <1>2, <1>7, OuterSizes
  <2> QED
    BY <1>7, <2>3, <2>4, <2>5
<1>9. b = pages[other].keys[Len(pages[other].keys) - 1] /\ n = WithKey(pages[node], Index, b)
  BY <1>6 DEF Biggest, Exchange
<1>10. b \in Int /\ q \in Int
  <2>1. Len(pages[other].keys) - 1 \in 1 .. Len(pages[other].keys)
    BY <1>7, <1>8
  <2> QED
    BY <1>4, <1>7, <1>9, <2>1, LeafFacts, OpFacts
<1>11. DOMAIN pg2 = DOMAIN pages /\ pg2[node] = n /\ \A x \in DOMAIN pages : x # node => pg2[x] = pages[x]
  <2>1. DOMAIN pg2 = DOMAIN pages \cup {node} /\ pg2[node] = n /\ \A x \in DOMAIN pages : x # node => pg2[x] = pages[x]
    BY DEF With, Page, ++
  <2> QED
    BY <1>4, <2>1
<1>12. n.inner = TRUE /\ Len(n.keys) = Len(pages[node].keys)
  <2>1. n.keys = [pages[node].keys EXCEPT ![Index] = b] /\ n.inner = TRUE
    BY <1>9 DEF WithKey, InnerNode
  <2>2. IsInner(pages[node], Keys, PageIds)
    BY <1>1, <1>4, <1>7, Known, TreeFacts DEF ShapeOK
  <2>3. pages[node].keys \in Seq(Keys)
    BY <2>2 DEF IsInner
  <2> QED
    BY <2>1, <2>3
<1> HIDE DEF pg2, n, b, q
<1> DEFINE lo2 == [x \in PageIds |-> Moved(lo[x], q, b)]
           hi2 == [x \in PageIds |-> Moved(hi[x], q, b)]
<1>13. MovedLabels(lo, hi, h, lo2, hi2, h, q, b)
  <2>1. \A x \in PageIds : lo[x] \in Int /\ hi[x] \in Int
    BY <1>7 DEF Labels
  <2>2. \A x \in PageIds : Moved(lo[x], q, b) \in Int /\ Moved(hi[x], q, b) \in Int
    BY <1>10, <2>1 DEF Moved
  <2>3. Labels(lo2, hi2, h)
    BY <1>7, <2>2 DEF Labels
  <2> QED
    BY <2>3 DEF MovedLabels
<1>14. hi2[child] = hi2[other]
  BY <1>4, <1>5, <1>7
<1> HIDE DEF lo2, hi2
<1>15. Tree(pg2, root_id, lo2, hi2, h, other, q)
  <2> DEFINE x == node
             z == other
             p == Index
  <2>1. /\ x \in DOMAIN pages /\ pages[x].inner /\ p \in 1 .. Len(pages[x].keys) /\ q = pages[x].keys[p]
        /\ z \in DOMAIN pages /\ ~pages[z].inner /\ hi[z] = q /\ Len(pages[z].keys) > 1
        /\ b = pages[z].keys[Len(pages[z].keys) - 1]
        /\ DOMAIN pg2 = DOMAIN pages /\ pg2[x] = WithKey(pages[x], p, b)
        /\ \A y \in DOMAIN pages : y # x => pg2[y] = pages[y]
    BY <1>2, <1>4, <1>6, <1>7, <1>8, <1>9, <1>11 DEF q
  <2> HIDE DEF x, z, p
  <2>3. KeyReplaced(pages, hi, x, p, q, z, b, pg2)
    BY ONLY <2>1 DEF KeyReplaced
  <2>2. Tree(pg2, root_id, lo2, hi2, h, z, q)
    BY ONLY <1>7, <1>13, <2>3, Exchanges
  <2> QED
    BY <2>2 DEF z
<1>22. PICK z, q0, lo3, hi3 : z = other /\ q0 = q /\ lo3 = lo2 /\ hi3 = hi2
  OBVIOUS
<1>23. z # 0 /\ hi3[child] = hi3[z] /\ Tree(pg2, root_id, lo3, hi3, h, z, q0)
  BY <1>4, <1>7, <1>14, <1>15, <1>22
<1>16. Labelled(lo3, hi3, h, z, q0)'
  <2>2. Strictly(lo3, hi3, z, node)'
    BY <1>2, <1>23 DEF Strictly, Here
  <2>3. Deleting(lo3, hi3, z)'
    BY <1>2, <1>4, <1>5, <1>11, <2>2 DEF Deleting, OpIs, Spares
  <2>4. Registers(lo3, hi3, h, z)'
    BY <2>3 DEF Registers
  <2>5. q0 \in Int /\ q0 = op.key
    BY <1>10, <1>22 DEF q
  <2> QED
    BY <1>2, <1>23, <2>4, <2>5 DEF Labelled
<1>17. Sized(pages', root_id') /\ RootFilled' /\ NumbersOK'
  <2>1. Sized(pg2, root_id)
    <3>1. MaxSize(n) = MaxSize(pages[node]) /\ (IsTooEmpty(n) <=> IsTooEmpty(pages[node]))
      BY <1>7, <1>12 DEF MaxSize, IsTooEmpty
    <3> QED
      BY <1>4, <1>11, <1>12, <3>1 DEF IInv, Sized
  <2>2. RootFilled'
    <3>1. CASE root_id = node
      <4>1. Len(n.keys) > 0
        BY <1>6, <1>7, <1>12
      <4>2. pg2[root_id].keys # << >>
        BY <1>11, <3>1, <4>1
      <4> QED
        BY <1>2, <4>2 DEF RootFilled
    <3>2. CASE root_id # node
      <4>1. root_id \in DOMAIN pages
        BY <1>7, TreeFacts
      <4>2. pg2[root_id] = pages[root_id]
        BY <1>11, <3>2, <4>1
      <4> QED
        BY <1>2, <4>2 DEF IInv, RootFilled
    <3> QED
      BY <3>1, <3>2
  <2>3. child \in 0 .. MaxPages /\ 0 \in 0 .. MaxPages
    BY <1>5, <1>7, MaxPagesAssumption DEF PageIds
  <2> QED
    BY <1>2, <2>1, <2>2, <2>3 DEF NumbersOK
<1>18. Fixed = {node, other} /\ Fixed' = {child}
  BY <1>2, <1>4 DEF Fixed
<1>19. Turns(Fixed, {child}, {node, other}, Fixed')
  BY <1>18 DEF Turns
<1>20. \A x \in DOMAIN pages \cap DOMAIN pg2 : x \notin {node} => pg2[x] = pages[x]
  BY <1>11
<1>21. Kept
  <2>1. \E lo4, hi4, h4, odd4, k4 : Labelled(lo4, hi4, h4, odd4, k4)'
    BY <1>16
  <2> QED
    BY <1>2, <1>17, <1>19, <1>20, <2>1, Lands
<1>24. Fixed \cup Fixed' \subseteq {node, other, child}
  BY <1>18
<1>25. SameHeld(pages, pages')
  BY <1>2, <1>7, <1>11, <1>12, SameLeavesHold
<1> QED
  BY <1>21, <1>24, <1>25 DEF Few

-----------------------------------------------------------------------------
(* The child and a sibling of it: both are under the node, neither is too  *)
(* empty, and an odd leaf is not the left one.                             *)
LEMMA PairFacts ==
  ASSUME IInv, NEW lo, NEW hi, NEW h, NEW odd, NEW k, Labelled(lo, hi, h, odd, k), Balancing(lo, hi, odd),
         NEW i, NEW l, NEW r, NEW m, SiblingsAt(pages, node, i, l, r, m), l = child \/ r = child
  PROVE  /\ l \in DOMAIN pages /\ r \in DOMAIN pages /\ l # r /\ l # node /\ r # node
         /\ l # root_id /\ r # root_id /\ odd # l /\ (odd # r \/ r = child)
         /\ h[node] = h[l] + 1 /\ h[node] = h[r] + 1 /\ h[l] \in Nat /\ h[node] \in Nat
         /\ m \in Int /\ hi[l] = m /\ lo[r] = m /\ lo[l] < m /\ m < hi[r] /\ hi[r] <= hi[node] /\ hi[l] # hi[node]
         /\ lo[l] \in Int /\ hi[r] \in Int /\ hi[node] \in Int
         /\ pages[l].inner \in BOOLEAN /\ pages[l].inner = pages[r].inner
         /\ Len(pages[l].keys) \in Nat /\ Len(pages[r].keys) \in Nat
         /\ ~IsTooEmpty(pages[l]) /\ ~IsTooEmpty(pages[r])
<1> DEFINE p == node
<1>1. /\ Skeleton(pages, lo, hi, h) /\ Leaves(pages, lo, hi, h, odd, k) /\ p \in DOMAIN pages
      /\ pages[p].inner /\ Here(lo, hi, odd, p) /\ h[p] <= h[root_id] /\ h[root_id] \in Nat
      /\ root_id \in DOMAIN pages
  BY Known, TreeFacts, BalancingFacts
<1>2. /\ i \in 1 .. Len(pages[p].keys) /\ l = ChildAt(pages, p, i) /\ r = ChildAt(pages, p, i + 1)
      /\ m = pages[p].keys[i]
  BY DEF SiblingsAt
<1>3. /\ l \in DOMAIN pages /\ r \in DOMAIN pages /\ l # r /\ l # p /\ r # p
      /\ h[p] = h[l] + 1 /\ h[p] = h[r] + 1 /\ h[l] = h[r]
      /\ m \in Int /\ hi[l] = m /\ lo[r] = m /\ lo[l] < m /\ m < hi[r] /\ lo[p] <= lo[l] /\ hi[r] <= hi[p]
      /\ pages[l].inner \in BOOLEAN /\ pages[l].inner = pages[r].inner
  <2> HIDE DEF p
  <2>1. LET l0 == ChildAt(pages, p, i)  r0 == ChildAt(pages, p, i + 1)  m0 == pages[p].keys[i] IN
         /\ l0 \in DOMAIN pages /\ r0 \in DOMAIN pages /\ l0 # r0 /\ l0 # p /\ r0 # p
         /\ h[p] = h[l0] + 1 /\ h[p] = h[r0] + 1 /\ h[l0] = h[r0]
         /\ m0 \in Int /\ m0 \in Keys /\ m0 < Top
         /\ hi[l0] = m0 /\ lo[r0] = m0 /\ lo[l0] < m0 /\ m0 < hi[r0] /\ lo[p] <= lo[l0] /\ hi[r0] <= hi[p]
         /\ pages[l0].inner \in BOOLEAN /\ pages[l0].inner = pages[r0].inner
         /\ ~pages[l0].inner => pages[l0].next_lef_id = r0
    BY <1>1, <1>2, Siblings_
  <2> QED
    BY <1>2, <2>1
<1>4. /\ Len(pages[l].keys) \in Nat /\ Len(pages[r].keys) \in Nat /\ h[l] \in Nat /\ h[p] \in Nat
      /\ lo[l] \in Int /\ hi[r] \in Int /\ hi[p] \in Int
  BY <1>1, <1>3, Known, TreeFacts
<1> HIDE DEF p
<1>5. hi[l] # hi[p]
  BY <1>3, <1>4
<1>6. odd # l /\ (odd # r \/ r = child)
  <2>1. CASE odd = 0
    BY <1>3, <2>1, Known
  <2>2. CASE odd # 0
    <3>1. hi[p] = hi[odd]
      BY <1>1, <2>2 DEF Here
    <3>2. child = NextChild /\ ~NodeIsLeaf /\ op \in Ops /\ node \in DOMAIN pages /\ Here(lo, hi, odd, node)
      BY <1>1 DEF Balancing, OpIs, p
    <3>3. Here(lo, hi, odd, child)
      BY <3>2, GoesTo
    <3>4. hi[child] = hi[p]
      BY <2>2, <3>1, <3>3 DEF Here
    <3> QED
      BY <1>5, <3>1, <3>4
  <2> QED
    BY <2>1, <2>2
<1>7. l # root_id /\ r # root_id
  BY <1>1, <1>3, <1>4
<1>8. ~IsTooEmpty(pages[l]) /\ ~IsTooEmpty(pages[r])
  BY <1>3, <1>7 DEF IInv, Sized
<1> QED
  BY <1>3, <1>4, <1>5, <1>6, <1>7, <1>8 DEF p

(* An entry goes from the sibling to the child. *)
LEMMA BorrowKeeps ==
  ASSUME IInv, NEW lo, NEW hi, NEW h, NEW odd, NEW k, Labelled(lo, hi, h, odd, k), Balancing(lo, hi, odd),
         pc \in {"left", "right"}, CanDelete(pages[other]),
         NEW i, NEW l, NEW r, NEW m, SiblingsAt(pages, node, i, l, r, m),
         (l = child /\ r = other) \/ (l = other /\ r = child),
         NEW big, NEW m2 \in Keys, lo[l] < m2, m2 < hi[r], Borrowed(pages, big, node, i, l, r, m, m2),
         Kinds(pages, big, l, r),
         Len(big[other].keys) = Len(pages[other].keys) - 1,
         Len(big[child].keys) = Len(pages[child].keys) + 1,
         Effect(big, {}, {child, other}, {node, child, other}), Recur(node), UNCHANGED root_id
  PROVE  Kept /\ Few /\ SameHeld(pages, pages')
<1>1. /\ pages' = big /\ pc' = op.kind /\ node' = node /\ child' = 0 /\ other' = 0 /\ op' = op /\ root_id' = root_id
  BY DEF Effect, Recur
<1>2. /\ l \in DOMAIN pages /\ r \in DOMAIN pages /\ l # r /\ l # node /\ r # node
      /\ l # root_id /\ r # root_id /\ odd # l
      /\ pages[l].inner \in BOOLEAN /\ pages[l].inner = pages[r].inner
      /\ Len(pages[l].keys) \in Nat /\ Len(pages[r].keys) \in Nat
      /\ ~IsTooEmpty(pages[l]) /\ ~IsTooEmpty(pages[r])
  <2>1. l = child \/ r = child
    OBVIOUS
  <2> QED
    BY <2>1, PairFacts
<1>3. /\ k \in Int /\ Tree(pages, root_id, lo, hi, h, odd, k) /\ (odd # 0 => k = op.key) /\ Labels(lo, hi, h)
      /\ DOMAIN pages \subseteq PageIds /\ root_id \in DOMAIN pages /\ Skeleton(pages, lo, hi, h)
  BY Known, TreeFacts
<1>4. /\ op \in Ops /\ op.kind = "delete" /\ node \in DOMAIN pages /\ Strictly(lo, hi, odd, node)
      /\ pages[node].inner /\ Len(pages[node].keys) \in Nat /\ Len(pages[node].keys) > 0
      /\ ~CanDelete(pages[child]) /\ (node = root_id \/ CanDelete(pages[node]))
  BY BalancingFacts DEF Balancing
<1> DEFINE lo3 == [lo EXCEPT ![r] = m2]
           hi3 == [hi EXCEPT ![l] = m2]
<1>5. Redrawn(lo, hi, lo3, hi3, l, r, m2)
  BY DEF Redrawn
<1>6. \A x \in PageIds : (x # r => lo3[x] = lo[x]) /\ (x # l => hi3[x] = hi[x])
  BY <1>3 DEF Labels
<1> HIDE DEF lo3, hi3
<1>7. Tree(big, root_id, lo3, hi3, h, odd, k) /\ SameHeld(pages, big)
  <2> DEFINE p == node
  <2>1. SiblingsAt(pages, p, i, l, r, m) /\ Borrowed(pages, big, p, i, l, r, m, m2)
    OBVIOUS
  <2> HIDE DEF p
  <2> QED
    BY <1>2, <1>3, <1>5, <2>1, BorrowTree
<1>8. /\ DOMAIN big = DOMAIN pages /\ big[node] = WithKey(pages[node], i, m2)
      /\ \A x \in DOMAIN pages : x # l /\ x # r /\ x # node => big[x] = pages[x]
  BY DEF Borrowed
<1>9. big[node].inner = TRUE /\ Len(big[node].keys) = Len(pages[node].keys)
  <2>1. big[node].keys = [pages[node].keys EXCEPT ![i] = m2] /\ big[node].inner = TRUE
    BY <1>8 DEF WithKey, InnerNode
  <2>2. IsInner(pages[node], Keys, PageIds)
    BY <1>3, <1>4, TreeFacts DEF ShapeOK
  <2>3. pages[node].keys \in Seq(Keys)
    BY <2>2 DEF IsInner
  <2> QED
    BY <2>1, <2>3
<1>10. /\ MaxSize(big[node]) = MaxSize(pages[node])
       /\ (IsTooEmpty(big[node]) <=> IsTooEmpty(pages[node])) /\ (CanDelete(big[node]) <=> CanDelete(pages[node]))
  BY <1>4, <1>9 DEF MaxSize, IsTooEmpty, CanDelete
<1>11. /\ Len(big[child].keys) <= MaxSize(big[child]) /\ ~IsTooEmpty(big[child])
       /\ Len(big[other].keys) <= MaxSize(big[other]) /\ ~IsTooEmpty(big[other])
  <2> DEFINE c == pages[child]
             s == pages[other]
             c2 == big[child]
             s2 == big[other]
  <2>1. /\ c.inner \in BOOLEAN /\ s.inner = c.inner /\ c2.inner = c.inner /\ s2.inner = c.inner
        /\ Len(c.keys) \in Nat /\ Len(s.keys) \in Nat
        /\ Len(c2.keys) = Len(c.keys) + 1 /\ Len(s2.keys) = Len(s.keys) - 1
        /\ ~IsTooEmpty(c) /\ ~CanDelete(c) /\ CanDelete(s)
    BY <1>2, <1>4 DEF Kinds
  <2>2. Len(s.keys) <= MaxSize(s)
    BY <1>2 DEF IInv, Sized
  <2> HIDE DEF c, s, c2, s2
  <2>3. Half \in Nat /\ Half >= 2 /\ N \in Nat /\ 2 * Half <= N
    BY HalfIs
  <2>4. CASE c.inner
    <3>1. /\ (IsTooEmpty(c) <=> Len(c.keys) < Half - 1) /\ (CanDelete(c) <=> Len(c.keys) >= Half)
          /\ (CanDelete(s) <=> Len(s.keys) >= Half) /\ MaxSize(s) = N - 1
      BY <2>1, <2>4, InnerSizes
    <3>2. Len(s2.keys) \in Nat /\ Len(c2.keys) \in Nat
      BY <2>1, <2>3, <3>1
    <3>3. /\ MaxSize(c2) = N - 1 /\ (IsTooEmpty(c2) <=> Len(c2.keys) < Half - 1)
          /\ MaxSize(s2) = N - 1 /\ (IsTooEmpty(s2) <=> Len(s2.keys) < Half - 1)
      BY <2>1, <2>4, <3>2, InnerSizes
    <3>4. Len(c2.keys) <= N - 1 /\ ~(Len(c2.keys) < Half - 1)
      BY <2>1, <2>3, <3>1
    <3>5. Len(s2.keys) <= N - 1 /\ ~(Len(s2.keys) < Half - 1)
      BY <2>1, <2>2, <2>3, <3>1
    <3> QED
      BY <3>3, <3>4, <3>5 DEF c2, s2
  <2>5. CASE ~c.inner
    <3>1. /\ (IsTooEmpty(c) <=> Len(c.keys) < Half) /\ (CanDelete(c) <=> Len(c.keys) > Half)
          /\ (CanDelete(s) <=> Len(s.keys) > Half) /\ MaxSize(s) = N
      BY <2>1, <2>5, OuterSizes
    <3>2. Len(s2.keys) \in Nat /\ Len(c2.keys) \in Nat
      BY <2>1, <2>3, <3>1
    <3>3. /\ MaxSize(c2) = N /\ (IsTooEmpty(c2) <=> Len(c2.keys) < Half)
          /\ MaxSize(s2) = N /\ (IsTooEmpty(s2) <=> Len(s2.keys) < Half)
      BY <2>1, <2>5, <3>2, OuterSizes
    <3>4. Len(c2.keys) <= N /\ ~(Len(c2.keys) < Half)
      BY <2>1, <2>3, <3>1
    <3>5. Len(s2.keys) <= N /\ ~(Len(s2.keys) < Half)
      BY <2>1, <2>2, <2>3, <3>1
    <3> QED
      BY <3>3, <3>4, <3>5 DEF c2, s2
  <2> QED
    BY <2>1, <2>4, <2>5
<1>12. Sized(big, root_id)
  <2>1. Sized(pages, root_id)
    BY DEF IInv
  <2> QED
    BY <1>4, <1>8, <1>9, <1>10, <1>11, <2>1 DEF Sized
<1>13. Labelled(lo3, hi3, h, odd, k)'
  <2>1. Strictly(lo3, hi3, odd, node)
    <3>1. lo3[node] = lo[node] /\ hi3[node] = hi[node] /\ (odd # 0 => hi3[odd] = hi[odd])
      <4>1. odd # 0 => odd \in PageIds
        BY <1>3 DEF Tree, OddOK
      <4> QED
        BY <1>2, <1>3, <1>4, <1>6, <4>1
    <3> QED
      BY <1>4, <3>1 DEF Strictly, Here
  <2>2. Strictly(lo3, hi3, odd, node)'
    BY <1>1, <2>1 DEF Strictly, Here, lo3, hi3
  <2>3. Deleting(lo3, hi3, odd)'
    BY <1>1, <1>4, <1>8, <1>10, <2>2 DEF Deleting, OpIs, Spares
  <2>4. Registers(lo3, hi3, h, odd)'
    BY <2>3 DEF Registers
  <2> QED
    BY <1>1, <1>3, <1>7, <2>4 DEF Labelled
<1>14. RootFilled' /\ NumbersOK'
  <2>1. ~(big[root_id].inner /\ big[root_id].keys = << >>)
    <3>1. CASE root_id = node
      <4>1. Len(big[node].keys) > 0
        BY <1>4, <1>9
      <4>2. big[node].keys # << >>
        BY <4>1
      <4> QED
        BY <3>1, <4>2
    <3>2. CASE root_id # node
      <4>1. big[root_id] = pages[root_id]
        BY <1>2, <1>3, <1>8, <3>2
      <4> QED
        BY <4>1 DEF IInv, RootFilled
    <3> QED
      BY <3>1, <3>2
  <2>2. 0 \in 0 .. MaxPages
    BY MaxPagesAssumption
  <2> QED
    BY <1>1, <2>1, <2>2 DEF RootFilled, NumbersOK, IInv
<1>15. Fixed = {node, child, other} /\ Fixed' = {node}
  BY <1>1, <1>4 DEF Fixed
<1>16. Turns(Fixed, {}, {child, other}, Fixed')
  BY <1>2, <1>15 DEF Turns
<1>17. \A x \in DOMAIN pages \cap DOMAIN big : x \notin {node, child, other} => big[x] = pages[x]
  BY <1>8
<1>18. Kept
  <2>1. Sized(pages', root_id')
    BY <1>1, <1>12
  <2> QED
    BY <1>13, <1>14, <1>16, <1>17, <2>1, Lands
<1> QED
  BY <1>1, <1>7, <1>15, <1>18 DEF Few

(* Three pages are written together. *)
PutThree(big, a, b, d, u, v, w) ==
  /\ {a, b, d} \subseteq DOMAIN pages /\ a # b /\ a # d /\ b # d
  /\ \/ big = With(Page(a, u) ++ Page(b, v) ++ Page(d, w))
     \/ big = With(Page(d, w) ++ (Page(a, u) ++ Page(b, v)))
(* What is on the pages then. *)
LEMMA PutThreeIs ==
  ASSUME NEW big, NEW a, NEW b, NEW d, NEW u, NEW v, NEW w, PutThree(big, a, b, d, u, v, w)
  PROVE  /\ DOMAIN big = DOMAIN pages /\ big[a] = u /\ big[b] = v /\ big[d] = w
         /\ \A x \in DOMAIN pages : x # a /\ x # b /\ x # d => big[x] = pages[x]
<1>1. {a, b, d} \subseteq DOMAIN pages /\ a # b /\ a # d /\ b # d
  BY DEF PutThree
<1>2. CASE big = With(Page(a, u) ++ Page(b, v) ++ Page(d, w))
  <2> DEFINE e == Page(a, u) ++ Page(b, v)
             f == e ++ Page(d, w)
  <2>1. DOMAIN e = {a, b} /\ e[a] = u /\ e[b] = v
    BY <1>1 DEF ++, Page
  <2>2. DOMAIN f = {a, b, d} /\ f[a] = u /\ f[b] = v /\ f[d] = w
    <3> HIDE DEF e
    <3> QED
      BY <1>1, <2>1 DEF ++, Page
  <2>3. big = With(f)
    BY <1>2
  <2> HIDE DEF f
  <2> QED
    BY <1>1, <2>2, <2>3 DEF With, ++
<1>3. CASE big = With(Page(d, w) ++ (Page(a, u) ++ Page(b, v)))
  <2> DEFINE e == Page(a, u) ++ Page(b, v)
             f == Page(d, w) ++ e
  <2>1. DOMAIN e = {a, b} /\ e[a] = u /\ e[b] = v
    BY <1>1 DEF ++, Page
  <2>2. DOMAIN f = {a, b, d} /\ f[a] = u /\ f[b] = v /\ f[d] = w
    <3> HIDE DEF e
    <3> QED
      BY <1>1, <2>1 DEF ++, Page
  <2>3. big = With(f)
    BY <1>3
  <2> HIDE DEF f
  <2> QED
    BY <1>1, <2>2, <2>3 DEF With, ++
<1> QED
  BY <1>2, <1>3 DEF PutThree

(* What the sibling gives and what the parent gets. *)
Apart3 == {node, child, other} \subseteq DOMAIN pages /\ node # child /\ node # other /\ child # other
(* BorrowLeft moves the last entry of the left sibling. *)
LEMMA LeftGives ==
  ASSUME Apart3, NEW i, i = ChildIndex - 1, NEW m, m = pages[node].keys[i], NEW big, big = With(BorrowLeft)
  PROVE  \E m2 : FromLeft(pages, big, node, i, other, child, m, m2)
<1> DEFINE s == pages[other]
           c == pages[child]
           p == pages[node]
           c1 == InsertFirst(c, m, Last(s.child_ids))
           s1 == InnerDelete(s, Last(s.keys))
           c2 == OuterInsert(c, Last(s.keys), Last(s.values))
           s2 == OuterDelete(s, Last(s.keys))
<1>1. CASE s.inner
  <2>1. big = With(Page(child, c1) ++ Page(other, s1) ++ Page(node, WithKey(p, i, Last(s.keys))))
    BY <1>1 DEF BorrowLeft
  <2>2. PutThree(big, child, other, node, c1, s1, WithKey(p, i, Last(s.keys)))
    BY <2>1 DEF PutThree, Apart3
  <2> HIDE DEF c1, s1
  <2>3. /\ DOMAIN big = DOMAIN pages /\ big[child] = c1 /\ big[other] = s1 /\ big[node] = WithKey(p, i, Last(s.keys))
        /\ \A x \in DOMAIN pages : x # child /\ x # other /\ x # node => big[x] = pages[x]
    BY <2>2, PutThreeIs
  <2>4. FromLeft(pages, big, node, i, other, child, m, Last(s.keys))
    BY <1>1, <2>3 DEF FromLeft, c1, s1
  <2> QED
    BY <2>4
<1>2. CASE ~s.inner
  <2>1. big = With(Page(child, c2) ++ Page(other, s2) ++ Page(node, WithKey(p, i, Last(s2.keys))))
    BY <1>2 DEF BorrowLeft
  <2>2. PutThree(big, child, other, node, c2, s2, WithKey(p, i, Last(s2.keys)))
    BY <2>1 DEF PutThree, Apart3
  <2> HIDE DEF c2, s2
  <2>3. /\ DOMAIN big = DOMAIN pages /\ big[child] = c2 /\ big[other] = s2 /\ big[node] = WithKey(p, i, Last(s2.keys))
        /\ \A x \in DOMAIN pages : x # child /\ x # other /\ x # node => big[x] = pages[x]
    BY <2>2, PutThreeIs
  <2>4. FromLeft(pages, big, node, i, other, child, m, Last(s2.keys))
    BY <1>2, <2>3 DEF FromLeft, c2, s2
  <2> QED
    BY <2>4
<1> QED
  BY <1>1, <1>2

(* BorrowRight moves the first entry of the right one. *)
LEMMA RightGives ==
  ASSUME Apart3, NEW i, i = ChildIndex, NEW m, m = pages[node].keys[i], NEW big, big = With(BorrowRight),
         pages[child].inner = pages[other].inner
  PROVE  \E m2 : FromRight(pages, big, node, i, child, other, m, m2)
<1> DEFINE s == pages[other]
           c == pages[child]
           q == WithKey(pages[node], i, Head(s.keys))
           c1 == InnerInsert(c, m, Head(s.child_ids))
           s1 == DeleteFirstPair(s)
           c2 == OuterInsert(c, Head(s.keys), Head(s.values))
           s2 == OuterDelete(s, Head(s.keys))
<1>1. CASE s.inner
  <2>1. big = With(Page(node, q) ++ (Page(child, c1) ++ Page(other, s1)))
    BY <1>1 DEF BorrowRight
  <2>2. PutThree(big, child, other, node, c1, s1, q)
    BY <2>1 DEF PutThree, Apart3
  <2> HIDE DEF c1, s1, q
  <2>3. /\ DOMAIN big = DOMAIN pages /\ big[child] = c1 /\ big[other] = s1 /\ big[node] = q
        /\ \A x \in DOMAIN pages : x # child /\ x # other /\ x # node => big[x] = pages[x]
    BY <2>2, PutThreeIs
  <2>4. FromRight(pages, big, node, i, child, other, m, Head(s.keys))
    BY <1>1, <2>3 DEF FromRight, c1, s1, q
  <2> QED
    BY <2>4
<1>2. CASE ~s.inner
  <2>1. big = With(Page(node, q) ++ (Page(child, c2) ++ Page(other, s2)))
    BY <1>2 DEF BorrowRight
  <2>2. PutThree(big, child, other, node, c2, s2, q)
    BY <2>1 DEF PutThree, Apart3
  <2> HIDE DEF c2, s2, q
  <2>3. /\ DOMAIN big = DOMAIN pages /\ big[child] = c2 /\ big[other] = s2 /\ big[node] = q
        /\ \A x \in DOMAIN pages : x # child /\ x # other /\ x # node => big[x] = pages[x]
    BY <2>2, PutThreeIs
  <2>4. FromRight(pages, big, node, i, child, other, m, Head(s.keys))
    BY <1>2, <2>3 DEF FromRight, c2, s2, q
  <2> QED
    BY <2>4
<1> QED
  BY <1>1, <1>2

(* substitute moves an entry of a sibling to the child. *)
LEMMA SubstituteKeeps == IInv /\ Substitute => Kept /\ Few /\ SameHeld(pages, pages')
<1> SUFFICES ASSUME IInv, Substitute PROVE Kept /\ Few /\ SameHeld(pages, pages')
  OBVIOUS
<1>1. PICK lo, hi, h, odd, k : Labelled(lo, hi, h, odd, k)
  BY DEF IInv
<1>2. pc \in {"left", "right"} /\ CanDelete(pages[other]) /\ root_id' = root_id /\ Recur(node)
  BY DEF Substitute
<1>3. Balancing(lo, hi, odd)
  BY <1>1, <1>2, Known, Places DEF BalancingPlaces
<1>4. /\ ChildIndex = Index /\ Index \in 1 .. Len(pages[node].keys) + 1
      /\ Len(pages[node].keys) \in Nat /\ pages[node].inner /\ node \in DOMAIN pages /\ child \in DOMAIN pages
      /\ child = ChildAt(pages, node, Index) /\ Here(lo, hi, odd, node) /\ op \in Ops
      /\ \A i \in 1 .. Len(pages[node].keys) + 1 :
           /\ Siblings[i] = ChildAt(pages, node, i) /\ Siblings[i] \in DOMAIN pages /\ Siblings[i] # node
           /\ i # Index => Siblings[i] # child
  BY <1>1, <1>3, BalancingFacts
<1>5. Skeleton(pages, lo, hi, h) /\ Leaves(pages, lo, hi, h, odd, k)
  BY <1>1, Known
<1>6. Half \in Nat /\ Half >= 2
  BY HalfIs
<1>7. CASE pc = "left"
  <2> DEFINE i == Index - 1
             m == pages[node].keys[i]
             big == With(BorrowLeft)
  <2>1. /\ i \in 1 .. Len(pages[node].keys) /\ i + 1 = Index /\ i \in 1 .. Len(pages[node].keys) + 1 /\ i # Index
        /\ other = ChildAt(pages, node, i)
    BY <1>3, <1>4, <1>7 DEF Balancing
  <2>2. SiblingsAt(pages, node, i, other, child, m) /\ Apart3
    BY <1>4, <2>1 DEF SiblingsAt, Apart3
  <2>3. Effect(big, {}, {child, other}, {node, child, other})
    BY <1>7 DEF Substitute
  <2>4. PICK m2 : FromLeft(pages, big, node, i, other, child, m, m2)
    <3>1. i = ChildIndex - 1
      BY <1>4
    <3> HIDE DEF i, big
    <3>2. big = With(BorrowLeft) /\ m = pages[node].keys[i]
      BY DEF big
    <3> HIDE DEF m
    <3> QED
      BY <2>2, <3>1, <3>2, LeftGives
  <2> HIDE DEF i, m, big
  <2>5. /\ pages[other].inner \in BOOLEAN /\ pages[other].inner = pages[child].inner /\ odd # other
        /\ Len(pages[other].keys) \in Nat /\ Len(pages[child].keys) \in Nat
        /\ ~IsTooEmpty(pages[child])
    BY <1>1, <1>3, <2>2, PairFacts
  <2>6. Len(pages[other].keys) > 1 /\ Len(pages[child].keys) > 0
    <3>1. CASE pages[other].inner
      <4>1. Len(pages[other].keys) >= Half /\ ~(Len(pages[child].keys) < Half - 1)
        BY <1>2, <2>5, <3>1, InnerSizes
      <4> QED
        BY <1>6, <2>5, <4>1
    <3>2. CASE ~pages[other].inner
      BY <1>2, <1>6, <2>5, <3>2, OuterSizes
    <3> QED
      BY <3>1, <3>2
  <2>7. /\ Borrowed(pages, big, node, i, other, child, m, m2) /\ m2 \in Keys /\ lo[other] < m2 /\ m2 < hi[child]
        /\ Len(big[other].keys) = Len(pages[other].keys) - 1 /\ Len(big[child].keys) = Len(pages[child].keys) + 1
        /\ Kinds(pages, big, other, child)
    <3> DEFINE p == node
               l == other
               r == child
    <3>1. SiblingsAt(pages, p, i, l, r, m) /\ odd # l /\ FromLeft(pages, big, p, i, l, r, m, m2)
          /\ Len(pages[l].keys) > 1 /\ Len(pages[r].keys) > 0
      BY <2>2, <2>4, <2>5, <2>6
    <3> HIDE DEF p, l, r
    <3>2. /\ Borrowed(pages, big, p, i, l, r, m, m2) /\ m2 \in Keys /\ lo[l] < m2 /\ m2 < hi[r]
          /\ Len(big[l].keys) = Len(pages[l].keys) - 1 /\ Len(big[r].keys) = Len(pages[r].keys) + 1
          /\ Kinds(pages, big, l, r)
      BY <1>5, <3>1, FromLeftBorrows
    <3> QED
      BY <3>2 DEF p, l, r
  <2>8. PICK l, r : l = other /\ r = child
    OBVIOUS
  <2>9. /\ SiblingsAt(pages, node, i, l, r, m) /\ lo[l] < m2 /\ m2 < hi[r]
        /\ Borrowed(pages, big, node, i, l, r, m, m2) /\ Kinds(pages, big, l, r)
    BY <2>2, <2>7, <2>8
  <2>10. (l = child /\ r = other) \/ (l = other /\ r = child)
    BY <2>8
  <2> QED
    BY <1>1, <1>2, <1>3, <2>3, <2>7, <2>9, <2>10, BorrowKeeps
<1>8. CASE pc = "right"
  <2> DEFINE i == Index
             m == pages[node].keys[i]
             big == With(BorrowRight)
  <2>1. /\ i \in 1 .. Len(pages[node].keys) /\ i + 1 \in 1 .. Len(pages[node].keys) + 1 /\ i + 1 # Index
        /\ other = ChildAt(pages, node, i + 1)
    BY <1>3, <1>4, <1>8 DEF Balancing
  <2>2. SiblingsAt(pages, node, i, child, other, m) /\ Apart3
    BY <1>4, <2>1 DEF SiblingsAt, Apart3
  <2>3. Effect(big, {}, {child, other}, {node, child, other})
    BY <1>8 DEF Substitute
  <2>5. /\ pages[child].inner \in BOOLEAN /\ pages[child].inner = pages[other].inner /\ odd # child
        /\ Len(pages[other].keys) \in Nat /\ Len(pages[child].keys) \in Nat
        /\ (odd # other \/ other = child)
    BY <1>1, <1>3, <2>2, PairFacts
  <2>4. PICK m2 : FromRight(pages, big, node, i, child, other, m, m2)
    <3>1. i = ChildIndex
      BY <1>4
    <3> HIDE DEF i, big
    <3>2. big = With(BorrowRight) /\ m = pages[node].keys[i]
      BY DEF big
    <3> HIDE DEF m
    <3> QED
      BY <2>2, <2>5, <3>1, <3>2, RightGives
  <2> HIDE DEF i, m, big
  <2>6. Len(pages[other].keys) > IF pages[other].inner THEN 0 ELSE 2
    <3>1. CASE pages[other].inner
      BY <1>2, <1>6, <2>5, <3>1, InnerSizes
    <3>2. CASE ~pages[other].inner
      BY <1>2, <1>6, <2>5, <3>2, OuterSizes
    <3> QED
      BY <3>1, <3>2
  <2>7. /\ Borrowed(pages, big, node, i, child, other, m, m2) /\ m2 \in Keys /\ lo[child] < m2 /\ m2 < hi[other]
        /\ Len(big[other].keys) = Len(pages[other].keys) - 1 /\ Len(big[child].keys) = Len(pages[child].keys) + 1
        /\ Kinds(pages, big, child, other)
    <3> DEFINE p == node
               l == child
               r == other
    <3>1. SiblingsAt(pages, p, i, l, r, m) /\ odd # l /\ odd # r /\ FromRight(pages, big, p, i, l, r, m, m2)
          /\ Len(pages[r].keys) > IF pages[r].inner THEN 0 ELSE 2
      BY <2>2, <2>4, <2>5, <2>6 DEF Apart3
    <3> HIDE DEF p, l, r
    <3>2. /\ Borrowed(pages, big, p, i, l, r, m, m2) /\ m2 \in Keys /\ lo[l] < m2 /\ m2 < hi[r]
          /\ Len(big[l].keys) = Len(pages[l].keys) + 1 /\ Len(big[r].keys) = Len(pages[r].keys) - 1
          /\ Kinds(pages, big, l, r)
      BY <1>5, <3>1, FromRightBorrows
    <3> QED
      BY <3>2 DEF p, l, r
  <2>8. PICK l, r : l = child /\ r = other
    OBVIOUS
  <2>9. /\ SiblingsAt(pages, node, i, l, r, m) /\ lo[l] < m2 /\ m2 < hi[r]
        /\ Borrowed(pages, big, node, i, l, r, m, m2) /\ Kinds(pages, big, l, r)
    BY <2>2, <2>7, <2>8
  <2>10. (l = child /\ r = other) \/ (l = other /\ r = child)
    BY <2>8
  <2> QED
    BY <1>1, <1>2, <1>3, <2>3, <2>7, <2>9, <2>10, BorrowKeeps
<1> QED
  BY <1>2, <1>7, <1>8

(* Where a page leads, by the spans. *)
LEMMA LeadsTo ==
  ASSUME NEW pg, NEW lo, NEW hi, NEW h, Skeleton(pg, lo, hi, h),
         NEW x \in DOMAIN pg, pg[x].inner, NEW c \in DOMAIN pg, h[x] = h[c] + 1,
         NEW q \in Int, lo[x] < q,
         (q <= hi[x] /\ lo[c] < q /\ q <= hi[c]) \/ (hi[x] < q /\ hi[c] = hi[x])
  PROVE  NextPage(pg[x], q) = c
<1> DEFINE d == NextPage(pg[x], q)
<1>1. /\ d \in DOMAIN pg /\ h[x] = h[d] + 1 /\ lo[d] < q
      /\ q <= hi[x] => q <= hi[d]
      /\ hi[x] < q => hi[d] = hi[x]
  BY Routing
<1> HIDE DEF d
<1>2. /\ DOMAIN pg \subseteq PageIds /\ Labels(lo, hi, h)
      /\ Spans(DOMAIN pg, lo, hi) /\ Laminar(DOMAIN pg, lo, hi, h)
  BY DEF Skeleton
<1>3. h[d] = h[c]
  <2>1. h[d] \in Nat /\ h[c] \in Nat
    BY <1>1, <1>2 DEF Labels
  <2> QED
    BY <1>1, <2>1
<1>4. CASE q <= hi[x] /\ lo[c] < q /\ q <= hi[c]
  <2>1. lo[d] < q /\ q <= hi[d]
    BY <1>1, <1>4
  <2>2. d = c
    BY <1>1, <1>2, <1>3, <1>4, <2>1, OneHolder
  <2> QED
    BY <2>2 DEF d
<1>5. CASE hi[x] < q /\ hi[c] = hi[x]
  <2>1. hi[d] = hi[c] \/ lo[d] = lo[c]
    BY <1>1, <1>5
  <2>2. d = c
    BY <1>1, <1>2, <1>3, <2>1, OneEnd
  <2> QED
    BY <2>2 DEF d
<1> QED
  BY <1>4, <1>5

(* Two nodes that cannot spare an entry fill one, which can.               *)
LEMMA MergedSize ==
  ASSUME NEW n, NEW l, NEW m, NEW r, InnerJoin(n, l, m, r) \/ LeafJoin(n, l, m, r),
         Len(l.keys) \in Nat, Len(r.keys) \in Nat,
         ~IsTooEmpty(l), ~IsTooEmpty(r), ~CanDelete(l), ~CanDelete(r)
  PROVE  Len(n.keys) <= MaxSize(n) /\ ~IsTooEmpty(n) /\ CanDelete(n)
<1>1. Half \in Nat /\ Half >= 2 /\ N \in Nat /\ 2 * Half <= N
  BY HalfIs
<1>2. CASE InnerJoin(n, l, m, r)
  <2>1. n.inner /\ l.inner /\ r.inner /\ Len(n.keys) = Len(l.keys) + 1 + Len(r.keys)
    BY <1>2 DEF InnerJoin
  <2>2. /\ ~(Len(l.keys) < Half - 1) /\ ~(Len(r.keys) < Half - 1)
        /\ ~(Len(l.keys) >= Half) /\ ~(Len(r.keys) >= Half)
    BY <2>1, InnerSizes
  <2>3. Len(n.keys) \in Nat /\ Len(n.keys) = 2 * Half - 1
    <3>1. Len(l.keys) = Half - 1 /\ Len(r.keys) = Half - 1
      BY <1>1, <2>2
    <3>2. Len(n.keys) = (Half - 1) + 1 + (Half - 1)
      BY <2>1, <3>1
    <3> QED
      BY <1>1, <3>2
  <2>4. MaxSize(n) = N - 1 /\ (CanDelete(n) <=> Len(n.keys) >= Half) /\ (IsTooEmpty(n) <=> Len(n.keys) < Half - 1)
    BY <2>1, <2>3, InnerSizes
  <2> QED
    BY <1>1, <2>3, <2>4
<1>3. CASE LeafJoin(n, l, m, r)
  <2>1. ~n.inner /\ ~l.inner /\ ~r.inner /\ Len(n.keys) = Len(l.keys) + Len(r.keys)
    BY <1>3 DEF LeafJoin
  <2>2. /\ ~(Len(l.keys) < Half) /\ ~(Len(r.keys) < Half)
        /\ ~(Len(l.keys) > Half) /\ ~(Len(r.keys) > Half)
    BY <2>1, OuterSizes
  <2>3. Len(n.keys) \in Nat /\ Len(n.keys) = 2 * Half
    <3>1. Len(l.keys) = Half /\ Len(r.keys) = Half
      BY <1>1, <2>2
    <3>2. Len(n.keys) = Half + Half
      BY <2>1, <3>1
    <3> QED
      BY <1>1, <3>2
  <2>4. MaxSize(n) = N /\ (CanDelete(n) <=> Len(n.keys) > Half) /\ (IsTooEmpty(n) <=> Len(n.keys) < Half)
    BY <2>1, <2>3, OuterSizes
  <2> QED
    BY <1>1, <2>3, <2>4
<1> QED
  BY <1>2, <1>3

(* A parent that can lose a key is filled without one.                     *)
LEMMA OneLess ==
  ASSUME NEW p, NEW q, p.inner, q.inner, Len(p.keys) \in Nat, Len(q.keys) \in Nat,
         Len(p.keys) = Len(q.keys) + 1, Len(p.keys) <= MaxSize(p)
  PROVE  Len(q.keys) <= MaxSize(q) /\ (CanDelete(p) => ~IsTooEmpty(q))
<1>1. Half \in Nat /\ N \in Nat
  BY HalfIs
<1>2. MaxSize(p) = N - 1 /\ (CanDelete(p) <=> Len(p.keys) >= Half)
  BY InnerSizes
<1>3. MaxSize(q) = N - 1 /\ (IsTooEmpty(q) <=> Len(q.keys) < Half - 1)
  BY InnerSizes
<1>4. Len(q.keys) <= N - 1 /\ (Len(p.keys) >= Half => ~(Len(q.keys) < Half - 1))
  BY <1>1, <1>2
<1> QED
  BY <1>2, <1>3, <1>4

(* Two siblings become one. *)
LEMMA MergesPair ==
  ASSUME IInv, NEW lo, NEW hi, NEW h, NEW odd, NEW k, Labelled(lo, hi, h, odd, k), Balancing(lo, hi, odd),
         pc \in {"merge_left", "merge_right"}, ~CanDelete(pages[other]),
         NEW i, NEW l, NEW r, NEW m, SiblingsAt(pages, node, i, l, r, m),
         (l = child /\ r = other) \/ (l = other /\ r = child),
         NEW small, Merged(pages, small, node, i, l, r, m),
         Effect(small, {}, {l, r}, {node, l}), Recur(node), UNCHANGED root_id
  PROVE  Kept /\ Few /\ SameHeld(pages, pages')
<1>1. /\ pages' = small /\ pc' = op.kind /\ node' = node /\ child' = 0 /\ other' = 0 /\ op' = op /\ root_id' = root_id
  BY DEF Effect, Recur
<1>2. /\ l \in DOMAIN pages /\ r \in DOMAIN pages /\ l # r /\ l # node /\ r # node
      /\ l # root_id /\ r # root_id /\ odd # l
      /\ h[node] = h[l] + 1 /\ h[l] \in Nat /\ h[node] \in Nat
      /\ m \in Int /\ hi[l] = m /\ lo[r] = m /\ lo[l] < m /\ m < hi[r] /\ hi[r] <= hi[node] /\ hi[l] # hi[node]
      /\ lo[l] \in Int /\ hi[r] \in Int /\ hi[node] \in Int
      /\ Len(pages[l].keys) \in Nat /\ Len(pages[r].keys) \in Nat
      /\ ~IsTooEmpty(pages[l]) /\ ~IsTooEmpty(pages[r])
  <2>1. l = child \/ r = child
    OBVIOUS
  <2> QED
    BY <2>1, PairFacts
<1>3. /\ k \in Int /\ Tree(pages, root_id, lo, hi, h, odd, k) /\ (odd # 0 => k = op.key) /\ Labels(lo, hi, h)
      /\ DOMAIN pages \subseteq PageIds /\ root_id \in DOMAIN pages /\ 0 \notin DOMAIN pages
  BY Known, TreeFacts
<1>4. /\ op \in Ops /\ op.kind = "delete" /\ node \in DOMAIN pages /\ Strictly(lo, hi, odd, node)
      /\ pages[node].inner /\ Len(pages[node].keys) \in Nat /\ Len(pages[node].keys) > 0
      /\ child = NextChild /\ Here(lo, hi, odd, node) /\ ~NodeIsLeaf
      /\ ~CanDelete(pages[child]) /\ (node = root_id \/ CanDelete(pages[node]))
  BY BalancingFacts DEF Balancing
<1>5. /\ Here(lo, hi, odd, child) /\ (odd # 0 => op.key = k /\ hi[node] < k) /\ op.key \in Int
  BY <1>4, GoesTo, OpFacts
<1> DEFINE hi2 == [hi EXCEPT ![l] = hi[r]]
           odd2 == Heir(odd, r, l)
<1>6. EndsJoined(hi, hi2, l, r)
  BY DEF EndsJoined
<1>7. hi2[l] = hi[r] /\ \A x \in PageIds : x # l => hi2[x] = hi[x]
  BY <1>2, <1>3 DEF Labels
<1> HIDE DEF hi2
<1>8. Divides(small, pages, node, i, l, r, m) /\ Tree(small, root_id, lo, hi2, h, odd2, k)
  <2> DEFINE p == node
  <2>1. SiblingsAt(pages, p, i, l, r, m) /\ Merged(pages, small, p, i, l, r, m)
    OBVIOUS
  <2> HIDE DEF p
  <2>2. Divides(small, pages, p, i, l, r, m) /\ Tree(small, root_id, lo, hi2, h, odd2, k)
    BY <1>2, <1>3, <1>6, <2>1, MergeTree
  <2> QED
    BY <2>2 DEF p
<1>9. /\ DOMAIN small = DOMAIN pages \ {r} /\ node \in DOMAIN small /\ l \in DOMAIN small
      /\ small[node].inner
      /\ InnerJoin(small[l], pages[l], m, pages[r]) \/ LeafJoin(small[l], pages[l], m, pages[r])
      /\ \A x \in DOMAIN small : x # l /\ x # node => small[x] = pages[x]
  BY <1>2, <1>4, <1>8 DEF Merged, Divides
<1>10. Len(small[node].keys) \in Nat /\ Len(pages[node].keys) = Len(small[node].keys) + 1
  BY <1>3, <1>8, <1>9, DividesFacts
<1>11. /\ Len(small[l].keys) <= MaxSize(small[l]) /\ ~IsTooEmpty(small[l]) /\ CanDelete(small[l])
  <2> DEFINE a == pages[l]
             b == pages[r]
             n == small[l]
  <2>1. ~CanDelete(a) /\ ~CanDelete(b)
    BY <1>4
  <2>2. /\ InnerJoin(n, a, m, b) \/ LeafJoin(n, a, m, b)
        /\ Len(a.keys) \in Nat /\ Len(b.keys) \in Nat /\ ~IsTooEmpty(a) /\ ~IsTooEmpty(b)
    BY <1>2, <1>9
  <2> HIDE DEF a, b, n
  <2>3. Len(n.keys) <= MaxSize(n) /\ ~IsTooEmpty(n) /\ CanDelete(n)
    BY <2>1, <2>2, MergedSize
  <2> QED
    BY <2>3 DEF n
<1>12. Len(small[node].keys) <= MaxSize(small[node]) /\ (node # root_id => ~IsTooEmpty(small[node]))
  <2>1. Len(pages[node].keys) <= MaxSize(pages[node])
    BY <1>4 DEF IInv, Sized
  <2>2. Len(small[node].keys) <= MaxSize(small[node]) /\ (CanDelete(pages[node]) => ~IsTooEmpty(small[node]))
    BY <1>4, <1>9, <1>10, <2>1, OneLess
  <2> QED
    BY <1>4, <2>2
<1>13. Sized(small, root_id)
  <2>1. Sized(pages, root_id)
    BY DEF IInv
  <2> QED
    BY <1>9, <1>11, <1>12, <2>1 DEF Sized
<1>14. lo[node] < op.key /\ hi2[node] = hi[node] /\ Strictly(lo, hi2, odd2, node)
  <2>1. hi2[node] = hi[node]
    BY <1>2, <1>3, <1>4, <1>7
  <2>2. CASE odd = 0
    <3>1. odd2 = 0
      BY <1>2, <1>3, <2>2 DEF Heir
    <3> QED
      BY <1>4, <2>1, <2>2, <3>1 DEF Strictly, Here
  <2>3. CASE odd # 0
    <3>1. odd2 # 0 /\ hi[node] = hi[odd] /\ odd \in PageIds
      BY <1>2, <1>3, <1>4, <2>3 DEF Heir, Here, Tree, OddOK
    <3>2. hi2[odd2] = hi[odd]
      BY <1>2, <1>7, <3>1 DEF Heir
    <3>3. lo[node] < hi[node] /\ lo[node] \in Int
      BY <1>3, <1>4, TreeFacts
    <3>4. lo[node] < op.key
      BY <1>2, <1>3, <1>5, <2>3, <3>3
    <3> QED
      BY <2>1, <3>1, <3>2, <3>4 DEF Strictly, Here
  <2> QED
    BY <2>2, <2>3
<1>15. NextPage(small[node], op.key) = l
  <2> DEFINE x == node
             q == op.key
  <2>1. Skeleton(small, lo, hi2, h)
    BY <1>8, TreeFacts
  <2>2. x \in DOMAIN small /\ small[x].inner /\ l \in DOMAIN small /\ h[x] = h[l] + 1 /\ q \in Int /\ lo[x] < q
    BY <1>2, <1>5, <1>9, <1>14
  <2>3. (q <= hi2[x] /\ lo[l] < q /\ q <= hi2[l]) \/ (hi2[x] < q /\ hi2[l] = hi2[x])
    <3>1. CASE odd = 0
      <4>1. q <= hi[x] /\ lo[child] < q /\ q <= hi[child]
        BY <1>4, <1>5, <3>1 DEF Here
      <4>2. CASE l = child
        BY <1>2, <1>5, <1>7, <1>14, <4>1, <4>2
      <4>3. CASE r = child
        BY <1>2, <1>5, <1>7, <1>14, <4>1, <4>3
      <4> QED
        BY <4>2, <4>3
    <3>2. CASE odd # 0
      <4>1. hi[x] < q
        BY <1>5, <3>2
      <4>2. hi[child] = hi[x]
        BY <1>4, <1>5, <3>2 DEF Here
      <4>3. r = child
        BY <1>2, <4>2
      <4> QED
        BY <1>7, <1>14, <4>1, <4>2, <4>3
    <3> QED
      BY <3>1, <3>2
  <2> HIDE DEF x, q
  <2>4. NextPage(small[x], q) = l
    BY <2>1, <2>2, <2>3, LeadsTo
  <2> QED
    BY <2>4 DEF x, q
<1>16. PICK z : z = odd2
  OBVIOUS
<1>17. Tree(small, root_id, lo, hi2, h, z, k) /\ Strictly(lo, hi2, z, node) /\ (z # 0 => k = op.key)
  <2>1. z # 0 => odd # 0
    BY <1>2, <1>3, <1>16 DEF Heir
  <2> QED
    BY <1>3, <1>8, <1>14, <1>16, <2>1
<1>18. Labelled(lo, hi2, h, z, k)'
  <2>2. Strictly(lo, hi2, z, node)'
    BY <1>1, <1>17 DEF Strictly, Here, hi2
  <2>3. Spares(node)'
    BY <1>1, <1>9, <1>11, <1>15 DEF Spares
  <2>4. Deleting(lo, hi2, z)'
    BY <1>1, <1>4, <1>9, <2>2, <2>3 DEF Deleting, OpIs
  <2>5. Registers(lo, hi2, h, z)'
    BY <2>4 DEF Registers
  <2> QED
    BY <1>1, <1>3, <1>17, <2>5 DEF Labelled
<1>19. RootFilled' /\ NumbersOK'
  <2>1. ASSUME small[root_id].inner /\ small[root_id].keys = << >> PROVE node = root_id
    <3>1. SUFFICES ASSUME node # root_id PROVE FALSE
      OBVIOUS
    <3>2. root_id \in DOMAIN small /\ small[root_id] = pages[root_id]
      BY <1>2, <1>3, <1>9, <3>1
    <3> QED
      BY <2>1, <3>2 DEF IInv, RootFilled
  <2>2. 0 \in 0 .. MaxPages
    BY MaxPagesAssumption
  <2> QED
    BY <1>1, <1>4, <2>1, <2>2 DEF RootFilled, NumbersOK, IInv
<1>20. Fixed = {node, l, r} /\ Fixed' = {node}
  <2>1. Fixed = {node, child, other}
    BY DEF Fixed
  <2> QED
    BY <1>1, <1>4, <2>1 DEF Fixed
<1>21. Turns(Fixed, {}, {l, r}, Fixed')
  BY <1>2, <1>20 DEF Turns
<1>22. \A x \in DOMAIN pages \cap DOMAIN small : x \notin {node, l} => small[x] = pages[x]
  BY <1>9
<1>23. Kept
  <2>1. Sized(pages', root_id')
    BY <1>1, <1>13
  <2> QED
    BY <1>18, <1>19, <1>21, <1>22, <2>1, Lands
<1>24. SameHeld(pages, pages')
  <2>1. DOMAIN small \subseteq PageIds
    BY <1>3, <1>9
  <2>2. SameHeld(small, pages)
    <3> DEFINE p == node
    <3>1. Divides(small, pages, p, i, l, r, m)
      BY <1>8
    <3> HIDE DEF p
    <3> QED
      BY <2>1, <3>1, DivisionKeepsHeld
  <2> QED
    BY <1>1, <2>2 DEF SameHeld
<1> QED
  BY <1>20, <1>23, <1>24 DEF Few

(* What Without leaves of the pages, when two of them are written.         *)
TakesOut(small, r, a, b, u, v) ==
  /\ {r, a, b} \subseteq DOMAIN pages /\ a # b /\ a # r /\ b # r
  /\ small = Without(r, Page(a, u) ++ Page(b, v))
TookOut(small, r, a, b, u, v) ==
  /\ DOMAIN small = DOMAIN pages \ {r} /\ small[a] = u /\ small[b] = v
  /\ \A x \in DOMAIN small : x # a /\ x # b => small[x] = pages[x]
(* What is on the pages then. *)
LEMMA TakesOutIs ==
  ASSUME NEW small, NEW r, NEW a, NEW b, NEW u, NEW v, TakesOut(small, r, a, b, u, v)
  PROVE  TookOut(small, r, a, b, u, v)
<1> DEFINE e == Page(a, u) ++ Page(b, v)
<1>1. {r, a, b} \subseteq DOMAIN pages /\ a # b /\ a # r /\ b # r /\ small = Without(r, e)
  BY DEF TakesOut
<1>2. DOMAIN e = {a, b} /\ e[a] = u /\ e[b] = v
  BY <1>1 DEF ++, Page
<1> HIDE DEF e
<1>3. DOMAIN small = DOMAIN pages \ {r}
  BY <1>1 DEF Without
<1>4. \A x \in DOMAIN small : small[x] = IF x \in DOMAIN e THEN e[x] ELSE pages[x]
  BY <1>1, <1>2 DEF Without, With, ++
<1> QED
  BY <1>1, <1>2, <1>3, <1>4 DEF TookOut

(* merge joins the child with a sibling. *)
LEMMA MergeKeeps == IInv /\ Merge => Kept /\ Few /\ SameHeld(pages, pages')
<1> SUFFICES ASSUME IInv, Merge PROVE Kept /\ Few /\ SameHeld(pages, pages')
  OBVIOUS
<1>1. PICK lo, hi, h, odd, k : Labelled(lo, hi, h, odd, k)
  BY DEF IInv
<1>2. pc \in {"merge_left", "merge_right"} /\ ~CanDelete(pages[other]) /\ root_id' = root_id /\ Recur(node)
  BY DEF Merge
<1>3. Balancing(lo, hi, odd)
  BY <1>1, <1>2, Known, Places DEF BalancingPlaces
<1>4. /\ ChildIndex = Index /\ Index \in 1 .. Len(pages[node].keys) + 1
      /\ Len(pages[node].keys) \in Nat /\ Len(pages[node].keys) > 0
      /\ pages[node].inner /\ node \in DOMAIN pages /\ child \in DOMAIN pages
      /\ child = ChildAt(pages, node, Index)
      /\ \A i \in 1 .. Len(pages[node].keys) + 1 :
           /\ Siblings[i] = ChildAt(pages, node, i) /\ Siblings[i] \in DOMAIN pages /\ Siblings[i] # node
           /\ i # Index => Siblings[i] # child
  BY <1>1, <1>3, BalancingFacts
<1> DEFINE i0 == IF pc = "merge_left" THEN Index - 1 ELSE Index
           l0 == IF pc = "merge_left" THEN other ELSE child
           r0 == IF pc = "merge_left" THEN child ELSE other
           m0 == pages[node].keys[i0]
           small == Without(r0, Page(l0, Joined(pages[l0], pages[r0], m0)) ++ Page(node, InnerDelete(pages[node], m0)))
<1>5. Effect(small, {}, {l0, r0}, {node, l0})
  <2>1. i0 = IF pc = "merge_left" THEN ChildIndex - 1 ELSE ChildIndex
    BY <1>4
  <2> QED
    BY <2>1 DEF Merge
<1>6. PICK i, l, r, m : i = i0 /\ l = l0 /\ r = r0 /\ m = m0
  OBVIOUS
<1>7. (l = child /\ r = other) \/ (l = other /\ r = child)
  BY <1>6
<1>8. SiblingsAt(pages, node, i, l, r, m) /\ {node, l, r} \subseteq DOMAIN pages /\ l # r /\ l # node /\ r # node
  <2>1. CASE pc = "merge_left"
    <3>1. i = Index - 1 /\ l = other /\ r = child /\ m = pages[node].keys[i] /\ Index > 1
          /\ other = ChildAt(pages, node, Index - 1)
      BY <1>3, <1>6, <2>1 DEF Balancing
    <3>2. /\ i \in 1 .. Len(pages[node].keys) /\ i + 1 = Index /\ i \in 1 .. Len(pages[node].keys) + 1 /\ i # Index
      BY <1>4, <3>1
    <3> QED
      BY <1>4, <3>1, <3>2 DEF SiblingsAt
  <2>2. CASE pc = "merge_right"
    <3>1. i = Index /\ l = child /\ r = other /\ m = pages[node].keys[i] /\ Index = 1
          /\ other = ChildAt(pages, node, Index + 1)
      BY <1>3, <1>6, <2>2 DEF Balancing
    <3>2. /\ i \in 1 .. Len(pages[node].keys) /\ i + 1 \in 1 .. Len(pages[node].keys) + 1 /\ i + 1 # Index
          /\ i + 1 = Index + 1
      BY <1>4, <3>1
    <3> QED
      BY <1>4, <3>1, <3>2 DEF SiblingsAt
  <2> QED
    BY <1>2, <2>1, <2>2
<1>9. Effect(small, {}, {l, r}, {node, l})
  BY <1>5, <1>6
<1>10. Merged(pages, small, node, i, l, r, m)
  <2> DEFINE u == Joined(pages[l], pages[r], m)
             v == InnerDelete(pages[node], m)
             p == node
  <2>1. TakesOut(small, r, l, p, u, v)
    BY <1>6, <1>8 DEF TakesOut
  <2> HIDE DEF small, u, v, p
  <2>2. TookOut(small, r, l, p, u, v)
    BY <2>1, TakesOutIs
  <2> QED
    BY <2>2 DEF TookOut, Merged, u, v, p
<1> HIDE DEF small
<1> QED
  BY <1>1, <1>2, <1>3, <1>7, <1>8, <1>9, <1>10, MergesPair

-----------------------------------------------------------------------------
(* Every step keeps the invariant and fixes few pages. *)
LEMMA StepKeeps == IInv /\ Step => Kept /\ Few
<1>1. IInv /\ (Descend \/ GetAtLeaf \/ UpdateAtLeaf \/ ScanAtLeaf \/ ScanOn) => Kept /\ Few
  BY DescendKeeps, GetAtLeafKeeps, UpdateAtLeafKeeps, ScanAtLeafKeeps, ScanOnKeeps
<1>2. IInv /\ (InsertAtLeaf \/ SplitRoot \/ InsertDescend \/ CreateSibling \/ SplitChild) => Kept /\ Few
  BY InsertAtLeafKeeps, SplitRootKeeps, InsertDescendKeeps, CreateSiblingKeeps, SplitChildKeeps
<1>3. IInv /\ (DeleteAtLeaf \/ ShrinkRoot \/ DeleteDescend \/ FindBiggest \/ ExchangeKey) => Kept /\ Few
  BY DeleteAtLeafKeeps, ShrinkRootKeeps, DeleteDescendKeeps, FindBiggestKeeps, ExchangeKeyKeeps
<1>4. IInv /\ (Rebalance \/ AskLeft \/ AskRight \/ Refuse \/ Substitute \/ AskMerge \/ Merge) => Kept /\ Few
  BY RebalanceKeeps, AskLeftKeeps, AskRightKeeps, RefuseKeeps, SubstituteKeeps, AskMergeKeeps, MergeKeeps
<1> QED
  BY <1>1, <1>2, <1>3, <1>4 DEF Step

(* So does every call that is made. *)
LEMMA NextKeeps == IInv /\ Next => Kept /\ Few
<1>1. ASSUME IInv, NEW o \in Ops, Allowed(o, StoredKeys), Call(o) PROVE Kept /\ Few
  BY <1>1, CallKeeps DEF Allowed
<1> QED
  BY <1>1, StepKeeps DEF Next

(* Nothing changes. *)
LEMMA StutterKeeps == IInv /\ UNCHANGED vars => IInv'
<1> SUFFICES ASSUME IInv, UNCHANGED vars PROVE IInv'
  OBVIOUS
<1>1. /\ pages' = pages /\ root_id' = root_id /\ fix_count' = fix_count /\ unsaved' = unsaved
      /\ op' = op /\ pc' = pc /\ node' = node /\ child' = child /\ other' = other
  BY DEF vars, callVars
<1>2. PICK lo, hi, h, odd, k : Labelled(lo, hi, h, odd, k)
  BY DEF IInv
<1>3. Registers(lo, hi, h, odd)'
  <2>1. NextChild' = NextChild /\ NodeIsLeaf' = NodeIsLeaf /\ Index' = Index
    BY <1>1 DEF NextChild, NodeIsLeaf, Index
  <2>2. CASE Resting(odd)
    BY <1>1, <2>2 DEF Registers, Resting
  <2>3. CASE Walking(lo, hi, odd)
    BY <1>1, <2>3 DEF Registers, Walking, OpIs, Here
  <2>4. CASE ScanningOn(odd)
    BY <1>1, <2>1, <2>4 DEF Registers, ScanningOn, OpIs
  <2>5. CASE Inserting(lo, hi, odd)
    BY <1>1, <2>5 DEF Registers, Inserting, OpIs, Here
  <2>6. CASE Splitting(lo, hi, odd)
    BY <1>1, <2>1, <2>6 DEF Registers, Splitting, OpIs, Here
  <2>7. CASE Deleting(lo, hi, odd)
    BY <1>1, <2>7 DEF Registers, Deleting, OpIs, Strictly, Here, Spares
  <2>8. CASE Finding(lo, hi, h, odd)
    BY <1>1, <2>1, <2>8 DEF Registers, Finding, OpIs, Strictly, Here
  <2>9. CASE Balancing(lo, hi, odd)
    BY <1>1, <2>1, <2>9 DEF Registers, Balancing, OpIs, Strictly, Here
  <2> QED
    BY <1>2, <2>2, <2>3, <2>4, <2>5, <2>6, <2>7, <2>8, <2>9 DEF Labelled, Registers
<1>4. Labelled(lo, hi, h, odd, k)'
  BY <1>1, <1>2, <1>3 DEF Labelled
<1>5. Fixed' = Fixed
  BY <1>1 DEF Fixed
<1>6. RootFilled' /\ NumbersOK' /\ Sized(pages', root_id') /\ Counts(fix_count', Fixed') /\ unsaved' = {}
  BY <1>1, <1>5 DEF IInv, RootFilled, NumbersOK
<1> QED
  BY <1>4, <1>6 DEF IInv

(* Between two requests of a page, in every call and between calls: the    *)
(* pages form an ordered tree of filled nodes, and the call knows where in *)
(* it it is.                                                               *)
THEOREM TreeIsKept == Spec => []IInv
<1>1. Init => IInv
  BY InitIInv
<1>2. IInv /\ [Next]_vars => IInv'
  BY NextKeeps, StutterKeeps DEF Kept
<1> QED
  BY <1>1, <1>2, PTL DEF Spec

(* If no other fixes were there before the step, none are after it. *)
LEMMA StaysExact == IInv /\ Exact /\ Kept => Exact'
<1> SUFFICES ASSUME IInv, Exact, Kept PROVE Exact'
  OBVIOUS
<1>1. fix_count' \in [PageIds -> Nat]
  BY DEF Kept, IInv, Counts
<1>2. ASSUME NEW i \in PageIds PROVE fix_count'[i] = Bit(i \in Fixed')
  <2>1. Others(fix_count', Fixed', i) = Others(fix_count, Fixed, i) /\ fix_count[i] = Bit(i \in Fixed)
    BY DEF Kept, Exact
  <2> QED
    BY <1>1, <2>1 DEF Others, Bit
<1> QED
  BY <1>1, <1>2 DEF Exact

(* And no call leaves any: the counts are those of the call in progress.   *)
LEMMA FixesAreExact == Spec => [](IInv /\ Exact)
<1>1. Init => IInv /\ Exact
  <2>1. ASSUME Init PROVE Exact
    <3>1. pc = "idle" /\ fix_count = [i \in PageIds |-> 0]
      BY <2>1 DEF Init
    <3> QED
      BY <3>1 DEF Exact, Fixed, Bit
  <2> QED
    BY <2>1, InitIInv
<1>2. IInv /\ Exact /\ [Next]_vars => (IInv /\ Exact)'
  <2>1. ASSUME IInv, Exact, Next PROVE (IInv /\ Exact)'
    BY <2>1, NextKeeps, StaysExact DEF Kept
  <2>2. ASSUME IInv, Exact, UNCHANGED vars PROVE (IInv /\ Exact)'
    <3>1. fix_count' = fix_count /\ Fixed' = Fixed
      BY <2>2 DEF vars, callVars, Fixed
    <3> QED
      BY <2>2, <3>1, StutterKeeps DEF Exact
  <2> QED
    BY <2>1, <2>2
<1> QED
  BY <1>1, <1>2, PTL DEF Spec

-----------------------------------------------------------------------------
(* What follows for the properties the runs check. *)

(* A node of the tree, as TypeOK says it. *)
LEMMA ShapeGivesNode ==
  ASSUME NEW n, ShapeOK(n), Len(n.keys) <= MaxSize(n)
  PROVE  Range(n.keys) \subseteq Keys /\ NodeOK(n)
<1>1. Len(n.keys) \in Nat /\ Ascending(n.keys) /\ n.keys \in Seq(Keys)
  BY InnerFacts, LeafFacts DEF ShapeOK, IsInner, IsOuter
<1>2. Range(n.keys) \subseteq Keys
  BY <1>1 DEF Range
<1>3. \A i \in 1 .. Len(n.keys) - 1 : n.keys[i] < n.keys[i + 1]
  <2>1. ASSUME NEW i \in 1 .. Len(n.keys) - 1 PROVE n.keys[i] < n.keys[i + 1]
    <3>1. i \in 1 .. Len(n.keys) /\ i + 1 \in 1 .. Len(n.keys) /\ i < i + 1
      BY <1>1
    <3> QED
      BY <1>1, <3>1 DEF Ascending
  <2> QED
    BY <2>1
<1>4. CASE n.inner
  <2>1. n.child_ids \in Seq(PageIds) /\ Len(n.child_ids) = Len(n.keys) + 1
    BY <1>4 DEF ShapeOK, IsInner
  <2>2. Range(n.child_ids) \subseteq PageIds
    BY <2>1 DEF Range
  <2> QED
    BY <1>2, <1>3, <1>4, <2>1, <2>2 DEF NodeOK
<1>5. CASE ~n.inner
  <2>1. /\ n.values \in Seq(Values) /\ Len(n.values) = Len(n.keys) /\ n.next_lef_id \in PageIds \cup {0}
    BY <1>5 DEF ShapeOK, IsOuter
  <2>2. Range(n.values) \subseteq Values
    BY <2>1 DEF Range
  <2>3. n.next_lef_id \in 0 .. MaxPages
    BY <2>1, MaxPagesAssumption DEF PageIds
  <2> QED
    BY <1>2, <1>3, <1>5, <2>1, <2>2, <2>3 DEF NodeOK
<1> QED
  BY <1>4, <1>5

(* The invariant has the types in it. *)
LEMMA IInvGivesTypes == IInv => TypeOK
<1> SUFFICES ASSUME IInv PROVE TypeOK
  OBVIOUS
<1>1. PICK lo, hi, h, odd, k : Labelled(lo, hi, h, odd, k)
  BY DEF IInv
<1>2. DOMAIN pages \subseteq PageIds /\ root_id \in DOMAIN pages /\ \A x \in DOMAIN pages : ShapeOK(pages[x])
  BY <1>1, Known, TreeFacts
<1>3. \A x \in DOMAIN pages : Range(pages[x].keys) \subseteq Keys /\ NodeOK(pages[x])
  BY <1>2, ShapeGivesNode DEF IInv, Sized
<1>4. op \in Ops \cup {NoOp}
  BY <1>1, Known DEF Registers, Resting, Walking, ScanningOn, Inserting, Splitting, Deleting, Finding,
     Balancing, OpIs
<1>5. fix_count \in [PageIds -> Nat]
  BY DEF IInv, Counts, Bit
<1> QED
  BY <1>2, <1>3, <1>4, <1>5 DEF TypeOK, IInv, NumbersOK

(* TypeOK: the nodes stay well formed.  No array runs over, keys ascend,   *)
(* an inner node has one child more than keys, and the registers of the    *)
(* call are ids of pages (BPlusTree's own assertions of the node methods). *)
THEOREM TypeCorrect == Spec => []TypeOK
BY TreeIsKept, IInvGivesTypes, PTL

(* The fixes of every page are counted exactly. *)
LEMMA ExactGivesBalance == Exact => FixesAreBalanced
<1> SUFFICES ASSUME Exact PROVE FixesAreBalanced
  OBVIOUS
<1>1. fix_count = [i \in PageIds |-> Bit(i \in Fixed)]
  BY DEF Exact
<1>2. Idle => Fixed = {}
  BY DEF Idle, Fixed
<1> QED
  BY <1>1, <1>2 DEF FixesAreBalanced, Bit

(* FixesAreBalanced: whatever is called, a page is fixed once at a time,   *)
(* unfixed only if fixed, and none is left fixed when the call returns.    *)
THEOREM FixesBalance == Spec => []FixesAreBalanced
BY FixesAreExact, ExactGivesBalance, PTL

(* The invariant has no page left changed and not saved. *)
LEMMA IInvGivesSaved == IInv => WritesAreSaved
  BY DEF IInv, WritesAreSaved

(* WritesAreSaved: a page that was changed is marked dirty before it is    *)
(* unfixed, by every path through insert, update and delete.               *)
THEOREM WritesSaved == Spec => []WritesAreSaved
BY TreeIsKept, IInvGivesSaved, PTL

(* A set of three has at most three elements. *)
LEMMA ThreeAtMost ==
  ASSUME NEW a, NEW b, NEW c, NEW S \in SUBSET {a, b, c}
  PROVE  Cardinality(S) <= 3
<1> DEFINE A == {a}
           B == A \cup {b}
           C == B \cup {c}
<1>1. IsFiniteSet(A) /\ Cardinality(A) = 1
  BY FS_Singleton
<1>2. S \subseteq C
  OBVIOUS
<1> HIDE DEF A
<1>3. IsFiniteSet(B) /\ Cardinality(B) = IF b \in A THEN Cardinality(A) ELSE Cardinality(A) + 1
  BY <1>1, FS_AddElement
<1>4. Cardinality(B) \in 1 .. 2
  BY <1>1, <1>3
<1> HIDE DEF B
<1>5. IsFiniteSet(C) /\ Cardinality(C) = IF c \in B THEN Cardinality(B) ELSE Cardinality(B) + 1
  BY <1>3, FS_AddElement
<1>6. Cardinality(C) \in 1 .. 3
  BY <1>4, <1>5
<1> HIDE DEF C
<1>7. Cardinality(S) <= Cardinality(C) /\ Cardinality(S) \in Nat
  BY <1>2, <1>5, FS_Subset, FS_CardinalityType
<1> QED
  BY <1>6, <1>7

(* The pages fixed before or after a step are among three, named by op. *)
LEMMA StepFixesFew ==
  ASSUME Exact, Exact', Few
  PROVE  Cardinality({id \in PageIds : fix_count[id] > 0 \/ fix_count'[id] > 0}) <= 3
<1> DEFINE S == {id \in PageIds : fix_count[id] > 0 \/ fix_count'[id] > 0}
<1>1. PICK a, b, c : Fixed \cup Fixed' \subseteq {a, b, c}
  BY DEF Few
<1>2. \A i \in PageIds : fix_count[i] = Bit(i \in Fixed) /\ fix_count'[i] = Bit(i \in Fixed')
  BY DEF Exact
<1>3. S \in SUBSET {a, b, c}
  BY <1>1, <1>2 DEF Bit
<1> HIDE DEF S
<1>4. Cardinality(S) <= 3
  BY <1>3, ThreeAtMost
<1> QED
  BY <1>4 DEF S

(* AtMostThreeFixed: no step of a call has more than three pages fixed, so *)
(* a buffer of three frames is enough.                                     *)
THEOREM FewFixed == Spec => AtMostThreeFixed
<1>1. IInv /\ Exact /\ Exact' /\ [Next]_vars
        => [Cardinality({id \in PageIds : fix_count[id] > 0 \/ fix_count'[id] > 0}) <= 3]_vars
  BY NextKeeps, StepFixesFew
<1> QED
  BY <1>1, FixesAreExact, PTL DEF Spec, AtMostThreeFixed

-----------------------------------------------------------------------------
(* The chain of the leaves.  Leaves are on one level, so their spans are   *)
(* apart; the keys of the leaf to the left are smaller, the odd one's too. *)
LEMMA LeavesAreApart ==
  ASSUME NEW pg, NEW root, NEW lo, NEW hi, NEW h, NEW odd, NEW k, Tree(pg, root, lo, hi, h, odd, k),
         NEW x \in DOMAIN pg, ~pg[x].inner, NEW y \in DOMAIN pg, ~pg[y].inner, x # y
  PROVE  h[x] = 0 /\ h[y] = 0 /\ (hi[x] <= lo[y] \/ hi[y] <= lo[x])
<1>1. h[x] = 0 /\ h[y] = 0
  BY DEF Tree, Leaves, LeafOK
<1>2. Apart(lo, hi, x, y) \/ Below_(lo, hi, h, x, y)
  BY <1>1 DEF Tree, Skeleton, Laminar
<1> QED
  BY <1>1, <1>2 DEF Apart, Below_

(* The keys of a leaf: above lo, and all but the odd one up to hi.         *)
LEMMA LeafKeys ==
  ASSUME NEW pg, NEW root, NEW lo, NEW hi, NEW h, NEW odd, NEW k, Tree(pg, root, lo, hi, h, odd, k),
         NEW x \in DOMAIN pg, ~pg[x].inner
  PROVE  /\ Len(pg[x].keys) \in Nat /\ pg[x].keys \in Seq(Int) /\ Ascending(pg[x].keys)
         /\ \A i \in 1 .. Len(pg[x].keys) :
              /\ pg[x].keys[i] \in Int /\ lo[x] < pg[x].keys[i] /\ pg[x].keys[i] < Top
              /\ x # odd => pg[x].keys[i] <= hi[x]
              /\ x = odd => pg[x].keys[i] <= k /\ k \in Int
         /\ x = odd => Len(pg[x].keys) > 1 /\ pg[x].keys[Len(pg[x].keys)] = k
                       /\ pg[x].keys[Len(pg[x].keys) - 1] = hi[x] /\ hi[x] < k
         /\ x # odd /\ hi[x] # Top => Len(pg[x].keys) > 0 /\ pg[x].keys[Len(pg[x].keys)] = hi[x]
<1> DEFINE n == pg[x]
<1>1. IsOuter(n, Keys, Values, PageIds)
  BY TreeFacts DEF ShapeOK
<1>2. /\ Len(n.keys) \in Nat /\ n.keys \in Seq(Int) /\ Ascending(n.keys)
      /\ \A i \in 1 .. Len(n.keys) : n.keys[i] \in Int /\ n.keys[i] \in Keys
  BY <1>1, LeafFacts
<1>3. \A i \in 1 .. Len(n.keys) : n.keys[i] < Top
  BY <1>2, TopIsAbove
<1>4. LeafOK(DOMAIN pg, lo, h, n, lo[x], hi[x], h[x], x = odd, k)
  BY DEF Tree, Leaves
<1> HIDE DEF n
<1>5. CASE x # odd
  <2>1. KeysOK(n, lo[x], hi[x])
    BY <1>4, <1>5 DEF LeafOK
  <2> QED
    BY <1>2, <1>3, <1>5, <2>1 DEF KeysOK, n
<1>6. CASE x = odd
  <2>1. OddKeysOK(n, lo[x], hi[x], k)
    BY <1>4, <1>6 DEF LeafOK
  <2>2. Len(n.keys) > 1 /\ n.keys[Len(n.keys)] = k /\ n.keys[Len(n.keys) - 1] = hi[x] /\ hi[x] < k
        /\ \A i \in 1 .. Len(n.keys) : lo[x] < n.keys[i]
    BY <2>1 DEF OddKeysOK
  <2>3. ASSUME NEW i \in 1 .. Len(n.keys) PROVE n.keys[i] <= k /\ k \in Int
    <3>1. Len(n.keys) \in 1 .. Len(n.keys) /\ i <= Len(n.keys)
      BY <1>2
    <3> QED
      BY <1>2, <2>2, <3>1, AscendingWeakly
  <2> QED
    BY <1>2, <1>3, <1>6, <2>2, <2>3 DEF n
<1> QED
  BY <1>5, <1>6

(* All keys of the leaf on the left are smaller, with or without an odd *)
(* key. *)
LEMMA LeftIsLess ==
  ASSUME NEW pg, NEW root, NEW lo, NEW hi, NEW h, NEW odd, NEW k, Tree(pg, root, lo, hi, h, odd, k),
         NEW x \in DOMAIN pg, ~pg[x].inner, NEW y \in DOMAIN pg, ~pg[y].inner, x # y, hi[x] <= lo[y],
         NEW i \in 1 .. Len(pg[x].keys), NEW j \in 1 .. Len(pg[y].keys)
  PROVE  pg[x].keys[i] < pg[y].keys[j]
<1>1. /\ pg[x].keys[i] \in Int /\ pg[y].keys[j] \in Int /\ lo[y] < pg[y].keys[j]
      /\ x # odd => pg[x].keys[i] <= hi[x]
      /\ x = odd => pg[x].keys[i] <= k /\ k \in Int
  BY LeafKeys
<1>2. hi[x] \in Int /\ lo[y] \in Int /\ 0 \notin DOMAIN pg
  BY TreeFacts
<1>3. CASE x # odd
  BY <1>1, <1>2, <1>3
<1>4. CASE x = odd
  <2>1. pg[y].keys[j] <= hi[x] \/ k < pg[y].keys[j]
    BY <1>2, <1>4 DEF Tree, OddOK
  <2> QED
    BY <1>1, <1>2, <1>4, <2>1
<1> QED
  BY <1>3, <1>4

(* What comes after a leaf that is not empty: nothing, or the leaf whose   *)
(* keys are the next ones.                                                 *)
After(pg, x, y) == ~pg[y].inner /\ \E j \in 1 .. Len(pg[y].keys) : pg[y].keys[j] > Last(pg[x].keys)
(* No key comes after the last leaf. *)
LEMMA LastLeaf ==
  ASSUME NEW pg, NEW root, NEW lo, NEW hi, NEW h, NEW odd, NEW k, Tree(pg, root, lo, hi, h, odd, k),
         NEW x \in DOMAIN pg, ~pg[x].inner, hi[x] = Top
  PROVE  /\ pg[x].next_lef_id = 0 /\ x # odd
         /\ Len(pg[x].keys) > 0 => \A y \in DOMAIN pg : ~After(pg, x, y)
<1>1. pg[x].next_lef_id = 0
  <2>1. NextOK(DOMAIN pg, lo, h, pg[x].next_lef_id, hi[x])
    BY DEF Tree, Leaves, LeafOK
  <2>2. \A y \in DOMAIN pg : lo[y] # Top
    <3>1. \A y \in DOMAIN pg : lo[y] \in Int /\ hi[y] \in Int /\ lo[y] < hi[y] /\ hi[y] <= Top
      BY TreeFacts
    <3> QED
      BY <3>1, TopIsAbove
  <2> QED
    BY <2>1, <2>2 DEF NextOK
<1>2. x # odd
  <2>1. x = odd => Len(pg[x].keys) > 1 /\ pg[x].keys[Len(pg[x].keys)] = k /\ hi[x] < k
    BY LeafKeys
  <2>2. /\ Len(pg[x].keys) \in Nat /\ \A i \in 1 .. Len(pg[x].keys) : pg[x].keys[i] \in Int /\ pg[x].keys[i] < Top
    BY LeafKeys
  <2> QED
    BY <2>1, <2>2, TopIsAbove
<1>3. ASSUME Len(pg[x].keys) > 0, NEW y \in DOMAIN pg, ~pg[y].inner, NEW j \in 1 .. Len(pg[y].keys),
             pg[y].keys[j] > Last(pg[x].keys)
      PROVE  FALSE
  <2> DEFINE z == Len(pg[x].keys)
  <2>1. z \in Nat /\ z \in 1 .. z /\ Last(pg[x].keys) = pg[x].keys[z] /\ pg[x].keys \in Seq(Int) /\ Ascending(pg[x].keys)
        /\ pg[x].keys[z] \in Int /\ pg[y].keys[j] \in Int
    <3>1. z \in Nat /\ pg[x].keys \in Seq(Int) /\ Ascending(pg[x].keys)
      BY LeafKeys
    <3>2. \A i \in 1 .. Len(pg[y].keys) : pg[y].keys[i] \in Int
      BY <1>3, LeafKeys
    <3> QED
      BY <1>3, <3>1, <3>2 DEF Last
  <2>2. CASE y = x
    BY <1>3, <2>1, <2>2, AscendingWeakly
  <2>3. CASE y # x
    <3>1. hi[x] <= lo[y] \/ hi[y] <= lo[x]
      BY <1>3, <2>3, LeavesAreApart
    <3>2. lo[y] \in Int /\ hi[y] \in Int /\ lo[y] < hi[y] /\ hi[y] <= Top
      BY TreeFacts
    <3>3. hi[y] <= lo[x]
      BY <3>1, <3>2, TopIsAbove
    <3>4. pg[y].keys[j] < pg[x].keys[z]
      BY <1>3, <2>1, <2>3, <3>3, LeftIsLess
    <3> QED
      BY <1>3, <2>1, <3>4
  <2> QED
    BY <2>2, <2>3
<1> QED
  BY <1>1, <1>2, <1>3 DEF After

(* The next leaf begins with the next key. *)
LEMMA NextLeaf ==
  ASSUME NEW pg, NEW root, NEW lo, NEW hi, NEW h, NEW odd, NEW k, Tree(pg, root, lo, hi, h, odd, k),
         Sized(pg, root), NEW x \in DOMAIN pg, ~pg[x].inner, hi[x] # Top
  PROVE  LET y == pg[x].next_lef_id IN
         /\ y \in DOMAIN pg /\ ~pg[y].inner /\ lo[y] = hi[x] /\ y # x
         /\ Len(pg[x].keys) > 0 /\ Len(pg[y].keys) > 0
         /\ pg[y].keys[1] > Last(pg[x].keys)
         /\ \A z \in DOMAIN pg : ~pg[z].inner =>
              \A j \in 1 .. Len(pg[z].keys) :
                pg[z].keys[j] > Last(pg[x].keys) => pg[z].keys[j] >= pg[y].keys[1]
<1> DEFINE y == pg[x].next_lef_id
           last == Len(pg[x].keys)
<1>1. NextOK(DOMAIN pg, lo, h, y, hi[x])
  BY DEF Tree, Leaves, LeafOK
<1>2. y \in DOMAIN pg /\ h[y] = 0 /\ lo[y] = hi[x]
  BY <1>1 DEF NextOK
<1> HIDE DEF y
<1>3. ~pg[y].inner
  BY <1>2, LeavesAreLowest DEF Tree
<1>4. /\ lo[x] \in Int /\ hi[x] \in Int /\ lo[x] < hi[x] /\ -1 <= lo[x] /\ lo[root] = -1
      /\ lo[y] \in Int /\ hi[y] \in Int /\ lo[y] < hi[y]
  BY <1>2, TreeFacts
<1>5. y # x /\ y # root
  BY <1>2, <1>4
<1>6. last \in Nat /\ pg[x].keys \in Seq(Int) /\ Ascending(pg[x].keys) /\ last > 0
  BY LeafKeys
<1>7. last \in 1 .. last /\ Last(pg[x].keys) = pg[x].keys[last]
  BY <1>6 DEF Last
<1>8. Len(pg[y].keys) \in Nat /\ Len(pg[y].keys) > 0 /\ pg[y].keys \in Seq(Int) /\ Ascending(pg[y].keys)
  <2>1. Len(pg[y].keys) \in Nat /\ pg[y].keys \in Seq(Int) /\ Ascending(pg[y].keys)
    BY <1>2, <1>3, LeafKeys
  <2>2. ~IsTooEmpty(pg[y])
    BY <1>2, <1>5 DEF Sized
  <2>3. ~(Len(pg[y].keys) < Half)
    BY <1>3, <2>1, <2>2, OuterSizes
  <2>4. Len(pg[y].keys) > 0
    BY <2>1, <2>3, HalfIs
  <2> QED
    BY <2>1, <2>4
<1>9. 1 \in 1 .. Len(pg[y].keys)
  BY <1>8
<1>10. pg[x].keys[last] < pg[y].keys[1]
  <2>1. hi[x] <= lo[y]
    BY <1>2, <1>4
  <2> QED
    BY <1>2, <1>3, <1>5, <1>7, <1>9, <2>1, LeftIsLess
<1>11. pg[x].keys[last] \in Int /\ pg[y].keys[1] \in Int
  BY <1>6, <1>7, <1>8, <1>9
<1>12. ASSUME NEW z \in DOMAIN pg, ~pg[z].inner, NEW j \in 1 .. Len(pg[z].keys),
              pg[z].keys[j] > pg[x].keys[last]
       PROVE  pg[z].keys[j] >= pg[y].keys[1]
  <2>1. pg[z].keys \in Seq(Int) /\ Ascending(pg[z].keys) /\ Len(pg[z].keys) \in Nat
    BY <1>12, LeafKeys
  <2>2. pg[z].keys[j] \in Int
    BY <2>1
  <2>3. lo[z] \in Int /\ hi[z] \in Int /\ lo[z] < hi[z]
    BY TreeFacts
  <2>4. CASE z = x
    <3>1. j \in 1 .. last /\ j <= last
      BY <1>6, <2>4
    <3>2. pg[x].keys[j] <= pg[x].keys[last]
      BY <1>6, <1>7, <3>1, AscendingWeakly
    <3> QED
      BY <1>11, <1>12, <2>2, <2>4, <3>2
  <2>5. CASE z = y
    <3>1. 1 <= j
      BY <2>1
    <3>2. pg[z].keys[1] <= pg[z].keys[j]
      BY <1>9, <2>1, <2>5, <3>1, AscendingWeakly
    <3> QED
      BY <1>11, <2>2, <2>5, <3>2
  <2>6. CASE z # x /\ z # y
    <3>1. (hi[x] <= lo[z] \/ hi[z] <= lo[x]) /\ (hi[y] <= lo[z] \/ hi[z] <= lo[y])
      BY <1>2, <1>3, <1>12, <2>6, LeavesAreApart
    <3>2. ~(hi[z] <= lo[x])
      <4>1. ASSUME hi[z] <= lo[x] PROVE FALSE
        <5>1. pg[z].keys[j] < pg[x].keys[last]
          BY <1>7, <1>12, <2>6, <4>1, LeftIsLess
        <5> QED
          BY <1>11, <1>12, <2>2, <5>1
      <4> QED
        BY <4>1
    <3>3. hi[y] <= lo[z]
      BY <1>2, <1>4, <2>3, <3>1, <3>2
    <3>4. pg[y].keys[1] < pg[z].keys[j]
      BY <1>2, <1>3, <1>9, <1>12, <2>6, <3>3, LeftIsLess
    <3> QED
      BY <1>11, <2>2, <3>4
  <2> QED
    BY <2>4, <2>5, <2>6
<1>13. pg[y].keys[1] > Last(pg[x].keys)
  BY <1>7, <1>10, <1>11
<1> QED
  BY <1>2, <1>3, <1>5, <1>6, <1>7, <1>8, <1>12, <1>13 DEF y

(* The stored keys, by the places they are in. *)
LEMMA StoredIs ==
  ASSUME NEW lo, NEW hi, NEW h, NEW odd, NEW k, Labelled(lo, hi, h, odd, k), NEW q
  PROVE  q \in StoredKeys <=>
           \E z \in DOMAIN pages : ~pages[z].inner /\ \E j \in 1 .. Len(pages[z].keys) : pages[z].keys[j] = q
<1>1. ASSUME NEW z \in DOMAIN pages, ~pages[z].inner
      PROVE  q \in Range(pages[z].keys) <=> \E j \in 1 .. Len(pages[z].keys) : pages[z].keys[j] = q
  <2>1. pages[z].keys \in Seq(Int)
    BY <1>1, Known, LeafKeys
  <2> QED
    BY <2>1 DEF Range
<1>2. q \in StoredKeys <=> \E z \in DOMAIN pages : ~pages[z].inner /\ q \in Range(pages[z].keys)
  BY DEF StoredKeys
<1> QED
  BY <1>1, <1>2

(* The links of the labelled tree run through its leaves by their spans. *)
LEMMA IInvGivesChain == IInv => LeafChainIsOrdered
<1> SUFFICES ASSUME IInv, NEW id \in Outer
             PROVE  LET leaf == pages[id]
                        above == {q \in StoredKeys : leaf.keys # << >> /\ q > Last(leaf.keys)}
                    IN  IF above = {} THEN leaf.next_lef_id = 0
                        ELSE /\ leaf.next_lef_id \in Outer
                             /\ pages[leaf.next_lef_id].keys # << >>
                             /\ Head(pages[leaf.next_lef_id].keys) \in above
                             /\ \A q \in above : q >= Head(pages[leaf.next_lef_id].keys)
  BY DEF LeafChainIsOrdered
<1>1. PICK lo, hi, h, odd, k : Labelled(lo, hi, h, odd, k)
  BY DEF IInv
<1>2. id \in DOMAIN pages /\ ~pages[id].inner
  BY DEF Outer, Inner
<1>3. Tree(pages, root_id, lo, hi, h, odd, k) /\ Sized(pages, root_id)
  BY <1>1, Known DEF IInv
<1> DEFINE leaf == pages[id]
           next == leaf.next_lef_id
           above == {q \in StoredKeys : leaf.keys # << >> /\ q > Last(leaf.keys)}
<1>4. Len(leaf.keys) \in Nat /\ leaf.keys \in Seq(Int)
  BY <1>2, <1>3, LeafKeys
<1>5. CASE hi[id] = Top
  <2>1. next = 0 /\ (Len(leaf.keys) > 0 => \A y \in DOMAIN pages : ~After(pages, id, y))
    BY <1>2, <1>3, <1>5, LastLeaf
  <2>2. above = {}
    <3>1. SUFFICES ASSUME NEW q \in StoredKeys, leaf.keys # << >>, q > Last(leaf.keys) PROVE FALSE
      OBVIOUS
    <3>2. Len(leaf.keys) > 0
      BY <1>4, <3>1
    <3>3. PICK z \in DOMAIN pages : ~pages[z].inner /\ \E j \in 1 .. Len(pages[z].keys) : pages[z].keys[j] = q
      BY <1>1, StoredIs
    <3> QED
      BY <2>1, <3>1, <3>2, <3>3 DEF After
  <2> QED
    BY <2>1, <2>2
<1>6. CASE hi[id] # Top
  <2>1. /\ next \in DOMAIN pages /\ ~pages[next].inner
        /\ Len(leaf.keys) > 0 /\ Len(pages[next].keys) > 0
        /\ pages[next].keys[1] > Last(leaf.keys)
        /\ \A z \in DOMAIN pages : ~pages[z].inner =>
             \A j \in 1 .. Len(pages[z].keys) :
               pages[z].keys[j] > Last(leaf.keys) => pages[z].keys[j] >= pages[next].keys[1]
    BY <1>2, <1>3, <1>6, NextLeaf
  <2>2. next \in Outer
    BY <2>1 DEF Outer, Inner
  <2>3. pages[next].keys \in Seq(Int) /\ 1 \in 1 .. Len(pages[next].keys)
    BY <1>3, <2>1, LeafKeys
  <2>4. pages[next].keys # << >> /\ Head(pages[next].keys) = pages[next].keys[1] /\ leaf.keys # << >>
    BY <2>1, <2>3
  <2>5. pages[next].keys[1] \in StoredKeys
    BY <1>1, <2>1, <2>3, StoredIs
  <2>6. pages[next].keys[1] \in above
    BY <2>1, <2>4, <2>5
  <2>7. ASSUME NEW q \in above PROVE q >= pages[next].keys[1]
    <3>1. q \in StoredKeys /\ q > Last(leaf.keys)
      OBVIOUS
    <3>2. PICK z \in DOMAIN pages : ~pages[z].inner /\ \E j \in 1 .. Len(pages[z].keys) : pages[z].keys[j] = q
      BY <1>1, <3>1, StoredIs
    <3> QED
      BY <2>1, <3>1, <3>2
  <2> QED
    BY <2>2, <2>4, <2>6, <2>7
<1> QED
  BY <1>5, <1>6

(* LeafChainIsOrdered: the chain a scan follows has all stored keys in     *)
(* their order, also while an insert or a delete is rearranging the tree.  *)
THEOREM ChainOrdered == Spec => []LeafChainIsOrdered
BY TreeIsKept, IInvGivesChain, PTL

-----------------------------------------------------------------------------
(* The B+ tree implements the map KVStore: steps that move entries between *)
(* leaves leave the map as it is, a call's last step changes the one entry *)
(* it is about, and a scan collects the entries in order along the chain   *)
(* of leaves.                                                              *)

(* M is the map of the entries that the leaves hold. *)
IsMapOf(M, pg) ==
  /\ M = [q \in DOMAIN M |-> M[q]]
  /\ \A q : q \in DOMAIN M <=> \E v : Held(pg, q, v)
  /\ \A q, v : Held(pg, q, v) => M[q] = v

-----------------------------------------------------------------------------
(* Of the leaves of a sound tree only one has a given key, in one place.   *)
LEMMA HeldOnce ==
  ASSUME NEW pg, NEW root, NEW lo, NEW hi, NEW h, NEW odd, NEW k, Tree(pg, root, lo, hi, h, odd, k),
         NEW x \in DOMAIN pg, ~pg[x].inner, NEW i \in 1 .. Len(pg[x].keys),
         NEW y \in DOMAIN pg, ~pg[y].inner, NEW j \in 1 .. Len(pg[y].keys),
         pg[x].keys[i] = pg[y].keys[j]
  PROVE  x = y /\ i = j
<1>1. pg[x].keys[i] \in Int /\ pg[y].keys[j] \in Int
  BY LeafKeys
<1>2. x = y
  <2>1. SUFFICES ASSUME x # y PROVE FALSE
    OBVIOUS
  <2>2. hi[x] <= lo[y] \/ hi[y] <= lo[x]
    BY <2>1, LeavesAreApart
  <2>3. pg[x].keys[i] < pg[y].keys[j] \/ pg[y].keys[j] < pg[x].keys[i]
    BY <2>1, <2>2, LeftIsLess
  <2> QED
    BY <1>1, <2>3
<1>3. Len(pg[x].keys) \in Nat /\ Ascending(pg[x].keys)
  BY LeafKeys
<1>4. ~(i < j) /\ ~(j < i)
  BY <1>1, <1>2, <1>3 DEF Ascending
<1> QED
  BY <1>2, <1>3, <1>4

(* The refinement mapping reads the map off the leaves. *)
LEMMA ContentsAre == IInv => IsMapOf(Contents, pages)
<1> SUFFICES ASSUME IInv PROVE IsMapOf(Contents, pages)
  OBVIOUS
<1>1. PICK lo, hi, h, odd, k : Labelled(lo, hi, h, odd, k)
  BY DEF IInv
<1>2. Tree(pages, root_id, lo, hi, h, odd, k)
  BY <1>1, Known
<1>3. \A q : q \in StoredKeys <=> \E v : Held(pages, q, v)
  <2>1. SUFFICES ASSUME NEW q PROVE q \in StoredKeys <=> \E v : Held(pages, q, v)
    OBVIOUS
  <2>2. q \in StoredKeys <=>
          \E z \in DOMAIN pages : ~pages[z].inner /\ \E j \in 1 .. Len(pages[z].keys) : pages[z].keys[j] = q
    BY <1>1, StoredIs
  <2> QED
    BY <2>2 DEF Held, HasEntry
<1>4. ASSUME NEW q, NEW v, Held(pages, q, v) PROVE q \in StoredKeys /\ Contents[q] = v
  <2>1. PICK z \in DOMAIN pages : ~pages[z].inner /\ HasEntry(pages[z], q, v)
    BY <1>4 DEF Held
  <2>2. PICK j \in 1 .. Len(pages[z].keys) : pages[z].keys[j] = q /\ pages[z].values[j] = v
    BY <2>1 DEF HasEntry
  <2> DEFINE id == CHOOSE i \in Outer : q \in Range(pages[i].keys)
  <2>3. q \in StoredKeys
    BY <1>3, <1>4
  <2>4. z \in Outer /\ q \in Range(pages[z].keys)
    <3>1. pages[z].keys \in Seq(Int)
      BY <1>2, <2>1, LeafKeys
    <3> QED
      BY <2>1, <2>2, <3>1 DEF Outer, Inner, Range
  <2>5. id \in Outer /\ q \in Range(pages[id].keys)
    BY <2>4
  <2>6. Contents[q] = pages[id].values[Position(pages[id], q)]
    BY <2>3 DEF Contents
  <2> HIDE DEF id
  <2>7. id \in DOMAIN pages /\ ~pages[id].inner
    BY <2>5 DEF Outer, Inner
  <2>8. PICK i \in 1 .. Len(pages[id].keys) : pages[id].keys[i] = q
    <3>1. pages[id].keys \in Seq(Int)
      BY <1>2, <2>7, LeafKeys
    <3> QED
      BY <2>5, <3>1 DEF Range
  <2>9. id = z
    BY <1>2, <2>1, <2>2, <2>7, <2>8, HeldOnce
  <2>10. Position(pages[z], q) = j
    <3>1. pages[z].keys \in Seq(Int) /\ Ascending(pages[z].keys)
      BY <1>2, <2>1, LeafKeys
    <3> QED
      BY <2>2, <3>1, PositionOfKey
  <2> QED
    BY <2>2, <2>3, <2>6, <2>9, <2>10
<1>5. DOMAIN Contents = StoredKeys /\ Contents = [q \in DOMAIN Contents |-> Contents[q]]
  BY DEF Contents
<1> QED
  BY <1>3, <1>4, <1>5 DEF IsMapOf

(* Pages that hold the same entries are the same map. *)
LEMMA SameMap ==
  ASSUME NEW M, NEW pg, IsMapOf(M, pg), NEW M2, NEW pg2, IsMapOf(M2, pg2), SameHeld(pg, pg2)
  PROVE  M2 = M
<1>1. DOMAIN M2 = DOMAIN M
  BY DEF IsMapOf, SameHeld
<1>2. ASSUME NEW q \in DOMAIN M PROVE M2[q] = M[q]
  BY <1>2 DEF IsMapOf, SameHeld
<1>3. M = [q \in DOMAIN M |-> M[q]] /\ M2 = [q \in DOMAIN M2 |-> M2[q]]
  BY DEF IsMapOf
<1> QED
  BY <1>1, <1>2, <1>3

(* How the writes of a call change the entries. *)
Inserted(pg, pg2, key, value) ==
  \A q, v : Held(pg2, q, v) <=> Held(pg, q, v) \/ (q = key /\ v = value)
Updated(pg, pg2, key, value) ==
  \A q, v : Held(pg2, q, v) <=>
    IF q = key THEN v = value /\ \E w : Held(pg, q, w) ELSE Held(pg, q, v)
Removed(pg, pg2, key) ==
  \A q, v : Held(pg2, q, v) <=> Held(pg, q, v) /\ q # key

(* The map then changes as KVStore says. *)
LEMMA MapInserted ==
  ASSUME NEW M, NEW pg, IsMapOf(M, pg), NEW M2, NEW pg2, IsMapOf(M2, pg2),
         NEW key, NEW value, Inserted(pg, pg2, key, value)
  PROVE  M2 = [q \in DOMAIN M \cup {key} |-> IF q = key THEN value ELSE M[q]]
<1>1. DOMAIN M2 = DOMAIN M \cup {key}
  BY DEF IsMapOf, Inserted
<1>2. M2[key] = value
  BY DEF IsMapOf, Inserted
<1>3. ASSUME NEW q \in DOMAIN M, q # key PROVE M2[q] = M[q]
  BY <1>3 DEF IsMapOf, Inserted
<1>4. M2 = [q \in DOMAIN M2 |-> M2[q]]
  BY DEF IsMapOf
<1> QED
  BY <1>1, <1>2, <1>3, <1>4

(* An update changes the value of a key that is there. *)
LEMMA MapUpdated ==
  ASSUME NEW M, NEW pg, IsMapOf(M, pg), NEW M2, NEW pg2, IsMapOf(M2, pg2),
         NEW key, NEW value, Updated(pg, pg2, key, value)
  PROVE  M2 = [q \in DOMAIN M |-> IF q = key THEN value ELSE M[q]]
<1>1. DOMAIN M2 = DOMAIN M
  BY DEF IsMapOf, Updated
<1>2. key \in DOMAIN M => M2[key] = value
  BY DEF IsMapOf, Updated
<1>3. ASSUME NEW q \in DOMAIN M, q # key PROVE M2[q] = M[q]
  BY <1>3 DEF IsMapOf, Updated
<1>4. M2 = [q \in DOMAIN M2 |-> M2[q]]
  BY DEF IsMapOf
<1> QED
  BY <1>1, <1>2, <1>3, <1>4

(* A deletion takes the key out. *)
MapLess(M, key) == [q \in DOMAIN M \ {key} |-> M[q]]
LEMMA MapRemoved ==
  ASSUME NEW M, NEW pg, IsMapOf(M, pg), NEW M2, NEW pg2, IsMapOf(M2, pg2),
         NEW key, Removed(pg, pg2, key)
  PROVE  M2 = MapLess(M, key)
<1>1. DOMAIN M2 = DOMAIN M \ {key}
  BY DEF IsMapOf, Removed
<1>2. ASSUME NEW q \in DOMAIN M2 PROVE M2[q] = M[q]
  BY <1>2 DEF IsMapOf, Removed
<1>3. M2 = [q \in DOMAIN M2 |-> M2[q]]
  BY DEF IsMapOf
<1> QED
  BY <1>1, <1>2, <1>3 DEF MapLess

-----------------------------------------------------------------------------
(* The three writes of a leaf, by its entries. *)
LEMMA InsertedEntry ==
  ASSUME NEW n, IsOuter(n, Keys, Values, PageIds), NEW key \in Keys, NEW value \in Values, ~HasKey(n, key),
         NEW q, NEW v
  PROVE  HasEntry(OuterInsert(n, key, value), q, v) <=> HasEntry(n, q, v) \/ (q = key /\ v = value)
<1> DEFINE r == OuterInsert(n, key, value)
           p == Position(n, key)
           w == Len(n.keys)
<1>1. /\ IsOuter(r, Keys, Values, PageIds) /\ p \in 1 .. w + 1
      /\ IsWith(r.keys, n.keys, p, key) /\ IsWith(r.values, n.values, p, value)
  BY KeysAreInts, OuterInsertIs
<1>2. w \in Nat /\ Len(n.values) = w /\ Len(r.keys) = w + 1
  BY <1>1, LeafFacts DEF IsOuter, IsWith
<1>3. /\ \A i \in 1 .. w + 1 : r.keys[i] = IF i < p THEN n.keys[i] ELSE IF i = p THEN key ELSE n.keys[i - 1]
      /\ \A i \in 1 .. w + 1 : r.values[i] = IF i < p THEN n.values[i] ELSE IF i = p THEN value ELSE n.values[i - 1]
  BY <1>1, <1>2 DEF IsWith
<1> HIDE DEF r, p, w
<1>4. ASSUME NEW i \in 1 .. w, n.keys[i] = q, n.values[i] = v
      PROVE  \E j \in 1 .. w + 1 : r.keys[j] = q /\ r.values[j] = v
  <2>1. CASE i < p
    <3>1. i \in 1 .. w + 1
      BY <1>2
    <3>2. r.keys[i] = q /\ r.values[i] = v
      BY <1>3, <1>4, <2>1, <3>1
    <3> QED
      BY <3>1, <3>2
  <2>2. CASE ~(i < p)
    <3>1. i + 1 \in 1 .. w + 1 /\ ~(i + 1 < p) /\ i + 1 # p /\ (i + 1) - 1 = i
      BY <1>1, <1>2, <2>2
    <3>2. r.keys[i + 1] = q /\ r.values[i + 1] = v
      BY <1>3, <1>4, <3>1
    <3> QED
      BY <3>1, <3>2
  <2> QED
    BY <2>1, <2>2
<1>5. r.keys[p] = key /\ r.values[p] = value
  BY <1>1, <1>3
<1>6. ASSUME NEW j \in 1 .. w + 1, r.keys[j] = q, r.values[j] = v
      PROVE  (q = key /\ v = value) \/ \E i \in 1 .. w : n.keys[i] = q /\ n.values[i] = v
  <2>1. CASE j < p
    <3>1. j \in 1 .. w
      BY <1>1, <1>2, <2>1
    <3> QED
      BY <1>3, <1>6, <2>1, <3>1
  <2>2. CASE j = p
    BY <1>5, <1>6, <2>2
  <2>3. CASE ~(j < p) /\ j # p
    <3>1. j - 1 \in 1 .. w
      BY <1>1, <1>2, <2>3
    <3> QED
      BY <1>3, <1>6, <2>3, <3>1
  <2> QED
    BY <2>1, <2>2, <2>3
<1> QED
  BY <1>1, <1>2, <1>4, <1>5, <1>6 DEF HasEntry, r, w

(* An update of a leaf. *)
LEMMA UpdatedEntry ==
  ASSUME NEW n, IsOuter(n, Keys, Values, PageIds), NEW key \in Keys, NEW value \in Values, NEW q, NEW v
  PROVE  HasEntry(OuterUpdate(n, key, value), q, v) <=>
           IF q = key THEN v = value /\ \E u : HasEntry(n, q, u) ELSE HasEntry(n, q, v)
<1> DEFINE r == OuterUpdate(n, key, value)
           p == Position(n, key)
           w == Len(n.keys)
<1>1. /\ r.keys = n.keys
      /\ IF HasKey(n, key) THEN IsAltered(r.values, n.values, p, value) ELSE r.values = n.values
  BY KeysAreInts, OuterUpdateIs
<1>2. w \in Nat /\ Len(n.values) = w /\ n.keys \in Seq(Int) /\ Ascending(n.keys) /\ key \in Int
  BY LeafFacts, KeysAreInts DEF IsOuter
<1>3. HasKey(n, key) <=> \E i \in 1 .. w : n.keys[i] = key
  BY <1>2, HasKeyMeans
<1>4. \A i \in 1 .. w : n.keys[i] = key => i = p
  BY <1>2, PositionOfKey
<1>5. HasKey(n, key) => p \in 1 .. w /\ n.keys[p] = key
  BY <1>2, <1>3, <1>4
<1>6. \A i \in 1 .. w : r.values[i] = IF n.keys[i] = key THEN value ELSE n.values[i]
  <2>1. CASE HasKey(n, key)
    <3>1. \A i \in 1 .. w : r.values[i] = IF i = p THEN value ELSE n.values[i]
      BY <1>1, <1>2, <2>1 DEF IsAltered
    <3> QED
      BY <1>4, <1>5, <2>1, <3>1
  <2>2. CASE ~HasKey(n, key)
    BY <1>1, <1>3, <2>2
  <2> QED
    BY <2>1, <2>2
<1> HIDE DEF r, w, p
<1>7. HasEntry(r, q, v) <=> \E i \in 1 .. w : n.keys[i] = q /\ r.values[i] = v
  BY <1>1 DEF HasEntry, w
<1>8. \A u : HasEntry(n, q, u) <=> \E i \in 1 .. w : n.keys[i] = q /\ n.values[i] = u
  BY DEF HasEntry, w
<1>9. CASE q = key
  BY <1>6, <1>7, <1>8, <1>9 DEF r
<1>10. CASE q # key
  BY <1>6, <1>7, <1>8, <1>10 DEF r
<1> QED
  BY <1>9, <1>10

(* A deletion from a leaf. *)
LEMMA RemovedEntry ==
  ASSUME NEW n, IsOuter(n, Keys, Values, PageIds), NEW key \in Keys, NEW q, NEW v
  PROVE  HasEntry(OuterDelete(n, key), q, v) <=> HasEntry(n, q, v) /\ q # key
<1> DEFINE r == OuterDelete(n, key)
           p == Position(n, key)
           w == Len(n.keys)
<1>1. w \in Nat /\ Len(n.values) = w /\ n.keys \in Seq(Int) /\ Ascending(n.keys) /\ key \in Int
  BY LeafFacts, KeysAreInts DEF IsOuter
<1>2. HasKey(n, key) <=> \E i \in 1 .. w : n.keys[i] = key
  BY <1>1, HasKeyMeans
<1>3. CASE ~HasKey(n, key)
  <2>1. r = n
    BY <1>3 DEF OuterDelete
  <2> QED
    BY <1>2, <1>3, <2>1 DEF HasEntry
<1>4. CASE HasKey(n, key)
  <2>1. /\ IsOuter(r, Keys, Values, PageIds) /\ p \in 1 .. w /\ n.keys[p] = key
        /\ IsWithout(r.keys, n.keys, p) /\ IsWithout(r.values, n.values, p)
    BY <1>4, KeysAreInts, OuterDeleteIs
  <2>2. Len(r.keys) = w - 1
    BY <2>1 DEF IsWithout
  <2>3. /\ \A i \in 1 .. w - 1 : r.keys[i] = IF i < p THEN n.keys[i] ELSE n.keys[i + 1]
        /\ \A i \in 1 .. w - 1 : r.values[i] = IF i < p THEN n.values[i] ELSE n.values[i + 1]
    BY <1>1, <2>1 DEF IsWithout
  <2>4. \A i \in 1 .. w : n.keys[i] = key <=> i = p
    BY <1>1, <2>1, PositionOfKey
  <2> HIDE DEF r, p, w
  <2>5. ASSUME NEW j \in 1 .. w - 1, r.keys[j] = q, r.values[j] = v
        PROVE  q # key /\ \E i \in 1 .. w : n.keys[i] = q /\ n.values[i] = v
    <3>1. CASE j < p
      <4>1. j \in 1 .. w /\ j # p
        BY <1>1, <2>1, <3>1
      <4> QED
        BY <2>3, <2>4, <2>5, <3>1, <4>1
    <3>2. CASE ~(j < p)
      <4>1. j + 1 \in 1 .. w /\ j + 1 # p
        BY <1>1, <2>1, <3>2
      <4> QED
        BY <2>3, <2>4, <2>5, <3>2, <4>1
    <3> QED
      BY <3>1, <3>2
  <2>6. ASSUME NEW i \in 1 .. w, n.keys[i] = q, n.values[i] = v, q # key
        PROVE  \E j \in 1 .. w - 1 : r.keys[j] = q /\ r.values[j] = v
    <3>1. i # p
      BY <2>4, <2>6
    <3>2. CASE i < p
      <4>1. i \in 1 .. w - 1
        BY <1>1, <2>1, <3>2
      <4>2. r.keys[i] = q /\ r.values[i] = v
        BY <2>3, <2>6, <3>2, <4>1
      <4> QED
        BY <4>1, <4>2
    <3>3. CASE ~(i < p)
      <4>1. i - 1 \in 1 .. w - 1 /\ ~(i - 1 < p) /\ (i - 1) + 1 = i
        BY <1>1, <2>1, <3>1, <3>3
      <4>2. r.keys[i - 1] = q /\ r.values[i - 1] = v
        BY <2>3, <2>6, <4>1
      <4> QED
        BY <4>1, <4>2
    <3> QED
      BY <3>2, <3>3
  <2> QED
    BY <2>2, <2>5, <2>6 DEF HasEntry, r, w
<1> QED
  BY <1>3, <1>4

(* The entries of the other leaves, when one leaf is replaced. *)
InOther(pg, x, q, v) == \E y \in DOMAIN pg : y # x /\ ~pg[y].inner /\ HasEntry(pg[y], q, v)
Replaced(pg, pg2, x, n) ==
  /\ x \in DOMAIN pg /\ ~pg[x].inner /\ IsOuter(pg[x], Keys, Values, PageIds)
  /\ DOMAIN pg2 = DOMAIN pg /\ pg2[x] = n /\ ~n.inner
  /\ \A y \in DOMAIN pg : y # x => pg2[y] = pg[y]
Alone(pg, x, key) ==
  \A y \in DOMAIN pg : ~pg[y].inner /\ y # x => \A j \in 1 .. Len(pg[y].keys) : pg[y].keys[j] # key

(* An entry is in the leaf that was replaced, or in another one. *)
LEMMA HeldThere ==
  ASSUME NEW pg, NEW pg2, NEW x, NEW n, Replaced(pg, pg2, x, n), NEW q, NEW v
  PROVE  /\ Held(pg, q, v) <=> HasEntry(pg[x], q, v) \/ InOther(pg, x, q, v)
         /\ Held(pg2, q, v) <=> HasEntry(n, q, v) \/ InOther(pg, x, q, v)
<1>1. Held(pg, q, v) <=> HasEntry(pg[x], q, v) \/ InOther(pg, x, q, v)
  BY DEF Replaced, Held, InOther
<1>2. Held(pg2, q, v) <=> HasEntry(n, q, v) \/ InOther(pg, x, q, v)
  BY DEF Replaced, Held, InOther
<1> QED
  BY <1>1, <1>2

(* InsertAtLeaf adds one entry to the map. *)
LEMMA LeafInserts ==
  ASSUME NEW pg, NEW pg2, NEW x, NEW key \in Keys, NEW value \in Values,
         Replaced(pg, pg2, x, OuterInsert(pg[x], key, value)), ~HasKey(pg[x], key)
  PROVE  Inserted(pg, pg2, key, value)
<1> DEFINE n == OuterInsert(pg[x], key, value)
<1>1. Replaced(pg, pg2, x, n) /\ IsOuter(pg[x], Keys, Values, PageIds)
  BY DEF Replaced
<1>2. \A q, v : HasEntry(n, q, v) <=> HasEntry(pg[x], q, v) \/ (q = key /\ v = value)
  BY <1>1, InsertedEntry
<1> HIDE DEF n
<1>3. \A q, v : /\ Held(pg, q, v) <=> HasEntry(pg[x], q, v) \/ InOther(pg, x, q, v)
                /\ Held(pg2, q, v) <=> HasEntry(n, q, v) \/ InOther(pg, x, q, v)
  BY <1>1, HeldThere
<1> QED
  BY <1>2, <1>3 DEF Inserted

(* UpdateAtLeaf changes the value of its key. *)
LEMMA LeafUpdates ==
  ASSUME NEW pg, NEW pg2, NEW x, NEW key \in Keys, NEW value \in Values,
         Replaced(pg, pg2, x, OuterUpdate(pg[x], key, value)), Alone(pg, x, key)
  PROVE  Updated(pg, pg2, key, value)
<1> DEFINE n == OuterUpdate(pg[x], key, value)
<1>1. Replaced(pg, pg2, x, n) /\ IsOuter(pg[x], Keys, Values, PageIds)
  BY DEF Replaced
<1>2. \A q, v : HasEntry(n, q, v) <=>
                  IF q = key THEN v = value /\ \E u : HasEntry(pg[x], q, u) ELSE HasEntry(pg[x], q, v)
  BY <1>1, UpdatedEntry
<1> HIDE DEF n
<1>3. \A q, v : /\ Held(pg, q, v) <=> HasEntry(pg[x], q, v) \/ InOther(pg, x, q, v)
                /\ Held(pg2, q, v) <=> HasEntry(n, q, v) \/ InOther(pg, x, q, v)
  BY <1>1, HeldThere
<1>4. \A v : ~InOther(pg, x, key, v)
  BY DEF Alone, InOther, HasEntry
<1> QED
  BY <1>2, <1>3, <1>4 DEF Updated

(* DeleteAtLeaf takes its key out. *)
LEMMA LeafRemoves ==
  ASSUME NEW pg, NEW pg2, NEW x, NEW key \in Keys,
         Replaced(pg, pg2, x, OuterDelete(pg[x], key)), Alone(pg, x, key)
  PROVE  Removed(pg, pg2, key)
<1> DEFINE n == OuterDelete(pg[x], key)
<1>1. Replaced(pg, pg2, x, n) /\ IsOuter(pg[x], Keys, Values, PageIds)
  BY DEF Replaced
<1>2. \A q, v : HasEntry(n, q, v) <=> HasEntry(pg[x], q, v) /\ q # key
  BY <1>1, RemovedEntry
<1> HIDE DEF n
<1>3. \A q, v : /\ Held(pg, q, v) <=> HasEntry(pg[x], q, v) \/ InOther(pg, x, q, v)
                /\ Held(pg2, q, v) <=> HasEntry(n, q, v) \/ InOther(pg, x, q, v)
  BY <1>1, HeldThere
<1>4. \A v : ~InOther(pg, x, key, v)
  BY DEF Alone, InOther, HasEntry
<1> QED
  BY <1>2, <1>3, <1>4 DEF Removed

(* The leaf that a call's key belongs to is the only one that may have it. *)
LEMMA KeyAlone ==
  ASSUME NEW lo, NEW hi, NEW h, NEW odd, NEW k, Labelled(lo, hi, h, odd, k), op \in Ops,
         node \in DOMAIN pages, NodeIsLeaf,
         (odd = 0 /\ Here(lo, hi, odd, node)) \/ odd = node
  PROVE  Alone(pages, node, op.key)
<1>1. Tree(pages, root_id, lo, hi, h, odd, k) /\ (odd # 0 => k = op.key)
  BY Known
<1>2. SUFFICES ASSUME NEW y \in DOMAIN pages, ~pages[y].inner, y # node, NEW j \in 1 .. Len(pages[y].keys),
                      pages[y].keys[j] = op.key
               PROVE  FALSE
  BY DEF Alone
<1>3. op.key \in Int
  BY OpFacts
<1>4. CASE odd = 0 /\ Here(lo, hi, odd, node)
  <2>1. lo[node] < op.key /\ op.key <= hi[node]
    BY <1>4 DEF Here
  <2>2. y # odd /\ 0 \notin DOMAIN pages
    BY <1>1, <1>4, TreeFacts
  <2>3. lo[y] < op.key /\ op.key <= hi[y]
    BY <1>1, <1>2, <2>2, LeafKeys
  <2>4. hi[node] <= lo[y] \/ hi[y] <= lo[node]
    BY <1>1, <1>2, LeavesAreApart DEF NodeIsLeaf
  <2>5. lo[node] \in Int /\ hi[node] \in Int /\ lo[y] \in Int /\ hi[y] \in Int
    BY <1>1, TreeFacts
  <2> QED
    BY ONLY <1>3, <2>1, <2>3, <2>4, <2>5
<1>5. CASE odd = node
  <2>1. odd # 0
    BY <1>1, <1>5, TreeFacts
  <2>2. OddOK(pages, hi, odd, k) /\ k = op.key
    BY <1>1, <2>1 DEF Tree
  <2>3. op.key <= hi[odd] \/ op.key < op.key
    BY <1>2, <1>5, <2>1, <2>2 DEF OddOK
  <2>4. hi[odd] < k
    BY <1>1, <1>5, LeafKeys DEF NodeIsLeaf
  <2>5. hi[odd] \in Int
    BY <1>1, <1>5, TreeFacts
  <2> QED
    BY ONLY <1>3, <2>2, <2>3, <2>4, <2>5
<1> QED
  BY <1>4, <1>5

-----------------------------------------------------------------------------
(* The last step of a call, by the map.                                    *)

(* The map after a step. *)
LEMMA ContentsNext == IInv' => IsMapOf(Contents', pages')
<1>1. IInv' => IsMapOf(Contents, pages)'
  BY ContentsAre, PTL
<1> QED
  BY <1>1

(* A write of the leaf that the call is at replaces this leaf only. *)
LEMMA WriteReplaces ==
  ASSUME NEW lo, NEW hi, NEW h, NEW odd, NEW k, Labelled(lo, hi, h, odd, k),
         node \in DOMAIN pages, NodeIsLeaf, NEW n, ~n.inner,
         Effect(With(Page(node, n)), {}, {node}, {node})
  PROVE  Replaced(pages, pages', node, n)
<1>1. pages' = With(Page(node, n))
  BY DEF Effect
<1>2. /\ DOMAIN pages' = DOMAIN pages \cup {node} /\ pages'[node] = n
      /\ \A y \in DOMAIN pages : y # node => pages'[y] = pages[y]
  BY <1>1 DEF With, Page, ++
<1>3. ShapeOK(pages[node])
  BY Known, TreeFacts
<1>4. IsOuter(pages[node], Keys, Values, PageIds) /\ ~pages[node].inner
  BY <1>3 DEF ShapeOK, NodeIsLeaf
<1> QED
  BY <1>2, <1>4 DEF Replaced

(* The three writes make no inner node of a leaf. *)
LEMMA WrittenIsLeaf ==
  ASSUME NEW n, ~n.inner, NEW key, NEW value
  PROVE  ~OuterInsert(n, key, value).inner /\ ~OuterUpdate(n, key, value).inner /\ ~OuterDelete(n, key).inner
  BY DEF OuterInsert, OuterUpdate, OuterDelete, OuterNode

(* InsertAtLeaf is KVStore's Insert. *)
LEMMA InsertMaps == IInv /\ InsertAtLeaf => AsKVStore!Insert /\ op' = NoOp
<1> SUFFICES ASSUME IInv, InsertAtLeaf PROVE AsKVStore!Insert /\ op' = NoOp
  OBVIOUS
<1>1. PICK lo, hi, h, odd, k : Labelled(lo, hi, h, odd, k)
  BY DEF IInv
<1>2. /\ pc = "insert" /\ NodeIsLeaf /\ Return /\ result' = result
      /\ Effect(With(Page(node, OuterInsert(pages[node], op.key, op.value))), {}, {node}, {node})
  BY DEF InsertAtLeaf
<1>3. Inserting(lo, hi, odd)
  BY <1>1, <1>2, Known, Places
<1>4. node \in DOMAIN pages /\ op \in Ops /\ op.kind = "insert" /\ Fresh(pages, op.key)
  BY <1>3 DEF Inserting, OpIs
<1>5. op.key \in Keys /\ op.key \in Int /\ op.value \in Values
  BY <1>4, OpFacts
<1>6. Replaced(pages, pages', node, OuterInsert(pages[node], op.key, op.value))
  BY <1>1, <1>2, <1>4, WriteReplaces, WrittenIsLeaf DEF NodeIsLeaf
<1>7. ~HasKey(pages[node], op.key)
  <2>1. pages[node].keys \in Seq(Int) /\ Ascending(pages[node].keys)
    BY <1>1, <1>2, <1>4, Known, LeafKeys DEF NodeIsLeaf
  <2>2. \A j \in 1 .. Len(pages[node].keys) : pages[node].keys[j] # op.key
    BY <1>2, <1>4 DEF Fresh, NodeIsLeaf
  <2> QED
    BY <1>5, <2>1, <2>2, HasKeyMeans
<1>8. Inserted(pages, pages', op.key, op.value)
  BY <1>5, <1>6, <1>7, LeafInserts
<1>9. IsMapOf(Contents, pages) /\ IsMapOf(Contents', pages')
  BY ContentsAre, ContentsNext, InsertAtLeafKeeps DEF Kept
<1>10. Contents' = [q \in DOMAIN Contents \cup {op.key} |-> IF q = op.key THEN op.value ELSE Contents[q]]
  <2> DEFINE M == Contents
             M2 == Contents'
             pg2 == pages'
             key == op.key
             value == op.value
  <2>1. IsMapOf(M, pages) /\ IsMapOf(M2, pg2) /\ Inserted(pages, pg2, key, value)
    BY <1>8, <1>9
  <2> HIDE DEF M, M2, pg2, key, value
  <2>2. M2 = [q \in DOMAIN M \cup {key} |-> IF q = key THEN value ELSE M[q]]
    BY <2>1, MapInserted
  <2> QED
    BY <2>2 DEF M, M2, key, value
<1>11. op' = NoOp
  BY <1>2 DEF Return
<1> QED
  BY <1>2, <1>4, <1>10, <1>11 DEF AsKVStore!Insert

(* UpdateAtLeaf is KVStore's Update. *)
LEMMA UpdateMaps == IInv /\ UpdateAtLeaf => AsKVStore!Update /\ op' = NoOp
<1> SUFFICES ASSUME IInv, UpdateAtLeaf PROVE AsKVStore!Update /\ op' = NoOp
  OBVIOUS
<1>1. PICK lo, hi, h, odd, k : Labelled(lo, hi, h, odd, k)
  BY DEF IInv
<1>2. /\ pc = "update" /\ NodeIsLeaf /\ Return /\ result' = result
      /\ Effect(With(Page(node, OuterUpdate(pages[node], op.key, op.value))), {}, {node}, {node})
  BY DEF UpdateAtLeaf
<1>3. Walking(lo, hi, odd)
  BY <1>1, <1>2, Known, Places
<1>4. node \in DOMAIN pages /\ op \in Ops /\ op.kind = "update" /\ odd = 0 /\ Here(lo, hi, odd, node)
  BY <1>2, <1>3 DEF Walking, OpIs
<1>5. op.key \in Keys /\ op.value \in Values
  BY <1>4, OpFacts
<1>6. Replaced(pages, pages', node, OuterUpdate(pages[node], op.key, op.value))
  BY <1>1, <1>2, <1>4, WriteReplaces, WrittenIsLeaf DEF NodeIsLeaf
<1>7. Alone(pages, node, op.key)
  BY <1>1, <1>2, <1>4, KeyAlone
<1>8. Updated(pages, pages', op.key, op.value)
  BY <1>5, <1>6, <1>7, LeafUpdates
<1>9. IsMapOf(Contents, pages) /\ IsMapOf(Contents', pages')
  BY ContentsAre, ContentsNext, UpdateAtLeafKeeps DEF Kept
<1>10. Contents' = [q \in DOMAIN Contents |-> IF q = op.key THEN op.value ELSE Contents[q]]
  BY <1>8, <1>9, MapUpdated
<1>11. op' = NoOp
  BY <1>2 DEF Return
<1> QED
  BY <1>2, <1>4, <1>10, <1>11 DEF AsKVStore!Update

(* A delete ends at the leaf its key belongs to, or at the odd leaf. *)
LEMMA DeletesAlone ==
  ASSUME NEW lo, NEW hi, NEW h, NEW odd, NEW k, Labelled(lo, hi, h, odd, k), Deleting(lo, hi, odd), NodeIsLeaf
  PROVE  Alone(pages, node, op.key)
<1>1. node \in DOMAIN pages /\ op \in Ops /\ Here(lo, hi, odd, node)
  BY DEF Deleting, OpIs, Strictly
<1>2. Tree(pages, root_id, lo, hi, h, odd, k) /\ Skeleton(pages, lo, hi, h) /\ Leaves(pages, lo, hi, h, odd, k)
  BY Known
<1>3. ASSUME odd # 0 PROVE odd = node
  <2>1. odd \in DOMAIN pages /\ ~pages[odd].inner
    BY <1>2, <1>3 DEF Tree, OddOK
  <2>2. h[odd] = 0 /\ h[node] = 0
    BY <1>1, <1>2, <2>1, LeavesAreLowest DEF NodeIsLeaf
  <2>3. hi[node] = hi[odd]
    BY <1>1, <1>3 DEF Here
  <2>4. /\ DOMAIN pages \subseteq PageIds /\ Labels(lo, hi, h) /\ Spans(DOMAIN pages, lo, hi)
        /\ Laminar(DOMAIN pages, lo, hi, h)
    BY <1>2 DEF Skeleton
  <2> QED
    BY <1>1, <2>1, <2>2, <2>3, <2>4, OneEnd
<1> QED
  BY <1>1, <1>3, KeyAlone

(* DeleteAtLeaf is KVStore's Delete. *)
LEMMA DeleteMaps == IInv /\ DeleteAtLeaf => AsKVStore!Delete /\ op' = NoOp
<1> SUFFICES ASSUME IInv, DeleteAtLeaf PROVE AsKVStore!Delete /\ op' = NoOp
  OBVIOUS
<1>1. PICK lo, hi, h, odd, k : Labelled(lo, hi, h, odd, k)
  BY DEF IInv
<1>2. /\ pc = "delete" /\ NodeIsLeaf /\ Return /\ result' = result
      /\ Effect(With(Page(node, OuterDelete(pages[node], op.key))), {}, {node}, {node})
  BY DEF DeleteAtLeaf
<1>3. Deleting(lo, hi, odd)
  BY <1>1, <1>2, Known, Places
<1>4. node \in DOMAIN pages /\ op \in Ops /\ op.kind = "delete"
  BY <1>3 DEF Deleting, OpIs
<1>5. op.key \in Keys
  BY <1>4, OpFacts
<1>6. Replaced(pages, pages', node, OuterDelete(pages[node], op.key))
  BY <1>1, <1>2, <1>4, WriteReplaces, WrittenIsLeaf DEF NodeIsLeaf
<1>7. Alone(pages, node, op.key)
  BY <1>1, <1>2, <1>3, DeletesAlone
<1>8. Removed(pages, pages', op.key)
  BY <1>5, <1>6, <1>7, LeafRemoves
<1>9. IsMapOf(Contents, pages) /\ IsMapOf(Contents', pages')
  BY ContentsAre, ContentsNext, DeleteAtLeafKeeps DEF Kept
<1>10. Contents' = [q \in DOMAIN Contents \ {op.key} |-> Contents[q]]
  <2> DEFINE M == Contents
             M2 == Contents'
             pg2 == pages'
             key == op.key
  <2>1. IsMapOf(M, pages) /\ IsMapOf(M2, pg2) /\ Removed(pages, pg2, key)
    BY <1>8, <1>9
  <2> HIDE DEF M, M2, pg2, key
  <2>2. M2 = MapLess(M, key)
    BY <2>1, MapRemoved
  <2> QED
    BY <2>2 DEF MapLess, M, M2, key
<1>11. op' = NoOp
  BY <1>2 DEF Return
<1> QED
  BY <1>2, <1>4, <1>10, <1>11 DEF AsKVStore!Delete

(* Steps that leave the entries as they are leave the map as it is. *)
LEMMA MapStays == IInv /\ IInv' /\ SameHeld(pages, pages') => Contents' = Contents
<1>1. IInv /\ IInv' => IsMapOf(Contents, pages) /\ IsMapOf(Contents', pages')
  BY ContentsAre, ContentsNext
<1> QED
  BY <1>1, SameMap

(* The same pages have the same entries. *)
LEMMA SamePages == pages' = pages => SameHeld(pages, pages')
  BY DEF SameHeld

(* GetAtLeaf is KVStore's Get. *)
LEMMA GetMaps == IInv /\ GetAtLeaf => AsKVStore!Get /\ op' = NoOp
<1> SUFFICES ASSUME IInv, GetAtLeaf PROVE AsKVStore!Get /\ op' = NoOp
  OBVIOUS
<1> DEFINE leaf == pages[node]
           key == op.key
<1>1. PICK lo, hi, h, odd, k : Labelled(lo, hi, h, odd, k)
  BY DEF IInv
<1>2. /\ pc = "get" /\ NodeIsLeaf /\ Return /\ pages' = pages
      /\ result' = IF HasKey(leaf, key) THEN leaf.values[Position(leaf, key)] ELSE Missing
  BY DEF GetAtLeaf, Effect
<1>3. Walking(lo, hi, odd)
  BY <1>1, <1>2, Known, Places
<1>4. node \in DOMAIN pages /\ op \in Ops /\ op.kind = "get" /\ odd = 0 /\ Here(lo, hi, odd, node)
  BY <1>2, <1>3 DEF Walking, OpIs
<1>5. Alone(pages, node, key)
  BY <1>1, <1>2, <1>4, KeyAlone
<1>6. IsMapOf(Contents, pages)
  BY ContentsAre
<1>7. ~leaf.inner /\ leaf.keys \in Seq(Int) /\ Ascending(leaf.keys) /\ key \in Int
  BY <1>1, <1>2, <1>4, OpFacts, Known, LeafKeys DEF NodeIsLeaf
<1>8. \A v : Held(pages, key, v) <=> HasEntry(leaf, key, v)
  BY <1>4, <1>5, <1>7 DEF Held, Alone, HasEntry
<1> HIDE DEF leaf, key
<1>9. HasKey(leaf, key) <=> \E i \in 1 .. Len(leaf.keys) : leaf.keys[i] = key
  BY <1>7, HasKeyMeans
<1>10. CASE HasKey(leaf, key)
  <2>1. PICK i \in 1 .. Len(leaf.keys) : leaf.keys[i] = key
    BY <1>9, <1>10
  <2>2. Position(leaf, key) = i
    BY <1>7, <2>1, PositionOfKey
  <2>3. HasEntry(leaf, key, leaf.values[i])
    BY <2>1 DEF HasEntry
  <2>4. key \in DOMAIN Contents /\ Contents[key] = leaf.values[i]
    BY <1>6, <1>8, <2>3 DEF IsMapOf
  <2> QED
    BY <1>2, <1>10, <2>2, <2>4, <1>4, MapStays, SamePages, GetAtLeafKeeps DEF AsKVStore!Get, Return, key, Kept
<1>11. CASE ~HasKey(leaf, key)
  <2>1. \A v : ~HasEntry(leaf, key, v)
    BY <1>9, <1>11 DEF HasEntry
  <2>2. key \notin DOMAIN Contents
    BY <1>6, <1>8, <2>1 DEF IsMapOf
  <2> QED
    BY <1>2, <1>11, <2>2, <1>4, MapStays, SamePages, GetAtLeafKeeps DEF AsKVStore!Get, Return, key, Kept
<1> QED
  BY <1>10, <1>11

-----------------------------------------------------------------------------
(* A scan.  What it has summed up is in order, from the first key on and   *)
(* without gaps; what is left of the map is in the rest of its leaf, from  *)
(* place p on, or behind the end of the leaf's span.                       *)
Among(s, q, v) == \E i \in 1 .. Len(s) : s[i][1] = q /\ s[i][2] = v
Ordered(pg, s, key, end) ==
  /\ s \in Seq(Keys \X Values)
  /\ \A i \in 1 .. Len(s) : Held(pg, s[i][1], s[i][2]) /\ key <= s[i][1] /\ s[i][1] <= end
  /\ \A i, j \in 1 .. Len(s) : i < j => s[i][1] < s[j][1]
Gapless(pg, s, key) ==
  \A q, v : Held(pg, q, v) /\ key <= q => Among(s, q, v) \/ \A i \in 1 .. Len(s) : s[i][1] < q
UpTo(pg, s, key, end) == \A q, v : Held(pg, q, v) /\ key <= q => Among(s, q, v) \/ end < q
FromPlace(n, p, q, v) == \E j \in p .. Len(n.keys) : n.keys[j] = q /\ n.values[j] = v
ScanAt(pg, x, end, s, p, key) ==
  /\ Ordered(pg, s, key, end) /\ key <= end
  /\ \A j \in p .. Len(pg[x].keys) :
       key <= pg[x].keys[j] /\ pg[x].keys[j] <= end /\ \A i \in 1 .. Len(s) : s[i][1] < pg[x].keys[j]
  /\ \A q, v : Held(pg, q, v) /\ key <= q => Among(s, q, v) \/ FromPlace(pg[x], p, q, v) \/ end < q

EntriesOf(leaf) == [i \in DOMAIN leaf.keys |-> <<leaf.keys[i], leaf.values[i]>>]
TakenFrom(leaf, s, p, range) ==
  s \o FirstOf(range - Len(s), SubSeq(EntriesOf(leaf), p, Len(EntriesOf(leaf))))
Taken(leaf, s, p, range, all) ==
  \E u \in 0 .. Len(leaf.keys) - p + 1 :
    /\ all \in Seq(Keys \X Values) /\ Len(all) = Len(s) + u /\ Len(all) <= range
    /\ Len(all) < range => u = Len(leaf.keys) - p + 1
    /\ \A i \in 1 .. Len(s) : all[i] = s[i]
    /\ \A j \in 1 .. u : all[Len(s) + j] = <<leaf.keys[p + j - 1], leaf.values[p + j - 1]>>

(* The entries a scan takes from its leaf: the next ones, as many as there *)
(* are or are still to be summed up.                                       *)
LEMMA TakenIs ==
  ASSUME NEW leaf, IsOuter(leaf, Keys, Values, PageIds), NEW s \in Seq(Keys \X Values),
         NEW p \in 1 .. Len(leaf.keys) + 1, NEW range \in Nat, Len(s) <= range,
         NEW all, all = TakenFrom(leaf, s, p, range)
  PROVE  Taken(leaf, s, p, range, all)
<1> DEFINE S == Keys \X Values
           w == Len(leaf.keys)
           e == EntriesOf(leaf)
           m == w - p + 1
           rest == SubSeq(e, p, Len(e))
           left == range - Len(s)
           u == IF left < Len(rest) THEN left ELSE Len(rest)
           t == SubSeq(rest, 1, u)
<1>1. w \in Nat /\ Len(leaf.values) = w /\ leaf.keys \in Seq(Keys) /\ leaf.values \in Seq(Values)
  BY LeafFacts DEF IsOuter
<1>2. e \in Seq(S) /\ Len(e) = w /\ \A i \in 1 .. w : e[i] = <<leaf.keys[i], leaf.values[i]>>
  <2>1. DOMAIN leaf.keys = 1 .. w
    BY <1>1
  <2>2. \A i \in 1 .. w : <<leaf.keys[i], leaf.values[i]>> \in S
    BY <1>1
  <2>3. e = [i \in 1 .. w |-> <<leaf.keys[i], leaf.values[i]>>]
    BY <2>1 DEF EntriesOf
  <2>4. w \in Nat
    BY <1>1
  <2> HIDE DEF e, S, w
  <2>5. e \in Seq(S) /\ Len(e) = w
    BY ONLY <2>2, <2>3, <2>4
  <2>6. \A i \in 1 .. w : e[i] = <<leaf.keys[i], leaf.values[i]>>
    BY ONLY <2>3
  <2> QED
    BY <2>5, <2>6
<1> HIDE DEF e, S
<1>3. rest \in Seq(S) /\ Len(rest) = m /\ m \in Nat /\ \A j \in 1 .. m : rest[j] = e[p + j - 1]
  <2>1. p \in 1 .. Len(e) + 1 /\ Len(e) \in p - 1 .. Len(e) /\ Len(e) - p + 1 = m /\ m \in Nat
    BY <1>1, <1>2
  <2> HIDE DEF m, w
  <2>2. /\ rest \in Seq(S) /\ Len(rest) = Len(e) - p + 1
        /\ \A j \in 1 .. Len(e) - p + 1 : rest[j] = e[p + j - 1]
    BY <1>2, <2>1, SubSeqIsPointwise
  <2> QED
    BY ONLY <2>1, <2>2
<1> HIDE DEF rest
<1>4. Len(s) \in Nat /\ left \in Nat /\ s \in Seq(S)
  BY DEF S
<1>5. u \in 0 .. m /\ (u < left => u = m) /\ u <= left
  BY <1>3, <1>4
<1> HIDE DEF left
<1>6. t \in Seq(S) /\ Len(t) = u /\ \A j \in 1 .. u : t[j] = rest[j]
  <2>1. 1 \in 1 .. Len(rest) + 1 /\ u \in 1 - 1 .. Len(rest)
    BY <1>3, <1>5
  <2> HIDE DEF u
  <2>2. t \in Seq(S) /\ Len(t) = u - 1 + 1 /\ \A j \in 1 .. u - 1 + 1 : t[j] = rest[1 + j - 1]
    BY <1>3, <2>1, SubSeqIsPointwise
  <2>3. u \in Nat /\ u - 1 + 1 = u
    BY <1>3, <1>5
  <2>4. \A j \in 1 .. u : 1 + j - 1 = j
    BY <2>3
  <2> QED
    BY <2>2, <2>3, <2>4
<1>7. all = s \o t
  BY DEF TakenFrom, FirstOf, t, u, left, rest, e
<1> HIDE DEF t, u
<1>8. /\ all \in Seq(S) /\ Len(all) = Len(s) + u
      /\ \A i \in 1 .. Len(s) + u : all[i] = IF i <= Len(s) THEN s[i] ELSE t[i - Len(s)]
  <2>1. /\ s \o t \in Seq(S) /\ Len(s \o t) = Len(s) + Len(t)
        /\ \A i \in 1 .. Len(s) + Len(t) : (s \o t)[i] = IF i <= Len(s) THEN s[i] ELSE t[i - Len(s)]
    BY <1>4, <1>6, ConcatIsPointwise
  <2> QED
    BY <1>6, <1>7, <2>1
<1>9. Len(all) <= range /\ (Len(all) < range => u = m)
  <2>1. left = range - Len(s)
    BY DEF left
  <2> QED
    BY <1>3, <1>4, <1>5, <1>8, <2>1
<1>10. \A i \in 1 .. Len(s) : all[i] = s[i]
  BY <1>3, <1>4, <1>5, <1>8
<1>11. ASSUME NEW j \in 1 .. u PROVE all[Len(s) + j] = <<leaf.keys[p + j - 1], leaf.values[p + j - 1]>>
  <2>1. Len(s) + j \in 1 .. Len(s) + u /\ ~(Len(s) + j <= Len(s)) /\ (Len(s) + j) - Len(s) = j /\ j \in 1 .. m
    BY <1>3, <1>4, <1>5
  <2>2. p + j - 1 \in 1 .. w
    BY <1>1, <2>1
  <2>3. all[Len(s) + j] = t[j]
    BY <1>8, <2>1
  <2>4. t[j] = e[p + j - 1]
    BY <1>3, <1>6, <2>1
  <2> QED
    BY <1>2, <2>2, <2>3, <2>4
<1> QED
  BY <1>5, <1>8, <1>9, <1>10, <1>11 DEF S, Taken

(* So it stays in order and without gaps. *)
LEMMA ScanTakes ==
  ASSUME NEW pg, NEW x \in DOMAIN pg, ~pg[x].inner, IsOuter(pg[x], Keys, Values, PageIds),
         NEW end \in Int, NEW s, NEW p \in 1 .. Len(pg[x].keys) + 1, NEW key \in Int,
         ScanAt(pg, x, end, s, p, key), NEW range \in Nat, Len(s) <= range,
         \A q, v : Held(pg, q, v) => q \in Keys,
         NEW all, all = TakenFrom(pg[x], s, p, range)
  PROVE  /\ Ordered(pg, all, key, end) /\ Gapless(pg, all, key)
         /\ Len(all) \in Nat /\ Len(all) <= range
         /\ Len(all) < range => UpTo(pg, all, key, end)
<1> DEFINE leaf == pg[x]
           w == Len(leaf.keys)
           l == Len(s)
<1>1. s \in Seq(Keys \X Values) /\ l \in Nat
  BY DEF ScanAt, Ordered
<1>2. w \in Nat /\ leaf.keys \in Seq(Int) /\ Ascending(leaf.keys)
  BY LeafFacts
<1>3. PICK u \in 0 .. w - p + 1 :
        /\ all \in Seq(Keys \X Values) /\ Len(all) = l + u /\ Len(all) <= range
        /\ Len(all) < range => u = w - p + 1
        /\ \A i \in 1 .. l : all[i] = s[i]
        /\ \A j \in 1 .. u : all[l + j] = <<leaf.keys[p + j - 1], leaf.values[p + j - 1]>>
  <2>1. /\ IsOuter(leaf, Keys, Values, PageIds) /\ s \in Seq(Keys \X Values)
        /\ p \in 1 .. Len(leaf.keys) + 1 /\ Len(s) <= range /\ range \in Nat
        /\ all = TakenFrom(leaf, s, p, range)
    BY <1>1
  <2> HIDE DEF leaf
  <2>2. Taken(leaf, s, p, range, all)
    BY ONLY <2>1, TakenIs
  <2> QED
    BY <2>2 DEF Taken, w, l
<1>4. u \in Nat /\ \A j \in 1 .. u : p + j - 1 \in p .. w /\ p + j - 1 \in 1 .. w
  BY <1>2, <1>3
<1>5. /\ \A i \in 1 .. l : Held(pg, s[i][1], s[i][2]) /\ key <= s[i][1] /\ s[i][1] <= end /\ s[i][1] \in Int
      /\ \A i, j \in 1 .. l : i < j => s[i][1] < s[j][1]
      /\ \A j \in p .. w : key <= leaf.keys[j] /\ leaf.keys[j] <= end /\ \A i \in 1 .. l : s[i][1] < leaf.keys[j]
      /\ \A q, v : Held(pg, q, v) /\ key <= q => Among(s, q, v) \/ FromPlace(leaf, p, q, v) \/ end < q
  <2>1. \A i \in 1 .. l : s[i][1] \in Int
    <3>1. \A i \in 1 .. l : s[i] \in Keys \X Values
      BY <1>1
    <3>2. \A i \in 1 .. l : s[i][1] \in Keys
      BY <3>1
    <3> QED
      BY <3>2, KeysAreInts
  <2> QED
    BY <2>1 DEF ScanAt, Ordered
<1>6. \A i \in 1 .. w : leaf.keys[i] \in Int
  BY <1>2
<1>7. \A i, j \in 1 .. w : i < j => leaf.keys[i] < leaf.keys[j]
  BY <1>2 DEF Ascending
<1>8. \A j \in 1 .. w : Held(pg, leaf.keys[j], leaf.values[j])
  BY DEF Held, HasEntry
<1> HIDE DEF leaf, w, l
<1>9. \A i \in 1 .. l + u : (i \in 1 .. l /\ all[i] = s[i]) \/
                            \E j \in 1 .. u : i = l + j /\ all[i] = <<leaf.keys[p + j - 1], leaf.values[p + j - 1]>>
  <2>1. SUFFICES ASSUME NEW i \in 1 .. l + u, i \notin 1 .. l
                 PROVE  \E j \in 1 .. u : i = l + j /\ all[i] = <<leaf.keys[p + j - 1], leaf.values[p + j - 1]>>
    BY <1>3
  <2>2. i - l \in 1 .. u /\ i = l + (i - l)
    BY <1>1, <1>4, <2>1
  <2> QED
    BY <1>3, <2>2
<1>10. ASSUME NEW i \in 1 .. l + u
       PROVE  Held(pg, all[i][1], all[i][2]) /\ key <= all[i][1] /\ all[i][1] <= end /\ all[i][1] \in Int
  <2>1. CASE i \in 1 .. l /\ all[i] = s[i]
    BY <1>5, <2>1
  <2>2. ASSUME NEW j \in 1 .. u, all[i] = <<leaf.keys[p + j - 1], leaf.values[p + j - 1]>>
        PROVE  Held(pg, all[i][1], all[i][2]) /\ key <= all[i][1] /\ all[i][1] <= end /\ all[i][1] \in Int
    <3> DEFINE z == p + j - 1
    <3>1. z \in p .. w /\ z \in 1 .. w /\ all[i] = <<leaf.keys[z], leaf.values[z]>>
      BY <1>4, <2>2
    <3> HIDE DEF z
    <3>2. all[i][1] = leaf.keys[z] /\ all[i][2] = leaf.values[z]
      BY <3>1
    <3> QED
      BY <1>5, <1>6, <1>8, <3>1, <3>2
  <2> QED
    BY <1>9, <2>1, <2>2
<1>11. ASSUME NEW i \in 1 .. l + u, NEW j \in 1 .. l + u, i < j PROVE all[i][1] < all[j][1]
  <2>1. CASE i \in 1 .. l /\ j \in 1 .. l
    BY <1>3, <1>5, <1>11, <2>1
  <2>2. CASE j \notin 1 .. l
    <3>1. PICK b \in 1 .. u : j = l + b /\ all[j] = <<leaf.keys[p + b - 1], leaf.values[p + b - 1]>>
      BY <1>9, <2>2
    <3>2. p + b - 1 \in p .. w /\ p + b - 1 \in 1 .. w /\ all[j][1] = leaf.keys[p + b - 1]
      BY <1>4, <3>1
    <3>3. CASE i \in 1 .. l
      BY <1>3, <1>5, <3>2, <3>3
    <3>4. CASE i \notin 1 .. l
      <4>1. PICK a \in 1 .. u : i = l + a /\ all[i] = <<leaf.keys[p + a - 1], leaf.values[p + a - 1]>>
        BY <1>9, <3>4
      <4>2. p + a - 1 \in 1 .. w /\ all[i][1] = leaf.keys[p + a - 1]
        BY <1>4, <4>1
      <4>3. p + a - 1 < p + b - 1
        BY <1>1, <1>2, <1>11, <3>1, <4>1
      <4> QED
        BY <1>7, <3>2, <4>2, <4>3
    <3> QED
      BY <3>3, <3>4
  <2>3. CASE i \notin 1 .. l /\ j \in 1 .. l
    BY <1>1, <1>4, <1>11, <2>3
  <2> QED
    BY <2>1, <2>2, <2>3
<1>12. Ordered(pg, all, key, end)
  BY <1>3, <1>10, <1>11 DEF Ordered
<1>13. ASSUME NEW q, NEW v, Held(pg, q, v), key <= q
       PROVE  \/ Among(all, q, v) \/ end < q
              \/ Len(all) = range /\ \E j \in p + u .. w : leaf.keys[j] = q
  <2>1. Among(s, q, v) => Among(all, q, v)
    <3>1. \A i \in 1 .. l : i \in 1 .. l + u
      BY <1>1, <1>4
    <3> QED
      BY <1>3, <3>1 DEF Among, l
  <2>2. ASSUME NEW j \in p .. w, leaf.keys[j] = q, leaf.values[j] = v
        PROVE  Among(all, q, v) \/ (Len(all) = range /\ j \in p + u .. w)
    <3>1. CASE j < p + u
      <4> DEFINE b == j - p + 1
      <4>1. b \in 1 .. u /\ p + b - 1 = j /\ l + b \in 1 .. l + u
        BY <1>1, <1>2, <1>4, <3>1
      <4> HIDE DEF b
      <4>2. all[l + b] = <<leaf.keys[j], leaf.values[j]>>
        BY <1>3, <4>1
      <4>3. l + b \in 1 .. Len(all)
        BY <1>3, <4>1
      <4>4. all[l + b][1] = q /\ all[l + b][2] = v
        BY <2>2, <4>2
      <4>5. Among(all, q, v)
        BY ONLY <4>3, <4>4 DEF Among
      <4> QED
        BY <4>5
    <3>2. CASE ~(j < p + u)
      <4>1. j \in p + u .. w /\ u # w - p + 1
        BY <1>2, <1>4, <3>2
      <4>2. Len(all) = range
        BY <1>1, <1>3, <1>4, <4>1
      <4> QED
        BY <4>1, <4>2
    <3> QED
      BY <3>1, <3>2
  <2> QED
    BY <1>5, <1>13, <2>1, <2>2 DEF FromPlace, w
<1>14. Gapless(pg, all, key)
  <2>1. SUFFICES ASSUME NEW q, NEW v, Held(pg, q, v), key <= q, ~Among(all, q, v), NEW i \in 1 .. l + u
                 PROVE  all[i][1] < q
    BY <1>3 DEF Gapless
  <2>2. q \in Int
    BY <2>1, KeysAreInts
  <2>3. CASE end < q
    BY <1>10, <2>2, <2>3
  <2>4. ASSUME NEW j \in p + u .. w, leaf.keys[j] = q PROVE all[i][1] < q
    <3>1. j \in p .. w /\ j \in 1 .. w
      BY <1>2, <1>4
    <3>2. CASE i \in 1 .. l
      BY <1>3, <1>5, <2>4, <3>1, <3>2
    <3>3. CASE i \notin 1 .. l
      <4>1. PICK a \in 1 .. u : all[i] = <<leaf.keys[p + a - 1], leaf.values[p + a - 1]>>
        BY <1>9, <3>3
      <4>2. p + a - 1 \in 1 .. w /\ p + a - 1 < j /\ all[i][1] = leaf.keys[p + a - 1]
        BY <1>2, <1>4, <4>1
      <4> QED
        BY <1>7, <2>4, <3>1, <4>2
    <3> QED
      BY <3>2, <3>3
  <2> QED
    BY <1>13, <2>1, <2>3, <2>4
<1>15. Len(all) < range => UpTo(pg, all, key, end)
  <2>1. ASSUME Len(all) < range PROVE Len(all) # range
    BY <1>1, <1>3, <1>4, <2>1
  <2> QED
    BY <1>13, <2>1 DEF UpTo
<1>16. Len(all) \in Nat
  BY <1>1, <1>3, <1>4
<1> QED
  BY <1>3, <1>12, <1>14, <1>15, <1>16

-----------------------------------------------------------------------------
(* What a scan returns is what KVStore's Scanned says.                     *)

(* Ascending numbers are as many as their places. *)
LEMMA CountOfPlaces ==
  ASSUME NEW s, NEW m \in Nat, \A i \in 1 .. m : s[i][1] \in Int,
         \A i, j \in 1 .. m : i < j => s[i][1] < s[j][1],
         NEW T, \A t : t \in T <=> \E i \in 1 .. m : s[i][1] = t
  PROVE  IsFiniteSet(T) /\ Cardinality(T) = m
<1> DEFINE f == [i \in 1 .. m |-> s[i][1]]
<1>1. f \in [1 .. m -> T] /\ \A i \in 1 .. m : f[i] = s[i][1]
  OBVIOUS
<1> HIDE DEF f
<1>2. \A t \in T : \E i \in 1 .. m : f[i] = t
  BY <1>1
<1>3. \A i, j \in 1 .. m : f[i] = f[j] => i = j
  <2>1. SUFFICES ASSUME NEW i \in 1 .. m, NEW j \in 1 .. m, s[i][1] = s[j][1] PROVE i = j
    BY <1>1
  <2>2. s[i][1] \in Int /\ ~(i < j) /\ ~(j < i)
    BY <2>1
  <2> QED
    BY <2>2
<1>4. f \in Bijection(1 .. m, T)
  <2>1. DOMAIN f = 1 .. m
    BY <1>1
  <2> QED
    BY <1>1, <1>2, <1>3, <2>1 DEF Bijection, Injection, Surjection, IsInjective
<1>5. ExistsBijection(1 .. m, T)
  BY <1>4 DEF ExistsBijection
<1>6. IsFiniteSet(1 .. m) /\ Cardinality(1 .. m) = m
  <2>1. IsFiniteSet(1 .. m) /\ Cardinality(1 .. m) = IF 1 > m THEN 0 ELSE m - 1 + 1
    BY FS_Interval
  <2> QED
    BY <2>1
<1> QED
  BY <1>5, <1>6, FS_Bijection

(* A number's rank in a set determines it. *)
LEMMA RankIsUnique ==
  ASSUME NEW A \in SUBSET Int, IsFiniteSet(A), NEW a \in A, NEW b \in A, a < b
  PROVE  Cardinality({j \in A : j < a}) # Cardinality({j \in A : j < b})
<1> DEFINE S == {j \in A : j < a}
           T == {j \in A : j < b}
<1>1. a \in Int /\ b \in Int /\ \A j \in A : j \in Int
  OBVIOUS
<1>2. S \in SUBSET T /\ a \in T /\ a \notin S /\ T \in SUBSET A
  <2>1. \A j \in A : j < a => j < b
    <3>1. ASSUME NEW j \in A, j < a PROVE j < b
      <4>1. j \in Int
        BY <1>1
      <4> QED
        BY ONLY <1>1, <3>1, <4>1, a < b
    <3> QED
      BY <3>1
  <2>2. ~(a < a)
    BY <1>1
  <2> QED
    BY <2>1, <2>2
<1>3. IsFiniteSet(T)
  BY <1>2, FS_Subset
<1> HIDE DEF S, T
<1>4. Cardinality(T) = Cardinality(S) => T = S
  BY <1>2, <1>3, FS_Subset
<1>5. Cardinality(S) # Cardinality(T)
  BY <1>2, <1>4
<1> QED
  BY <1>5 DEF S, T

(* The numbers of a set by their ranks, as Scanned counts them. *)
Nth(A, i) == CHOOSE k \in A : Cardinality({j \in A : j < k}) = i - 1
Firsts(A, s, m) ==
  /\ \A i \in 1 .. m : s[i][1] \in A
  /\ \A i, j \in 1 .. m : i < j => s[i][1] < s[j][1]
  /\ \A a \in A : (\E i \in 1 .. m : s[i][1] = a) \/ \A i \in 1 .. m : s[i][1] < a
(* A sequence of the first numbers of a set has each of them at its rank.  *)
LEMMA NthIs ==
  ASSUME NEW A \in SUBSET Int, IsFiniteSet(A), NEW s, NEW m \in Nat, Firsts(A, s, m)
  PROVE  /\ Cardinality(A) \in Nat /\ m <= Cardinality(A)
         /\ (\A a \in A : \E i \in 1 .. m : s[i][1] = a) => m = Cardinality(A)
         /\ \A i \in 1 .. m : Nth(A, i) = s[i][1]
<1>0. /\ \A i \in 1 .. m : s[i][1] \in A
      /\ \A i, j \in 1 .. m : i < j => s[i][1] < s[j][1]
      /\ \A a \in A : (\E i \in 1 .. m : s[i][1] = a) \/ \A i \in 1 .. m : s[i][1] < a
  BY DEF Firsts
<1>1. \A i \in 1 .. m : s[i][1] \in Int
  BY <1>0
<1> DEFINE T == {a \in A : \E i \in 1 .. m : s[i][1] = a}
<1>2. Cardinality(T) = m /\ T \in SUBSET A
  <2>1. \A t : t \in T <=> \E i \in 1 .. m : s[i][1] = t
    BY <1>0
  <2> HIDE DEF T
  <2>2. Cardinality(T) = m
    BY <1>0, <1>1, <2>1, CountOfPlaces
  <2> QED
    BY <2>2 DEF T
<1>3. Cardinality(A) \in Nat /\ m <= Cardinality(A)
  <2> HIDE DEF T
  <2> QED
    BY <1>2, FS_CardinalityType, FS_Subset
<1>4. (\A a \in A : \E i \in 1 .. m : s[i][1] = a) => m = Cardinality(A)
  <2>1. (\A a \in A : \E i \in 1 .. m : s[i][1] = a) => T = A
    OBVIOUS
  <2> QED
    BY <1>2, <2>1
<1>5. ASSUME NEW i \in 1 .. m PROVE Nth(A, i) = s[i][1]
  <2> DEFINE a == s[i][1]
             L == {j \in A : j < a}
  <2>1. a \in A /\ a \in Int /\ i - 1 \in Nat
    BY <1>0, <1>1
  <2>2. \A t : t \in L <=> \E c \in 1 .. i - 1 : s[c][1] = t
    <3>1. ASSUME NEW c \in 1 .. i - 1 PROVE s[c][1] \in L
      <4>1. c \in 1 .. m /\ c < i
        OBVIOUS
      <4> QED
        BY <1>0, <4>1
    <3>2. ASSUME NEW t \in L PROVE \E c \in 1 .. i - 1 : s[c][1] = t
      <4>1. t \in A /\ t < a /\ t \in Int
        BY <3>2
      <4>2. ~(a < t)
        BY <2>1, <4>1
      <4>3. PICK c \in 1 .. m : s[c][1] = t
        BY <1>0, <4>1, <4>2
      <4>4. ~(i < c) /\ i # c
        BY <1>0, <2>1, <4>1, <4>2, <4>3
      <4>5. c \in 1 .. i - 1
        BY <4>4
      <4> QED
        BY <4>3, <4>5
    <3> QED
      BY <3>1, <3>2
  <2>3. Cardinality(L) = i - 1
    <3>1. /\ \A c \in 1 .. i - 1 : s[c][1] \in Int
          /\ \A c, d \in 1 .. i - 1 : c < d => s[c][1] < s[d][1]
      <4>1. \A c \in 1 .. i - 1 : c \in 1 .. m
        OBVIOUS
      <4> QED
        BY <1>0, <1>1, <4>1
    <3> DEFINE n == i - 1
    <3>2. n \in Nat
      BY <2>1
    <3> HIDE DEF L, n
    <3> QED
      BY <2>2, <3>1, <3>2, CountOfPlaces DEF n
  <2>4. \A b \in A : Cardinality({j \in A : j < b}) = i - 1 => b = a
    <3>1. SUFFICES ASSUME NEW b \in A, Cardinality({j \in A : j < b}) = Cardinality({j \in A : j < a}), b # a
                   PROVE  FALSE
      BY <2>3
    <3>2. b < a \/ a < b
      <4>1. b \in Int
        OBVIOUS
      <4> HIDE DEF a
      <4> QED
        BY <2>1, <3>1, <4>1
    <3> HIDE DEF a
    <3> QED
      BY <2>1, <3>1, <3>2, RankIsUnique
  <2>5. Nth(A, i) \in A /\ Cardinality({j \in A : j < Nth(A, i)}) = i - 1
    <3>1. \E k \in A : Cardinality({j \in A : j < k}) = i - 1
      BY <2>1, <2>3
    <3> QED
      BY <3>1 DEF Nth
  <2> QED
    BY <2>4, <2>5
<1> QED
  BY <1>3, <1>4, <1>5

(* KVStore's Scanned, of any map. *)
ScannedOf(M, key, range) ==
  LET above == {k \in DOMAIN M : k >= key}
  IN  FirstOf(range, [i \in 1 .. Cardinality(above) |-> <<Nth(above, i), M[Nth(above, i)]>>])
(* A scan's entries, when it has enough of them or all there are. *)
LEMMA ScanResult ==
  ASSUME NEW M, NEW pg, IsMapOf(M, pg), \A q, v : Held(pg, q, v) => q \in Keys /\ v \in Values,
         NEW s, NEW key \in Int, NEW end, Ordered(pg, s, key, end), Gapless(pg, s, key),
         NEW range \in Nat, Len(s) <= range,
         Len(s) < range => \A q, v : Held(pg, q, v) /\ key <= q => Among(s, q, v)
  PROVE  s = ScannedOf(M, key, range)
<1> DEFINE A == {k \in DOMAIN M : k >= key}
           m == Len(s)
           c == Cardinality(A)
           e == [i \in 1 .. c |-> <<Nth(A, i), M[Nth(A, i)]>>]
<1>1. /\ s \in Seq(Keys \X Values) /\ m \in Nat
      /\ \A i \in 1 .. m : Held(pg, s[i][1], s[i][2]) /\ key <= s[i][1]
      /\ \A i, j \in 1 .. m : i < j => s[i][1] < s[j][1]
  BY DEF Ordered
<1>2. \A q : q \in DOMAIN M <=> \E v : Held(pg, q, v)
  BY DEF IsMapOf
<1>3. A \in SUBSET Keys /\ A \in SUBSET Int /\ IsFiniteSet(A)
  <2>1. A \in SUBSET Keys
    BY <1>2
  <2>2. IsFiniteSet(Keys) /\ Keys \in SUBSET Int
    BY KeysAreNumbers, KeysAreInts
  <2> HIDE DEF A
  <2> QED
    BY <2>1, <2>2, FS_Subset
<1>4. \A i \in 1 .. m : s[i][1] \in A /\ s[i] = <<s[i][1], s[i][2]>> /\ M[s[i][1]] = s[i][2] /\ s[i] \in Keys \X Values
  <2>1. SUFFICES ASSUME NEW i \in 1 .. m
                 PROVE  s[i][1] \in A /\ s[i] = <<s[i][1], s[i][2]>> /\ M[s[i][1]] = s[i][2] /\ s[i] \in Keys \X Values
    OBVIOUS
  <2>2. s[i] \in Keys \X Values /\ s[i] = <<s[i][1], s[i][2]>>
    BY <1>1
  <2>3. M[s[i][1]] = s[i][2] /\ s[i][1] \in DOMAIN M
    BY <1>1, <1>2 DEF IsMapOf
  <2>4. s[i][1] \in Int
    BY <1>1, <2>2, KeysAreInts
  <2>5. s[i][1] >= key
    BY <1>1, <2>4
  <2> QED
    BY <2>2, <2>3, <2>5
<1>5. \A a \in A : \E v : Held(pg, a, v) /\ key <= a
  <2>1. \A a \in A : a \in Int /\ a >= key /\ a \in DOMAIN M
    BY <1>3
  <2> QED
    BY <1>2, <2>1
<1>6. \A a \in A : (\E i \in 1 .. m : s[i][1] = a) \/ \A i \in 1 .. m : s[i][1] < a
  BY <1>5 DEF Gapless, Among
<1>7. m < range => \A a \in A : \E i \in 1 .. m : s[i][1] = a
  BY <1>5 DEF Among
<1> HIDE DEF A, m
<1>8. /\ c \in Nat /\ m <= c
      /\ (\A a \in A : \E i \in 1 .. m : s[i][1] = a) => m = c
      /\ \A i \in 1 .. m : Nth(A, i) = s[i][1]
  <2>1. \A i \in 1 .. m : s[i][1] \in A
    BY <1>4
  <2>2. \A i, j \in 1 .. m : i < j => s[i][1] < s[j][1]
    BY <1>1
  <2>3. Firsts(A, s, m) /\ m \in Nat
    BY <1>1, <1>6, <2>1, <2>2 DEF Firsts
  <2> QED
    BY ONLY <1>3, <2>3, NthIs
<1>9. Len(e) = c /\ m = IF range < c THEN range ELSE c
  <2>1. Len(e) = c
    BY <1>8
  <2>2. m <= range /\ (m < range => m = c)
    BY <1>7, <1>8 DEF m
  <2> HIDE DEF c
  <2> QED
    BY <1>1, <1>8, <2>1, <2>2
<1>10. \A i \in 1 .. m : i \in 1 .. c /\ e[i] = s[i]
  <2>1. \A i \in 1 .. m : i \in 1 .. c
    BY <1>1, <1>8
  <2>2. \A i \in 1 .. m : e[i] = <<Nth(A, i), M[Nth(A, i)]>>
    BY <2>1
  <2> HIDE DEF e
  <2> QED
    BY <1>4, <1>8, <2>1, <2>2
<1>11. ScannedOf(M, key, range) = SubSeq(e, 1, m)
  BY <1>9 DEF ScannedOf, FirstOf, A
<1>12. SubSeq(e, 1, m) = s
  <2>1. SubSeq(e, 1, m) = [i \in 1 .. m |-> e[i]]
    <3>1. \A i \in 1 .. m : 1 + i - 1 = i
      BY <1>1
    <3> HIDE DEF e
    <3> QED
      BY <1>1, <3>1
  <2>2. s = [i \in 1 .. m |-> s[i]]
    BY <1>1 DEF m
  <2> HIDE DEF e
  <2> QED
    BY <1>10, <2>1, <2>2
<1> QED
  BY <1>11, <1>12

-----------------------------------------------------------------------------
(* A scan between its leaves: what it has summed up and where it is.       *)
SeenInv ==
  IF pc = "scan_on"
  THEN /\ Len(seen) < op.range
       /\ \E lo, hi, h, k : /\ Tree(pages, root_id, lo, hi, h, 0, k)
                            /\ ScanAt(pages, node, hi[node], seen, 1, op.key)
  ELSE seen = << >>

(* The entries of a sound tree are keys with values. *)
LEMMA HeldTyped ==
  ASSUME NEW pg, NEW root, NEW lo, NEW hi, NEW h, NEW odd, NEW k, Tree(pg, root, lo, hi, h, odd, k),
         NEW q, NEW v, Held(pg, q, v)
  PROVE  q \in Keys /\ v \in Values
<1>1. PICK x \in DOMAIN pg : ~pg[x].inner /\ HasEntry(pg[x], q, v)
  BY DEF Held
<1>2. IsOuter(pg[x], Keys, Values, PageIds)
  BY <1>1, TreeFacts DEF ShapeOK
<1>3. PICK j \in 1 .. Len(pg[x].keys) : pg[x].keys[j] = q /\ pg[x].values[j] = v
  BY <1>1 DEF HasEntry
<1>4. pg[x].values \in Seq(Values) /\ Len(pg[x].values) = Len(pg[x].keys) /\ pg[x].keys \in Seq(Keys)
  BY <1>2 DEF IsOuter
<1> QED
  BY <1>3, <1>4

(* What a scan's call says. *)
LEMMA ScanOp ==
  ASSUME OpIs("scan")
  PROVE  op.key \in Int /\ op.range \in Nat /\ 0 < op.range /\ node \in DOMAIN pages
<1>1. op \in Ops /\ op.kind = "scan" /\ node \in DOMAIN pages
  BY DEF OpIs
<1>2. op.range \in Ranges
  BY <1>1 DEF Ops
<1>3. op.range \in Nat /\ op.range # 0
  BY <1>2, RangesAreCounts
<1>4. 0 < op.range
  <2> DEFINE r == op.range
  <2>1. r \in Nat /\ r # 0
    BY <1>3
  <2> HIDE DEF r
  <2>2. 0 < r
    BY <2>1
  <2> QED
    BY <2>2 DEF r
<1> QED
  BY <1>1, <1>3, <1>4, OpFacts

(* A scan begins at the leaf its first key belongs to: all keys from it on *)
(* are behind its place there, or behind the leaf.                         *)
LEMMA ScanBegins ==
  ASSUME NEW lo, NEW hi, NEW h, NEW k, Tree(pages, root_id, lo, hi, h, 0, k), OpIs("scan"), NodeIsLeaf,
         Here(lo, hi, 0, node)
  PROVE  ScanAt(pages, node, hi[node], << >>, Index, op.key) /\ Index \in 1 .. Len(pages[node].keys) + 1
<1> DEFINE leaf == pages[node]
           key == op.key
           p == Index
<1>1. node \in DOMAIN pages /\ ~leaf.inner /\ key \in Int /\ lo[node] < key /\ key <= hi[node]
  BY ScanOp DEF NodeIsLeaf, Here
<1>2. /\ node # 0 /\ hi[node] \in Int /\ lo[node] \in Int
      /\ leaf.keys \in Seq(Int) /\ Ascending(leaf.keys) /\ Len(leaf.keys) \in Nat
      /\ \A j \in 1 .. Len(leaf.keys) : leaf.keys[j] \in Int /\ leaf.keys[j] <= hi[node]
  BY <1>1, TreeFacts, LeafKeys
<1>3. p \in 1 .. Len(leaf.keys) + 1 /\ \A i \in 1 .. Len(leaf.keys) : leaf.keys[i] < key <=> i < p
  BY <1>1, <1>2, PositionSplits DEF Index
<1>4. << >> \in Seq(Keys \X Values) /\ Len(<< >>) = 0
  OBVIOUS
<1>5. Ordered(pages, << >>, key, hi[node])
  BY <1>4 DEF Ordered
<1> HIDE DEF p, key
<1>6. ASSUME NEW j \in p .. Len(leaf.keys)
      PROVE  key <= leaf.keys[j] /\ leaf.keys[j] <= hi[node] /\ \A i \in 1 .. 0 : FALSE
  <2>1. j \in 1 .. Len(leaf.keys) /\ ~(j < p)
    BY <1>2, <1>3
  <2> QED
    BY <1>1, <1>2, <1>3, <2>1
<1>7. ASSUME NEW q, NEW v, Held(pages, q, v), key <= q
      PROVE  FromPlace(leaf, p, q, v) \/ hi[node] < q
  <2>1. PICK z \in DOMAIN pages : ~pages[z].inner /\ HasEntry(pages[z], q, v)
    BY <1>7 DEF Held
  <2>2. PICK j \in 1 .. Len(pages[z].keys) : pages[z].keys[j] = q /\ pages[z].values[j] = v
    BY <2>1 DEF HasEntry
  <2>3. CASE z = node
    <3>1. j \in 1 .. Len(leaf.keys) /\ leaf.keys[j] = q /\ leaf.values[j] = v /\ leaf.keys[j] \in Int
      BY <1>2, <2>2, <2>3
    <3>2. ~(leaf.keys[j] < key)
      BY <1>1, <1>7, <3>1
    <3>3. j \in p .. Len(leaf.keys)
      BY <1>2, <1>3, <3>1, <3>2
    <3> QED
      BY <3>1, <3>3 DEF FromPlace
  <2>4. CASE z # node
    <3>1. z # 0 /\ lo[z] \in Int /\ hi[z] \in Int
      BY TreeFacts
    <3>2. q \in Int /\ lo[z] < q /\ q <= hi[z]
      BY <2>1, <2>2, <3>1, LeafKeys
    <3>3. hi[node] <= lo[z] \/ hi[z] <= lo[node]
      BY <1>1, <2>1, <2>4, LeavesAreApart
    <3>4. hi[node] < q
      BY ONLY <1>1, <1>2, <1>7, <3>1, <3>2, <3>3
    <3> QED
      BY <3>4
  <2> QED
    BY <2>3, <2>4
<1>8. ScanAt(pages, node, hi[node], << >>, p, key)
  BY <1>1, <1>4, <1>5, <1>6, <1>7 DEF ScanAt
<1> QED
  BY <1>3, <1>8 DEF key, p

(* It goes on at the leaf where this one's span ends. *)
LEMMA ScanGoesOn ==
  ASSUME NEW pg, NEW root, NEW lo, NEW hi, NEW h, NEW k, Tree(pg, root, lo, hi, h, 0, k),
         NEW x \in DOMAIN pg, ~pg[x].inner, NEW y, y = pg[x].next_lef_id, y # 0,
         NEW s, NEW key \in Int, Ordered(pg, s, key, hi[x]), UpTo(pg, s, key, hi[x]), key <= hi[x]
  PROVE  ScanAt(pg, y, hi[y], s, 1, key)
<1>1. y \in DOMAIN pg /\ h[y] = 0 /\ lo[y] = hi[x]
  BY DEF Tree, Leaves, LeafOK, NextOK
<1>2. ~pg[y].inner
  BY <1>1, LeavesAreLowest DEF Tree
<1>3. lo[y] \in Int /\ hi[y] \in Int /\ hi[x] \in Int /\ lo[y] < hi[y] /\ y # 0
  BY <1>1, TreeFacts
<1>4. \A j \in 1 .. Len(pg[y].keys) : pg[y].keys[j] \in Int /\ lo[y] < pg[y].keys[j] /\ pg[y].keys[j] <= hi[y]
  BY <1>1, <1>2, <1>3, LeafKeys
<1>5. /\ s \in Seq(Keys \X Values)
      /\ \A i \in 1 .. Len(s) : Held(pg, s[i][1], s[i][2]) /\ key <= s[i][1] /\ s[i][1] <= hi[x] /\ s[i][1] \in Int
      /\ \A i, j \in 1 .. Len(s) : i < j => s[i][1] < s[j][1]
  <2>1. /\ s \in Seq(Keys \X Values)
        /\ \A i \in 1 .. Len(s) : Held(pg, s[i][1], s[i][2]) /\ key <= s[i][1] /\ s[i][1] <= hi[x]
        /\ \A i, j \in 1 .. Len(s) : i < j => s[i][1] < s[j][1]
    BY DEF Ordered
  <2>2. \A i \in 1 .. Len(s) : s[i] \in Keys \X Values
    BY <2>1
  <2>3. \A i \in 1 .. Len(s) : s[i][1] \in Keys
    BY <2>2
  <2> QED
    BY <2>1, <2>3, KeysAreInts
<1>6. \A i \in 1 .. Len(s) : s[i][1] <= hi[y]
  <2>1. SUFFICES ASSUME NEW i \in 1 .. Len(s) PROVE s[i][1] <= hi[y]
    OBVIOUS
  <2> DEFINE a == s[i][1]
  <2>2. a \in Int /\ a <= hi[x]
    BY <1>5
  <2> HIDE DEF a
  <2>3. a <= hi[y]
    BY <1>1, <1>3, <2>2
  <2> QED
    BY <2>3 DEF a
<1>7. Ordered(pg, s, key, hi[y])
  BY <1>5, <1>6 DEF Ordered
<1>8. ASSUME NEW j \in 1 .. Len(pg[y].keys)
      PROVE  key <= pg[y].keys[j] /\ pg[y].keys[j] <= hi[y] /\ \A i \in 1 .. Len(s) : s[i][1] < pg[y].keys[j]
  <2> DEFINE b == pg[y].keys[j]
  <2>1. b \in Int /\ hi[x] < b /\ b <= hi[y]
    BY <1>1, <1>4
  <2>2. ASSUME NEW i \in 1 .. Len(s) PROVE s[i][1] < b
    <3> DEFINE a == s[i][1]
    <3>1. a \in Int /\ a <= hi[x]
      BY <1>5
    <3> HIDE DEF a, b
    <3>2. a < b
      BY <1>3, <2>1, <3>1
    <3> QED
      BY <3>2 DEF a
  <2> HIDE DEF b
  <2>3. key <= b
    BY <1>3, <2>1
  <2> QED
    BY <2>1, <2>2, <2>3 DEF b
<1>9. ASSUME NEW q, NEW v, Held(pg, q, v), key <= q, ~Among(s, q, v)
      PROVE  FromPlace(pg[y], 1, q, v) \/ hi[y] < q
  <2>1. PICK z \in DOMAIN pg : ~pg[z].inner /\ HasEntry(pg[z], q, v)
    BY <1>9 DEF Held
  <2>2. PICK j \in 1 .. Len(pg[z].keys) : pg[z].keys[j] = q /\ pg[z].values[j] = v
    BY <2>1 DEF HasEntry
  <2>3. hi[x] < q
    BY <1>9 DEF UpTo
  <2>4. CASE z = y
    BY <2>2, <2>4 DEF FromPlace
  <2>5. CASE z # y
    <3>1. z # 0 /\ lo[z] \in Int /\ hi[z] \in Int
      BY TreeFacts
    <3>2. q \in Int /\ lo[z] < q /\ q <= hi[z]
      BY <2>1, <2>2, <3>1, LeafKeys
    <3>3. hi[y] <= lo[z] \/ hi[z] <= lo[y]
      BY <1>1, <1>2, <2>1, <2>5, LeavesAreApart
    <3>4. hi[y] < q
      BY ONLY <1>1, <1>3, <2>3, <3>1, <3>2, <3>3
    <3> QED
      BY <3>4
  <2> QED
    BY <2>4, <2>5
<1>10. key <= hi[y]
  BY <1>1, <1>3
<1> QED
  BY <1>7, <1>8, <1>9, <1>10 DEF ScanAt

(* Behind the last leaf there is nothing. *)
LEMMA NothingBehind ==
  ASSUME NEW pg, NEW root, NEW lo, NEW hi, NEW h, NEW k, Tree(pg, root, lo, hi, h, 0, k),
         NEW x \in DOMAIN pg, ~pg[x].inner, pg[x].next_lef_id = 0, NEW q, NEW v, Held(pg, q, v)
  PROVE  ~(hi[x] < q)
<1>1. hi[x] = Top
  BY DEF Tree, Leaves, LeafOK, NextOK
<1>2. q \in Keys
  BY HeldTyped
<1> QED
  BY <1>1, <1>2, TopIsAbove, KeysAreInts

(* A scan takes what it needs of a leaf and goes on to the next one, or    *)
(* What KVStore asks of a scan is ScannedOf, with the ranks named. *)
LEMMA ScannedIs ==
  ASSUME NEW key, NEW range
  PROVE  AsKVStore!Scanned(key, range) = ScannedOf(Contents, key, range)
<1> DEFINE M == Contents
           A == {k \in DOMAIN M : k >= key}
           nth(i) == CHOOSE k \in A : Cardinality({j \in A : j < k}) = i - 1
<1>1. \A i : nth(i) = Nth(A, i)
  BY Zenon DEF Nth
<1>2. AsKVStore!Scanned(key, range) = AsKVStore!FirstOf(range, [i \in 1 .. Cardinality(A) |-> <<nth(i), M[nth(i)]>>])
  BY Zenon DEF AsKVStore!Scanned, AsKVStore!Cardinality, Cardinality
<1>3. ScannedOf(Contents, key, range) = FirstOf(range, [i \in 1 .. Cardinality(A) |-> <<Nth(A, i), M[Nth(A, i)]>>])
  BY Zenon DEF ScannedOf
<1> HIDE DEF A, M, nth
<1>4. [i \in 1 .. Cardinality(A) |-> <<nth(i), M[nth(i)]>>] = [i \in 1 .. Cardinality(A) |-> <<Nth(A, i), M[Nth(A, i)]>>]
  BY <1>1
<1>5. \A n, s : AsKVStore!FirstOf(n, s) = FirstOf(n, s)
  BY Zenon DEF AsKVStore!FirstOf, FirstOf
<1> QED
  BY <1>2, <1>3, <1>4, <1>5

(* returns what KVStore's Scan returns.                                    *)
LEMMA ScanningMaps ==
  ASSUME IInv, IInv', NEW lo, NEW hi, NEW h, NEW k, Tree(pages, root_id, lo, hi, h, 0, k),
         OpIs("scan"), NodeIsLeaf, UNCHANGED root_id, Len(seen) < op.range,
         NEW start \in 1 .. Len(pages[node].keys) + 1,
         ScanAt(pages, node, hi[node], seen, start, op.key), Scanning(start)
  PROVE  SeenInv' /\ (UNCHANGED <<Contents, op, result>> \/ (AsKVStore!Scan /\ op' = NoOp))
<1> DEFINE leaf == pages[node]
           key == op.key
           range == op.range
           all == TakenFrom(leaf, seen, start, range)
           next == leaf.next_lef_id
           more == Len(all) < range /\ next # 0
<1>1. node \in DOMAIN pages /\ ~leaf.inner /\ key \in Int /\ range \in Nat /\ op.kind = "scan"
  BY ScanOp DEF NodeIsLeaf, OpIs
<1>2. \/ /\ more
         /\ pc' = "scan_on" /\ seen' = all /\ node' = next /\ pages' = pages
         /\ op' = op /\ result' = result
      \/ /\ ~more
         /\ result' = all /\ pc' = "idle" /\ op' = NoOp /\ seen' = << >> /\ pages' = pages
  BY DEF Scanning, TakenFrom, EntriesOf, Return, Effect
<1>3. hi[node] \in Int /\ IsOuter(leaf, Keys, Values, PageIds)
  BY <1>1, TreeFacts DEF ShapeOK
<1>4. \A q, v : Held(pages, q, v) => q \in Keys /\ v \in Values
  BY HeldTyped
<1>5. Len(seen) <= range
  <2>1. Len(seen) \in Nat
    BY DEF ScanAt, Ordered
  <2> QED
    BY <1>1, <2>1
<1>6. ScanAt(pages, node, hi[node], seen, start, key) /\ key <= hi[node]
  BY DEF ScanAt
<1>7. Contents' = Contents
  BY <1>2, MapStays, SamePages
<1> HIDE DEF key, range, all, next
<1>8. /\ Ordered(pages, all, key, hi[node]) /\ Gapless(pages, all, key)
      /\ Len(all) \in Nat /\ Len(all) <= range
      /\ Len(all) < range => UpTo(pages, all, key, hi[node])
  <2>1. all = TakenFrom(pages[node], seen, start, range)
    BY DEF all
  <2>2. \A q, v : Held(pages, q, v) => q \in Keys
    BY <1>4
  <2>3. ~pages[node].inner /\ IsOuter(pages[node], Keys, Values, PageIds)
    BY <1>1, <1>3
  <2> HIDE DEF leaf
  <2> QED
    BY <1>1, <1>3, <1>5, <1>6, <2>1, <2>2, <2>3, ScanTakes
<1>9. CASE more
  <2>1. pc' = "scan_on" /\ seen' = all /\ node' = next /\ pages' = pages /\ op' = op /\ result' = result
    BY <1>2, <1>9
  <2>2. ScanAt(pages, next, hi[next], all, 1, key)
    BY <1>1, <1>6, <1>8, <1>9, ScanGoesOn DEF next
  <2>3. SeenInv'
    <3>1. /\ Tree(pages', root_id', lo, hi, h, 0, k)
          /\ ScanAt(pages', node', hi[node'], seen', 1, op'.key)
      BY <2>1, <2>2 DEF key
    <3>2. Len(seen') < op'.range
      BY <1>9, <2>1 DEF range
    <3> QED
      BY <2>1, <3>1, <3>2 DEF SeenInv
  <2> QED
    BY <1>7, <2>1, <2>3
<1>10. CASE ~more
  <2>1. result' = all /\ pc' = "idle" /\ op' = NoOp /\ seen' = << >>
    BY <1>2, <1>10
  <2>2. Len(all) < range => \A q, v : Held(pages, q, v) /\ key <= q => Among(all, q, v)
    <3>1. ASSUME Len(all) < range, NEW q, NEW v, Held(pages, q, v), key <= q PROVE Among(all, q, v)
      <4>1. UpTo(pages, all, key, hi[node]) /\ next = 0
        BY <1>8, <1>10, <3>1
      <4>2. ~(hi[node] < q)
        BY <1>1, <3>1, <4>1, NothingBehind DEF next
      <4> QED
        BY <3>1, <4>1, <4>2 DEF UpTo
    <3> QED
      BY <3>1
  <2>3. IsMapOf(Contents, pages)
    BY ContentsAre
  <2>4. all = ScannedOf(Contents, key, range)
    BY <1>1, <1>4, <1>8, <2>2, <2>3, ScanResult
  <2>5. AsKVStore!Scanned(op.key, op.range) = ScannedOf(Contents, key, range)
    BY ScannedIs DEF key, range
  <2>6. AsKVStore!Scan
    BY <1>1, <1>7, <2>1, <2>4, <2>5 DEF AsKVStore!Scan
  <2>7. SeenInv'
    BY <2>1 DEF SeenInv
  <2> QED
    BY <2>1, <2>6, <2>7
<1> QED
  BY <1>9, <1>10

(* The two steps that read leaves for a scan. *)
LEMMA ScanMaps ==
  IInv /\ SeenInv /\ (ScanAtLeaf \/ ScanOn)
    => SeenInv' /\ (UNCHANGED <<Contents, op, result>> \/ (AsKVStore!Scan /\ op' = NoOp))
<1> SUFFICES ASSUME IInv, SeenInv, ScanAtLeaf \/ ScanOn
             PROVE  SeenInv' /\ (UNCHANGED <<Contents, op, result>> \/ (AsKVStore!Scan /\ op' = NoOp))
  OBVIOUS
<1>1. PICK lo, hi, h, odd, k : Labelled(lo, hi, h, odd, k)
  BY DEF IInv
<1>2. IInv'
  BY ScanAtLeafKeeps, ScanOnKeeps DEF Kept
<1>3. CASE ScanAtLeaf
  <2>1. pc = "scan" /\ NodeIsLeaf /\ Scanning(Index) /\ UNCHANGED root_id
    BY <1>3 DEF ScanAtLeaf, Index
  <2>2. Walking(lo, hi, odd) /\ Tree(pages, root_id, lo, hi, h, odd, k)
    BY <1>1, <2>1, Known, Places
  <2>3. OpIs("scan") /\ odd = 0 /\ Here(lo, hi, 0, node) /\ Tree(pages, root_id, lo, hi, h, 0, k)
    BY <2>1, <2>2 DEF Walking
  <2>4. seen = << >> /\ Len(seen) < op.range
    <3>1. seen = << >>
      BY <2>1 DEF SeenInv
    <3> QED
      BY <2>3, <3>1, ScanOp
  <2>5. ScanAt(pages, node, hi[node], seen, Index, op.key) /\ Index \in 1 .. Len(pages[node].keys) + 1
    BY <2>1, <2>3, <2>4, ScanBegins
  <2> QED
    BY <1>2, <2>1, <2>3, <2>4, <2>5, ScanningMaps
<1>4. CASE ScanOn
  <2>1. pc = "scan_on" /\ Scanning(1) /\ UNCHANGED root_id
    BY <1>4 DEF ScanOn
  <2>2. OpIs("scan") /\ NodeIsLeaf
    BY <1>1, <2>1, Known, Places DEF ScanningOn
  <2>3. PICK lo2, hi2, h2, k2 : /\ Tree(pages, root_id, lo2, hi2, h2, 0, k2)
                                /\ ScanAt(pages, node, hi2[node], seen, 1, op.key)
    BY <2>1 DEF SeenInv
  <2>4. Len(seen) < op.range
    BY <2>1 DEF SeenInv
  <2>5. 1 \in 1 .. Len(pages[node].keys) + 1
    <3>1. Len(pages[node].keys) \in Nat
      BY <2>2, <2>3, TreeFacts DEF OpIs
    <3> QED
      BY <3>1
  <2> QED
    BY <1>2, <2>1, <2>2, <2>3, <2>4, <2>5, ScanningMaps
<1> QED
  BY <1>3, <1>4

-----------------------------------------------------------------------------
(* While a call runs it is one of the calls there are, and no call is      *)
(* called scan_on, the place of a scan behind its first leaf.              *)
LEMMA RunningOp ==
  ASSUME IInv, pc # "idle"
  PROVE  op \in Ops /\ op.kind # "scan_on"
<1>1. PICK lo, hi, h, odd, k : Labelled(lo, hi, h, odd, k)
  BY DEF IInv
<1>2. Registers(lo, hi, h, odd)
  BY <1>1, Known
<1>3. op \in Ops
  BY <1>2 DEF Registers, Resting, Walking, ScanningOn, Inserting, Splitting, Deleting, Finding, Balancing, OpIs
<1> QED
  BY <1>3 DEF Ops

(* A step that goes on without reading a leaf keeps what a scan has seen.  *)
LEMMA RecurKeepsSeen == IInv /\ SeenInv /\ pc \notin {"idle", "scan_on"} /\ (\E to : Recur(to)) => SeenInv'
<1>1. ASSUME IInv, SeenInv, pc # "idle", pc # "scan_on", NEW to, Recur(to) PROVE SeenInv'
  <2>1. pc' # "scan_on"
    BY <1>1, RunningOp DEF Recur
  <2>2. seen' = << >>
    BY <1>1 DEF SeenInv, Recur
  <2> QED
    BY <2>1, <2>2 DEF SeenInv
<1> QED
  BY <1>1

(* So does one that asks for a page and stays where it is. *)
LEMMA GotoKeepsSeen ==
  ASSUME SeenInv, pc # "scan_on", NEW place, NEW c, NEW o, place # "scan_on", Goto(place, c, o)
  PROVE  SeenInv'
<1>1. pc' # "scan_on"
  BY DEF Goto
<1>2. seen' = << >>
  BY DEF SeenInv, Goto
<1> QED
  BY <1>1, <1>2 DEF SeenInv

(* A call that returns has seen what it wanted to see. *)
LEMMA ReturnKeepsSeen == Return => SeenInv'
  BY DEF Return, SeenInv

(* The steps that go on, with the place they are taken at. *)
LEMMA Goes ==
  ASSUME \/ Descend \/ SplitRoot \/ InsertDescend \/ SplitChild \/ ShrinkRoot \/ DeleteDescend
         \/ ExchangeKey \/ Substitute \/ Merge
  PROVE  pc \notin {"idle", "scan_on"} /\ (\E to : Recur(to)) /\ op' = op /\ result' = result
<1>1. pc \notin {"idle", "scan_on"} /\ \E to : Recur(to)
  <2>1. Descend \/ InsertDescend \/ SplitRoot => pc \notin {"idle", "scan_on"} /\ \E to : Recur(to)
    BY DEF Descend, InsertDescend, SplitRoot
  <2>2. SplitChild => pc \notin {"idle", "scan_on"} /\ \E to : Recur(to)
    BY DEF SplitChild
  <2>3. ShrinkRoot \/ DeleteDescend \/ ExchangeKey => pc \notin {"idle", "scan_on"} /\ \E to : Recur(to)
    BY DEF ShrinkRoot, DeleteDescend, DeleteInner, ExchangeKey
  <2>4. Substitute \/ Merge => pc \notin {"idle", "scan_on"} /\ \E to : Recur(to)
    BY DEF Substitute, Merge
  <2> QED
    BY <2>1, <2>2, <2>3, <2>4
<1> QED
  BY <1>1 DEF Recur

(* The steps that ask for a page or give one back, with the next place.    *)
LEMMA Asks ==
  ASSUME CreateSibling \/ FindBiggest \/ Rebalance \/ AskLeft \/ AskRight \/ Refuse \/ AskMerge
  PROVE  /\ pc # "scan_on" /\ op' = op /\ result' = result /\ pages' = pages
         /\ \E place, c, o : place # "scan_on" /\ Goto(place, c, o)
<1>1. CASE CreateSibling
  BY <1>1 DEF CreateSibling, Effect, Goto
<1>2. CASE FindBiggest
  <2>1. pc # "scan_on" /\ \E c, o : Goto("find", c, o)
    BY <1>2 DEF FindBiggest, DeleteInner
  <2>2. pages' = pages
    BY <1>2 DEF FindBiggest, Effect
  <2> QED
    BY <2>1, <2>2 DEF Goto
<1>3. CASE Rebalance
  BY <1>3 DEF Rebalance, DeleteInner, Effect, Goto
<1>4. CASE AskLeft
  BY <1>4 DEF AskLeft, Effect, Goto
<1>5. CASE AskRight
  BY <1>5 DEF AskRight, Effect, Goto
<1>6. CASE Refuse
  BY <1>6 DEF Refuse, Effect, Goto
<1>7. CASE AskMerge
  BY <1>7 DEF AskMerge, Effect, Goto
<1> QED
  BY <1>1, <1>2, <1>3, <1>4, <1>5, <1>6, <1>7

(* The steps on the way: the tree changes its shape, the map stays.        *)
LEMMA MovesMap ==
  ASSUME IInv, SeenInv,
         \/ Descend \/ SplitRoot \/ InsertDescend \/ SplitChild \/ ShrinkRoot \/ DeleteDescend
         \/ ExchangeKey \/ Substitute \/ Merge
  PROVE  SeenInv' /\ UNCHANGED <<Contents, op, result>>
<1>1. SeenInv' /\ op' = op /\ result' = result
  BY Goes, RecurKeepsSeen
<1>2. IInv'
  BY DescendKeeps, SplitRootKeeps, InsertDescendKeeps, SplitChildKeeps, ShrinkRootKeeps, DeleteDescendKeeps,
     ExchangeKeyKeeps, SubstituteKeeps, MergeKeeps DEF Kept
<1>3. SameHeld(pages, pages')
  <2>1. Descend \/ InsertDescend \/ DeleteDescend => pages' = pages
    BY DEF Descend, InsertDescend, DeleteDescend, Effect
  <2> QED
    BY <2>1, SamePages, SplitRootKeeps, SplitChildKeeps, ShrinkRootKeeps, ExchangeKeyKeeps, SubstituteKeeps, MergeKeeps
<1> QED
  BY <1>1, <1>2, <1>3, MapStays

(* The steps that ask for a page: nothing is written. *)
LEMMA AsksMap ==
  ASSUME IInv, SeenInv, CreateSibling \/ FindBiggest \/ Rebalance \/ AskLeft \/ AskRight \/ Refuse \/ AskMerge
  PROVE  SeenInv' /\ UNCHANGED <<Contents, op, result>>
<1>1. SeenInv' /\ op' = op /\ result' = result
  BY Asks, GotoKeepsSeen
<1>2. IInv'
  BY CreateSiblingKeeps, FindBiggestKeeps, RebalanceKeeps, AskLeftKeeps, AskRightKeeps, RefuseKeeps, AskMergeKeeps DEF Kept
<1> QED
  BY <1>1, <1>2, Asks, SamePages, MapStays

(* The last steps of the calls: the map's operation takes effect.          *)
LEMMA ReturnMaps ==
  ASSUME IInv, SeenInv, InsertAtLeaf \/ UpdateAtLeaf \/ DeleteAtLeaf \/ GetAtLeaf
  PROVE  SeenInv' /\ AsKVStore!Return
<1>1. Return
  BY DEF InsertAtLeaf, UpdateAtLeaf, DeleteAtLeaf, GetAtLeaf
<1>2. AsKVStore!Insert \/ AsKVStore!Update \/ AsKVStore!Delete \/ AsKVStore!Get
  BY InsertMaps, UpdateMaps, DeleteMaps, GetMaps
<1>3. op' = AsKVStore!NoOp
  BY <1>1 DEF Return, NoOp, AsKVStore!NoOp
<1> QED
  BY <1>1, <1>2, <1>3, ReturnKeepsSeen DEF AsKVStore!Return

(* Every step of a call is a step of the map's, or the map does not move.  *)
LEMMA StepMaps ==
  IInv /\ SeenInv /\ Step => SeenInv' /\ (AsKVStore!Return \/ UNCHANGED <<Contents, op, result>>)
<1>1. ASSUME IInv, SeenInv, ScanAtLeaf \/ ScanOn
      PROVE  SeenInv' /\ (AsKVStore!Return \/ UNCHANGED <<Contents, op, result>>)
  BY <1>1, ScanMaps DEF AsKVStore!Return, NoOp, AsKVStore!NoOp
<1> QED
  BY <1>1, MovesMap, AsksMap, ReturnMaps DEF Step

(* A call that is made leaves the map as it is, and only a new key is      *)
(* inserted.                                                               *)
LEMMA CallMaps ==
  ASSUME IInv, SeenInv, NEW o \in Ops, o.kind = "insert" => o.key \notin StoredKeys, Call(o)
  PROVE  SeenInv' /\ AsKVStore!Call(o)
<1>1. PICK lo, hi, h, odd, k : Labelled(lo, hi, h, odd, k)
  BY DEF IInv
<1>2. pc = "idle" /\ op' = o /\ pc' = o.kind /\ result' = Missing /\ pages' = pages /\ seen' = seen
  BY DEF Call, Effect
<1>3. op = NoOp
  BY <1>1, <1>2, Known, Places DEF Resting
<1>4. Contents' = Contents
  BY <1>2, CallKeeps, SamePages, MapStays DEF Kept
<1>5. SeenInv'
  <2>1. o.kind # "scan_on"
    BY DEF Ops
  <2>2. seen = << >>
    BY <1>2 DEF SeenInv
  <2> QED
    BY <1>2, <2>1, <2>2 DEF SeenInv
<1>6. o.kind = "insert" => o.key \notin DOMAIN Contents
  <2>1. DOMAIN Contents = StoredKeys
    BY DEF Contents
  <2> QED
    BY <2>1
<1> QED
  BY <1>2, <1>3, <1>4, <1>5, <1>6 DEF AsKVStore!Call, NoOp, AsKVStore!NoOp

(* An empty database is an empty map. *)
LEMMA InitMaps == Init => AsKVStore!Init /\ SeenInv
<1> SUFFICES ASSUME Init PROVE AsKVStore!Init /\ SeenInv
  OBVIOUS
<1>1. pages = Page(1, OuterNode(<< >>, << >>, 0)) /\ op = NoOp /\ pc = "idle" /\ seen = << >> /\ result = Missing
  BY DEF Init
<1>2. StoredKeys = {}
  <2>1. DOMAIN pages = {1} /\ pages[1].keys = << >>
    <3>1. DOMAIN pages = {1} /\ pages[1] = OuterNode(<< >>, << >>, 0)
      BY <1>1, PageIs
    <3> QED
      BY <3>1 DEF OuterNode
  <2>2. Range(pages[1].keys) = {}
    BY <2>1 DEF Range
  <2> QED
    BY <2>1, <2>2 DEF StoredKeys
<1>3. Contents = << >>
  <2>1. DOMAIN Contents = {} /\ Contents = [q \in DOMAIN Contents |-> Contents[q]]
    BY <1>2 DEF Contents
  <2> QED
    BY <2>1
<1> QED
  BY <1>1, <1>3 DEF AsKVStore!Init, SeenInv, NoOp, AsKVStore!NoOp

(* Nothing changes. *)
LEMMA StutterKeepsSeen == SeenInv /\ UNCHANGED vars => SeenInv' /\ UNCHANGED <<Contents, op, result>>
<1>1. UNCHANGED vars => pages' = pages /\ root_id' = root_id /\ op' = op /\ pc' = pc /\ node' = node
                        /\ seen' = seen /\ result' = result
  BY DEF vars, callVars
<1>2. pages' = pages => Contents' = Contents
  BY DEF Contents, StoredKeys, Outer, Inner
<1> QED
  BY <1>1, <1>2 DEF SeenInv

(* The tree is a map from keys to values: whatever the calls do to the     *)
(* pages, every one takes effect at its last step as it does on a map, and *)
(* returns what the map holds; a scan returns the entries that follow.     *)
THEOREM TreeImplementsMap == Spec => ImplementsKVStore
<1>1. Init => AsKVStore!Init /\ IInv /\ SeenInv
  BY InitIInv, InitMaps
<1>2. IInv /\ SeenInv /\ [Next]_vars => SeenInv' /\ [AsKVStore!Next]_(AsKVStore!vars)
  <2>1. ASSUME IInv, SeenInv, Next PROVE SeenInv' /\ [AsKVStore!Next]_(AsKVStore!vars)
    <3>1. CASE Step
      BY <2>1, <3>1, StepMaps DEF AsKVStore!Next, AsKVStore!vars
    <3>2. ASSUME NEW o \in Ops, Allowed(o, StoredKeys), Call(o) PROVE SeenInv' /\ AsKVStore!Next
      <4>1. o \in AsKVStore!Ops
        BY <3>2 DEF Ops, AsKVStore!Ops
      <4> QED
        BY <2>1, <3>2, <4>1, CallMaps DEF AsKVStore!Next, Allowed
    <3> QED
      BY <2>1, <3>1, <3>2 DEF Next
  <2> QED
    BY <2>1, StutterKeepsSeen DEF AsKVStore!vars
<1>3. IInv /\ [Next]_vars => IInv'
  BY NextKeeps, StutterKeeps DEF Kept
<1> QED
  BY <1>1, <1>2, <1>3, PTL DEF Spec, ImplementsKVStore, AsKVStore!Spec
=============================================================================
