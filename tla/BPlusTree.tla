----------------------------- MODULE BPlusTree -----------------------------
(***************************************************************************)
(* BPlusTree (src/src/bplus_tree/bplus_tree.h) without a cache: nodes on   *)
(* pages, reached by fixing a page in the buffer and unfixing it again.    *)
(*                                                                         *)
(* An action is the piece of a call between two requests of a page: from   *)
(* where request_page or create_new_page returned to where the next one    *)
(* does (a descent unfixes the parent at once).  All recursive calls are   *)
(* tail calls: the registers node, child and other are the headers they    *)
(* pass on, pc says where the call is.                                     *)
(*                                                                         *)
(* The buffer manager is a store of pages here (module PageStore), with    *)
(* the counts of fix_page and unfix_page.  The ids of deleted pages are    *)
(* used again, to keep their number finite; the code compares ids only.    *)
(***************************************************************************)
EXTENDS BNodes, Calls

CONSTANTS Missing,      \* INT64_MIN: what get_value returns for no value
          MaxPages      \* bound: as many pages exist at a time

ASSUME MaxPagesAssumption == MaxPages \in Nat \ {0}

VARIABLES pages,        \* page id |-> node, for the pages that exist
          root_id,
          op,           \* the call in progress
          pc,
          node, child, other,   \* the pages it works on; 0: none
          seen,         \* scan: the entries summed up so far
          result,       \* what the last call returned
          fix_count,    \* page id |-> fixes minus unfixes of the tree
          unsaved       \* pages written and not marked dirty since

callVars == <<op, pc, node, child, other, seen, result>>
vars == <<pages, root_id, callVars, fix_count, unsaved>>

PageIds == 1 .. MaxPages
NewId(taken) == CHOOSE id \in PageIds : id \notin taken
Room(taken) == ~(PageIds \subseteq taken)

Bit(b) == IF b THEN 1 ELSE 0

(* What a piece of code does to the pages: it leaves new, has fixed and    *)
(* unfixed some, and unfixed with dirty = true or marked dirty those of    *)
(* saved.  A page that create_new_page returned is dirty from the start.   *)
Effect(new, fixed, unfixed, saved) ==
  /\ pages' = new
  /\ fix_count' = [i \in PageIds |-> fix_count[i] + Bit(i \in fixed) - Bit(i \in unfixed)]
  /\ unsaved' = (unsaved \cup {i \in DOMAIN pages \cap DOMAIN pages' : pages'[i] # pages[i]})
                  \cap (DOMAIN pages' \ saved)

(* pages with some of them replaced or added; without one.  Changes are    *)
(* put together from single pages.                                         *)
Page(id, n) == [i \in {id} |-> n]
c ++ d == [i \in DOMAIN c \cup DOMAIN d |-> IF i \in DOMAIN c THEN c[i] ELSE d[i]]
With(changes) == changes ++ pages
Without(id, changes) == [i \in DOMAIN pages \ {id} |-> With(changes)[i]]

(* The constructor: one empty leaf. *)
Init ==
  /\ pages = Page(1, OuterNode(<< >>, << >>, 0))
  /\ root_id = 1
  /\ op = NoOp /\ pc = "idle" /\ node = 0 /\ child = 0 /\ other = 0
  /\ seen = << >> /\ result = Missing
  /\ fix_count = [i \in PageIds |-> 0] /\ unsaved = {}

StoredKeys == UNION {Range(pages[i].keys) : i \in {j \in DOMAIN pages : ~pages[j].inner}}

Call(o) ==
  /\ pc = "idle"
  /\ op' = o /\ pc' = o.kind /\ node' = root_id
  /\ result' = Missing
  /\ Effect(pages, {root_id}, {}, {})
  /\ UNCHANGED <<root_id, child, other, seen>>

Return ==
  /\ pc' = "idle" /\ op' = NoOp
  /\ node' = 0 /\ child' = 0 /\ other' = 0 /\ seen' = << >>

(* The recursive call on the page to, which is fixed now. *)
Recur(to) ==
  /\ pc' = op.kind /\ node' = to /\ child' = 0 /\ other' = 0
  /\ UNCHANGED <<op, seen, result>>

(* A page was requested: go on at the given place with these registers.    *)
Goto(place, c, o) ==
  /\ pc' = place /\ child' = c /\ other' = o
  /\ UNCHANGED <<op, node, seen, result>>

NodeIsLeaf == ~pages[node].inner
NextChild == NextPage(pages[node], op.key)

-----------------------------------------------------------------------------
(* get_value, update and scan walk down alike. *)
Descend ==
  /\ pc \in {"get", "update", "scan"} /\ ~NodeIsLeaf
  /\ Effect(pages, {NextChild}, {node}, {})
  /\ Recur(NextChild)
  /\ UNCHANGED root_id

GetAtLeaf ==
  /\ pc = "get" /\ NodeIsLeaf
  /\ result' = IF HasKey(pages[node], op.key)
               THEN pages[node].values[Position(pages[node], op.key)] ELSE Missing
  /\ Return
  /\ Effect(pages, {}, {node}, {})
  /\ UNCHANGED root_id

(* update_recursive, and mutants: the leaf is unfixed as unchanged; the    *)
(* value of the last entry is left as it is.                               *)
UpdateAtLeaf_Skipped ==
  /\ pc = "update" /\ NodeIsLeaf
  /\ Effect(IF Position(pages[node], op.key) < Len(pages[node].keys)
            THEN With(Page(node, OuterUpdate(pages[node], op.key, op.value))) ELSE pages,
            {}, {node}, {node})
  /\ Return
  /\ UNCHANGED <<root_id, result>>
UpdateAtLeaf_Clean ==
  /\ pc = "update" /\ NodeIsLeaf
  /\ Effect(With(Page(node, OuterUpdate(pages[node], op.key, op.value))), {}, {node}, {})
  /\ Return
  /\ UNCHANGED <<root_id, result>>
UpdateAtLeaf ==
  /\ pc = "update" /\ NodeIsLeaf
  /\ Effect(With(Page(node, OuterUpdate(pages[node], op.key, op.value))), {}, {node}, {node})
  /\ Return
  /\ UNCHANGED <<root_id, result>>

(* TreeOperations::scan.  The sum is modelled by the sequence of entries   *)
(* it sums up.  A leaf that is gone to next is read from its beginning.    *)
Scanning(start) ==
  LET leaf == pages[node]
      left == op.range - Len(seen)
      entries == [i \in DOMAIN leaf.keys |-> <<leaf.keys[i], leaf.values[i]>>]
      all == seen \o FirstOf(left, SubSeq(entries, start, Len(entries)))
      more == Len(all) < op.range /\ leaf.next_lef_id # 0
  IN  \/ /\ more
         /\ pc' = "scan_on" /\ seen' = all /\ node' = leaf.next_lef_id
         /\ Effect(pages, {leaf.next_lef_id}, {node}, {})
         /\ UNCHANGED <<op, child, other, result>>
      \/ /\ ~more
         /\ result' = all
         /\ Return
         /\ Effect(pages, {}, {node}, {})

(* keys[index] is compared with the key even if index = current_index: the *)
(* slot may still hold the key, that of an entry that was moved or deleted.*)
ScanAtLeaf ==
  /\ pc = "scan" /\ NodeIsLeaf
  /\ Position(pages[node], op.key) <= Len(pages[node].keys) => HasKey(pages[node], op.key)
  /\ Scanning(Position(pages[node], op.key))
  /\ UNCHANGED root_id

ScanOn == pc = "scan_on" /\ Scanning(1) /\ UNCHANGED root_id

(* No such key: INT64_MIN, and the leaf stays fixed.  Allowed excludes it; *)
(* the modules whose clients do it add this to Step.                       *)
ScanMiss ==
  /\ pc = "scan" /\ NodeIsLeaf /\ ~HasKey(pages[node], op.key)
  /\ result' = Missing
  /\ Return
  /\ UNCHANGED <<pages, root_id, fix_count, unsaved>>

-----------------------------------------------------------------------------
InsertAtLeaf ==
  /\ pc = "insert" /\ NodeIsLeaf /\ ~(node = root_id /\ IsFull(pages[node]))
  /\ Effect(With(Page(node, OuterInsert(pages[node], op.key, op.value))), {}, {node}, {node})
  /\ Return
  /\ UNCHANGED <<root_id, result>>

SplitIndex(max) == IF max % 2 = 0 THEN max \div 2 ELSE max \div 2 + 1

(* split_outer_node and split_inner_node: page id keeps the lower half of  *)
(* its entries, the upper half goes to page new.  An inner node gives its  *)
(* split key up.                                                           *)
SplitKey(id) == pages[id].keys[SplitIndex(MaxSize(pages[id]))]
Split(id, new) ==
  LET n == pages[id]
      at == SplitIndex(MaxSize(n))
  IN  IF n.inner
      THEN Page(id, InnerNode(SubSeq(n.keys, 1, at - 1), SubSeq(n.child_ids, 1, at)))
             ++ Page(new, InnerNode(SubSeq(n.keys, at + 1, Len(n.keys)),
                                    SubSeq(n.child_ids, at + 1, Len(n.child_ids))))
      ELSE Page(id, OuterNode(SubSeq(n.keys, 1, at), SubSeq(n.values, 1, at), new))
             ++ Page(new, OuterNode(SubSeq(n.keys, at + 1, Len(n.keys)),
                                    SubSeq(n.values, at + 1, Len(n.keys)), n.next_lef_id))

(* A full root: both new pages are created in this action; the sibling is  *)
(* unfixed again before the new root is created.                           *)
SplitRoot ==
  /\ pc = "insert" /\ node = root_id /\ IsFull(pages[node])
  /\ LET sibling == NewId(DOMAIN pages)
         root == NewId(DOMAIN pages \cup {sibling})
     IN  /\ Room(DOMAIN pages \cup {sibling})
         /\ Effect(With(Split(node, sibling)
                          ++ Page(root, InnerNode(<<SplitKey(node)>>, <<node, sibling>>))),
                   {root}, {node}, {node})
         /\ root_id' = root
         /\ Recur(root)

InsertDescend ==
  /\ pc = "insert" /\ ~NodeIsLeaf /\ ~(node = root_id /\ IsFull(pages[node]))
  /\ ~IsFull(pages[NextChild])
  /\ Effect(pages, {NextChild}, {node}, {})
  /\ Recur(NextChild)
  /\ UNCHANGED root_id

(* A full child is split first: create_new_page, then the split itself.    *)
CreateSibling ==
  /\ pc = "insert" /\ ~NodeIsLeaf /\ ~(node = root_id /\ IsFull(pages[node]))
  /\ IsFull(pages[NextChild]) /\ Room(DOMAIN pages)
  /\ Effect(pages, {NextChild, NewId(DOMAIN pages)}, {}, {})
  /\ Goto("split", NextChild, NewId(DOMAIN pages))
  /\ UNCHANGED root_id

SplitChild ==
  /\ pc = "split"
  /\ LET parent == InnerInsert(pages[node], SplitKey(child), other)
         next == NextPage(parent, op.key)
     IN  /\ Effect(With(Split(child, other) ++ Page(node, parent)),
                   {next}, {node, child, other}, {node, child, other})
         /\ Recur(next)
  /\ UNCHANGED root_id

-----------------------------------------------------------------------------
DeleteAtLeaf ==
  /\ pc = "delete" /\ NodeIsLeaf
  /\ Effect(With(Page(node, OuterDelete(pages[node], op.key))), {}, {node}, {node})
  /\ Return
  /\ UNCHANGED <<root_id, result>>

RootIsSpent == node = root_id /\ pages[node].keys = << >>

(* The root has one child left, which becomes the root. Mutant: the old    *)
(* root's page is not deleted.                                             *)
ShrinkRoot_Leaks ==
  /\ pc = "delete" /\ ~NodeIsLeaf /\ RootIsSpent
  /\ root_id' = pages[node].child_ids[1]
  /\ Effect(pages, {root_id'}, {node}, {})
  /\ Recur(root_id')
ShrinkRoot ==
  /\ pc = "delete" /\ ~NodeIsLeaf /\ RootIsSpent
  /\ root_id' = pages[node].child_ids[1]
  /\ Effect(Without(node, << >>), {root_id'}, {node}, {})
  /\ Recur(root_id')

DeleteInner == pc = "delete" /\ ~NodeIsLeaf /\ ~RootIsSpent

DeleteDescend ==
  /\ DeleteInner /\ CanDelete(pages[NextChild]) /\ ~HasKey(pages[node], op.key)
  /\ Effect(pages, {NextChild}, {node}, {})
  /\ Recur(NextChild)
  /\ UNCHANGED root_id

(* The key is a separator of the node: find_biggest looks for the next     *)
(* smaller key, which takes its place, always in the last child.           *)
FindBiggest ==
  /\ \/ /\ DeleteInner /\ CanDelete(pages[NextChild]) /\ HasKey(pages[node], op.key)
        /\ Effect(pages, {NextChild}, {}, {})
        /\ Goto("find", NextChild, NextChild)
     \/ /\ pc = "find" /\ pages[other].inner
        /\ LET last == Last(pages[other].child_ids) IN
           /\ Effect(pages, {last}, {other}, {})
           /\ Goto("find", child, last)
  /\ UNCHANGED root_id

(* The last key of the leaf is the one to be deleted, its predecessor is   *)
(* taken.  Mutant: the last one is.                                        *)
Biggest_Last(leaf) == leaf.keys[Len(leaf.keys)]
Biggest(leaf) == leaf.keys[Len(leaf.keys) - 1]

ExchangeKey ==
  /\ pc = "find" /\ ~pages[other].inner
  /\ Effect(With(Page(node, Exchange(pages[node], op.key, Biggest(pages[other])))),
            {child}, {node, other}, {node})
  /\ Recur(child)
  /\ UNCHANGED root_id

-----------------------------------------------------------------------------
(* A child that cannot spare an entry: substitute asks the left and then   *)
(* the right sibling for one, merge joins it with a sibling.               *)
Rebalance ==
  /\ DeleteInner /\ ~CanDelete(pages[NextChild])
  /\ Effect(pages, {NextChild}, {}, {})
  /\ Goto("ask_left", NextChild, 0)
  /\ UNCHANGED root_id

Siblings == pages[node].child_ids
ChildIndex == CHOOSE i \in DOMAIN Siblings : Siblings[i] = child

AskLeft ==
  /\ pc = "ask_left"
  /\ \/ /\ ChildIndex > 1
        /\ Effect(pages, {Siblings[ChildIndex - 1]}, {}, {})
        /\ Goto("left", child, Siblings[ChildIndex - 1])
     \/ /\ ChildIndex = 1
        /\ Goto("ask_right", child, 0)
        /\ UNCHANGED <<pages, fix_count, unsaved>>
  /\ UNCHANGED root_id

AskRight ==
  /\ pc = "ask_right"
  /\ \/ /\ ChildIndex < Len(Siblings)
        /\ Effect(pages, {Siblings[ChildIndex + 1]}, {}, {})
        /\ Goto("right", child, Siblings[ChildIndex + 1])
     \/ /\ ChildIndex = Len(Siblings)
        /\ Goto("merge", child, 0)
        /\ UNCHANGED <<pages, fix_count, unsaved>>
  /\ UNCHANGED root_id

(* Mutants: the sibling stays fixed; the left sibling is asked again. *)
Refuse_StaysFixed ==
  /\ pc \in {"left", "right"} /\ ~CanDelete(pages[other])
  /\ Goto(IF pc = "left" THEN "ask_right" ELSE "merge", child, 0)
  /\ UNCHANGED <<pages, root_id, fix_count, unsaved>>
Refuse_AsksAgain ==
  /\ pc \in {"left", "right"} /\ ~CanDelete(pages[other])
  /\ Effect(pages, {}, {other}, {})
  /\ Goto("ask_left", child, 0)
  /\ UNCHANGED root_id
Refuse ==
  /\ pc \in {"left", "right"} /\ ~CanDelete(pages[other])
  /\ Effect(pages, {}, {other}, {})
  /\ Goto(IF pc = "left" THEN "ask_right" ELSE "merge", child, 0)
  /\ UNCHANGED root_id

(* One entry of the sibling moves to the child.  A leaf's key moves with   *)
(* its value and the separator follows, inner nodes turn the entry through *)
(* the parent.  Mutants of BorrowRight: the separator of leaves stays; the *)
(* key of an inner sibling skips the parent.                               *)
BorrowLeft ==
  LET p == pages[node]  c == pages[child]  s == pages[other]
      i == ChildIndex
      rest == IF s.inner THEN InnerDelete(s, Last(s.keys)) ELSE OuterDelete(s, Last(s.keys))
  IN  IF s.inner
      THEN Page(child, InsertFirst(c, p.keys[i - 1], Last(s.child_ids)))
             ++ Page(other, rest)
             ++ Page(node, WithKey(p, i - 1, Last(s.keys)))
      ELSE Page(child, OuterInsert(c, Last(s.keys), Last(s.values)))
             ++ Page(other, rest)
             ++ Page(node, WithKey(p, i - 1, Last(rest.keys)))

BorrowRight_SeparatorKept ==
  LET s == pages[other] IN
  Page(child, OuterInsert(pages[child], Head(s.keys), Head(s.values)))
    ++ Page(other, OuterDelete(s, Head(s.keys)))
BorrowRight_SkipsParent ==
  LET p == pages[node]  c == pages[child]  s == pages[other]
      i == ChildIndex
  IN  IF s.inner
      THEN Page(child, InnerInsert(c, Head(s.keys), Head(s.child_ids)))
             ++ Page(other, DeleteFirstPair(s))
      ELSE Page(node, WithKey(p, i, Head(s.keys)))
             ++ Page(child, OuterInsert(c, Head(s.keys), Head(s.values)))
             ++ Page(other, OuterDelete(s, Head(s.keys)))
BorrowRight ==
  LET p == pages[node]  c == pages[child]  s == pages[other]
      i == ChildIndex
  IN  Page(node, WithKey(p, i, Head(s.keys)))
        ++ IF s.inner
           THEN Page(child, InnerInsert(c, p.keys[i], Head(s.child_ids)))
                  ++ Page(other, DeleteFirstPair(s))
           ELSE Page(child, OuterInsert(c, Head(s.keys), Head(s.values)))
                  ++ Page(other, OuterDelete(s, Head(s.keys)))

Substitute ==
  /\ pc \in {"left", "right"} /\ CanDelete(pages[other])
  /\ Effect(With(IF pc = "left" THEN BorrowLeft ELSE BorrowRight),
            {}, {child, other}, {node, child, other})
  /\ Recur(node)
  /\ UNCHANGED root_id

(* merge takes the left sibling, for a first child the right one; that it  *)
(* cannot spare an entry either was just seen by substitute.               *)
AskMerge ==
  /\ pc = "merge"
  /\ LET i == IF ChildIndex > 1 THEN ChildIndex - 1 ELSE ChildIndex + 1 IN
     /\ Effect(pages, {Siblings[i]}, {}, {})
     /\ Goto(IF i < ChildIndex THEN "merge_left" ELSE "merge_right", child, Siblings[i])
  /\ UNCHANGED root_id

(* The entries of the right node go to the left one.  Mutant: the left     *)
(* leaf keeps its next_lef_id.                                             *)
Joined_NextKept(l, r, separator) ==
  IF l.inner
  THEN InnerNode(l.keys \o <<separator>> \o r.keys, l.child_ids \o r.child_ids)
  ELSE OuterNode(l.keys \o r.keys, l.values \o r.values, l.next_lef_id)
Joined(l, r, separator) ==
  IF l.inner
  THEN InnerNode(l.keys \o <<separator>> \o r.keys, l.child_ids \o r.child_ids)
  ELSE OuterNode(l.keys \o r.keys, l.values \o r.values, r.next_lef_id)

Merge ==
  /\ pc \in {"merge_left", "merge_right"} /\ ~CanDelete(pages[other])
  /\ LET l == IF pc = "merge_left" THEN other ELSE child
         r == IF pc = "merge_left" THEN child ELSE other
         p == pages[node]
         separator == p.keys[IF pc = "merge_left" THEN ChildIndex - 1 ELSE ChildIndex]
     IN  Effect(Without(r, Page(l, Joined(pages[l], pages[r], separator))
                             ++ Page(node, InnerDelete(p, separator))),
                {}, {l, r}, {node, l})
  /\ Recur(node)
  /\ UNCHANGED root_id

-----------------------------------------------------------------------------
Step ==
  \/ Descend \/ GetAtLeaf \/ UpdateAtLeaf \/ ScanAtLeaf \/ ScanOn
  \/ InsertAtLeaf \/ SplitRoot \/ InsertDescend \/ CreateSibling \/ SplitChild
  \/ DeleteAtLeaf \/ ShrinkRoot \/ DeleteDescend
  \/ FindBiggest \/ ExchangeKey
  \/ Rebalance \/ AskLeft \/ AskRight \/ Refuse \/ Substitute \/ AskMerge \/ Merge

Next == (\E o \in Ops : Allowed(o, StoredKeys) /\ Call(o)) \/ Step

(* A call runs until it returns; nobody has to make one. *)
Spec == Init /\ [][Next]_vars
FairSpec == Spec /\ WF_vars(Step)

-----------------------------------------------------------------------------
(* Two ways to look at the pages from the root: the pages of each level,   *)
(* and the keys in the leaves below a page.  Depth bounds both: there are  *)
(* no more levels than pages.                                              *)
Depth == Cardinality(DOMAIN pages)
Level ==
  LET at[d \in 0 .. Depth] ==
        IF d = 0 THEN {root_id}
        ELSE UNION {Range(pages[id].child_ids) : id \in {i \in at[d - 1] : pages[i].inner}}
  IN  at

Below ==
  LET keys[d \in 0 .. Depth] ==
        [id \in DOMAIN pages |->
           IF ~pages[id].inner THEN Range(pages[id].keys)
           ELSE IF d = 0 THEN {}
           ELSE UNION {keys[d - 1][c] : c \in Range(pages[id].child_ids)}]
  IN  keys[Depth]

(* Where get_value would look for a key. *)
LeafFor(key) ==
  LET at[d \in 0 .. Depth] ==
        IF d = 0 THEN root_id
        ELSE LET id == at[d - 1] IN IF pages[id].inner THEN NextPage(pages[id], key) ELSE id
  IN  at[Depth]

Idle == pc = "idle"
Inner == {id \in DOMAIN pages : pages[id].inner}
Outer == DOMAIN pages \ Inner

(* Nodes have no more entries than their arrays hold (the assertion of the *)
(* insert methods) and their keys ascend, as binary_search needs.          *)
NodeOK(n) ==
  /\ Len(n.keys) <= MaxSize(n)
  /\ \A i \in 1 .. Len(n.keys) - 1 : n.keys[i] < n.keys[i + 1]
  /\ IF n.inner
     THEN Len(n.child_ids) = Len(n.keys) + 1 /\ Range(n.child_ids) \subseteq PageIds
     ELSE /\ Len(n.values) = Len(n.keys) /\ Range(n.values) \subseteq Values
          /\ n.next_lef_id \in 0 .. MaxPages

TypeOK ==
  /\ DOMAIN pages \subseteq PageIds
  /\ \A id \in DOMAIN pages : Range(pages[id].keys) \subseteq Keys /\ NodeOK(pages[id])
  /\ root_id \in DOMAIN pages
  /\ op \in Ops \cup {NoOp}
  /\ {node, child, other} \subseteq 0 .. MaxPages
  /\ fix_count \in [PageIds -> Nat]
  /\ unsaved \subseteq DOMAIN pages

(* Between calls the pages form one tree: every page but the root has one  *)
(* parent and is reached from the root, and none is left behind by a merge.*)
PagesFormATree ==
  Idle =>
    /\ DOMAIN pages = UNION {Level[d] : d \in 0 .. Depth}
    /\ \A id \in DOMAIN pages :
         Cardinality({link \in Inner \X (1 .. N) :
                        LET siblings == pages[link[1]].child_ids IN
                        link[2] \in DOMAIN siblings /\ siblings[link[2]] = id})
           = Bit(id # root_id)

(* All leaves are on the same level (is_balanced), and no node but the     *)
(* root has fewer entries than is_too_empty allows.                        *)
BalancedAndFilled ==
  Idle =>
    /\ \A d \in 0 .. Depth : Level[d] \subseteq Outer \/ Level[d] \subseteq Inner
    /\ \A id \in DOMAIN pages \ {root_id} : ~IsTooEmpty(pages[id])
    /\ root_id \in Inner => pages[root_id].keys # << >>

(* A separator is the biggest key below the child to its left and smaller  *)
(* than all keys below the child to its right (is_ordered; find_biggest    *)
(* relies on the first half when it takes the last key but one).           *)
SeparatorsAreTight ==
  Idle => \A id \in Inner : \A i \in DOMAIN pages[id].keys :
    LET separator == pages[id].keys[i]
        left == Below[pages[id].child_ids[i]]
        right == Below[pages[id].child_ids[i + 1]]
    IN  /\ separator \in left /\ \A k \in left : k <= separator
        /\ \A k \in right : k > separator

(* Every stored key is found from the root, also while a call moves        *)
(* entries; but the key a call deletes may sit beside its new separator,   *)
(* and half of a root that is being split waits for the new root.          *)
StoredKeysAreFound ==
  \A id \in Outer : \A k \in Range(pages[id].keys) :
    LeafFor(k) = id \/ (op.kind = "delete" /\ k = op.key)

(* The chain of leaves that scan follows: the next leaf begins with the    *)
(* next key that is stored, and the last leaf has no next one.             *)
LeafChainIsOrdered ==
  \A id \in Outer :
    LET leaf == pages[id]
        above == {k \in StoredKeys : leaf.keys # << >> /\ k > Last(leaf.keys)}
    IN  IF above = {} THEN leaf.next_lef_id = 0
        ELSE /\ leaf.next_lef_id \in Outer
             /\ pages[leaf.next_lef_id].keys # << >>
             /\ Head(pages[leaf.next_lef_id].keys) \in above
             /\ \A k \in above : k >= Head(pages[leaf.next_lef_id].keys)

(* What the buffer manager relies on: a page is fixed once at a time and   *)
(* unfixed only if it is fixed, and no call leaves a page fixed.           *)
FixesAreBalanced ==
  /\ \A id \in PageIds : fix_count[id] \in {0, 1}
  /\ Idle => \A id \in PageIds : fix_count[id] = 0

(* A page that was written stays fixed until it is marked dirty: no write  *)
(* is lost by an eviction.                                                 *)
WritesAreSaved == \A id \in unsaved : fix_count[id] > 0

(* Three frames are enough for any call. *)
AtMostThreeFixed ==
  [][Cardinality({id \in PageIds : fix_count[id] > 0 \/ fix_count'[id] > 0}) <= 3]_vars

(* The tree is a map from keys to values, and every call returns what the  *)
(* map says.                                                               *)
Contents ==
  [k \in StoredKeys |->
     LET leaf == pages[CHOOSE id \in Outer : k \in Range(pages[id].keys)]
     IN  leaf.values[Position(leaf, k)]]
AsKVStore == INSTANCE KVStore WITH kv <- Contents
ImplementsKVStore == AsKVStore!Spec

(* Every call returns: rebalancing does not go round in circles. *)
CallsReturn == ~Idle ~> Idle
=============================================================================
