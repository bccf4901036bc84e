----------------------------- MODULE TreeChecks -----------------------------
(***************************************************************************)
(* What the program itself checks about its tree: validate of BPlusTree    *)
(* (src/src/bplus_tree/bplus_tree.h), which the workloads call when they   *)
(* are done, and are_all_child_ids_unique and contains_key of the debugger *)
(* (src/src/debug/debugger.cc).  All walk over the pages from the root and *)
(* return what they found; each page is fixed for as long as its entries   *)
(* are copied, so no count of fixes changes.                               *)
(*                                                                         *)
(* The checks are operators of the pages p they look at: the properties    *)
(* ask them about the tree, and about the tree with an error put into it.  *)
(***************************************************************************)
EXTENDS BPlusTree, Integers

-----------------------------------------------------------------------------
(* recursive_is_balanced: the height of the tree below a page, -1 if it is *)
(* not balanced.  Children that are all unbalanced have the same height.   *)
Height(p) ==
  LET height[id \in DOMAIN p] ==
        IF ~p[id].inner \/ p[id].keys = << >> THEN 1
        ELSE LET first == height[Head(p[id].child_ids)] IN
             IF \A c \in Range(p[id].child_ids) : height[c] = first THEN first + 1 ELSE -1
  IN  height

IsBalanced(p) == Height(p)[root_id] # -1

(* smaller_or_equal and bigger look at the page and go on to its first     *)
(* child only: the loop over the children asks for child_ids[0] each time. *)
(* bigger lets a key pass that is equal.  Mutant: smaller_or_equal does not.*)
SmallerOrEqual_Strict(p, key) ==
  LET smaller[id \in DOMAIN p] ==
        /\ \A k \in Range(p[id].keys) : k < key
        /\ p[id].inner => smaller[Head(p[id].child_ids)]
  IN  smaller
SmallerOrEqual(p, key) ==
  LET smaller[id \in DOMAIN p] ==
        /\ \A k \in Range(p[id].keys) : k <= key
        /\ p[id].inner => smaller[Head(p[id].child_ids)]
  IN  smaller

Bigger(p, key) ==
  LET bigger[id \in DOMAIN p] ==
        /\ \A k \in Range(p[id].keys) : k >= key
        /\ p[id].inner => bigger[Head(p[id].child_ids)]
  IN  bigger

(* recursive_is_ordered.  Mutant: the left children are not compared. *)
IsOrdered_RightOnly(p) ==
  LET ordered[id \in DOMAIN p] ==
        p[id].inner =>
          /\ \A i \in DOMAIN p[id].keys :
               Bigger(p, p[id].keys[i])[p[id].child_ids[i + 1]]
          /\ \A c \in Range(p[id].child_ids) : ordered[c]
  IN  ordered[root_id]
IsOrdered(p) ==
  LET ordered[id \in DOMAIN p] ==
        p[id].inner =>
          /\ \A i \in DOMAIN p[id].keys :
               /\ SmallerOrEqual(p, p[id].keys[i])[p[id].child_ids[i]]
               /\ Bigger(p, p[id].keys[i])[p[id].child_ids[i + 1]]
          /\ \A c \in Range(p[id].child_ids) : ordered[c]
  IN  ordered[root_id]

(* find_leftmost, and the leaves that follow. *)
Leftmost(p) ==
  LET leftmost[id \in DOMAIN p] ==
        IF p[id].inner THEN leftmost[Head(p[id].child_ids)] ELSE id
  IN  leftmost[root_id]

LeavesOf(p) == {id \in DOMAIN p : ~p[id].inner}

(* is_concatenated: the order of the keys is looked at within each leaf,   *)
(* and all keys are counted.                                               *)
Sorted(p) ==
  LET sorted[id \in LeavesOf(p) \cup {0}] ==
        id # 0 =>
          /\ \A i \in 1 .. Len(p[id].keys) - 1 : p[id].keys[i] <= p[id].keys[i + 1]
          /\ sorted[p[id].next_lef_id]
  IN  sorted[Leftmost(p)]
Count(p) ==
  LET count[id \in LeavesOf(p) \cup {0}] ==
        IF id = 0 THEN 0 ELSE Len(p[id].keys) + count[p[id].next_lef_id]
  IN  count[Leftmost(p)]
IsConcatenated(p, num_elements) == Sorted(p) /\ Count(p) = num_elements

Validate(p, num_elements) ==
  IsBalanced(p) /\ IsOrdered(p) /\ IsConcatenated(p, num_elements)

-----------------------------------------------------------------------------
(* The debugger visits the pages breadth first. *)
Visited == UNION {Level[d] : d \in 0 .. Depth}

(* No child is met twice; the root's children would be if it were one.     *)
AreAllChildIdsUnique ==
  LET children == {c \in Visited \X (1 .. N) :
                     pages[c[1]].inner /\ c[2] \in DOMAIN pages[c[1]].child_ids}
      Child(c) == pages[c[1]].child_ids[c[2]]
  IN  \A c \in children : Child(c) # root_id /\ \A d \in children \ {c} : Child(c) # Child(d)

(* Inner nodes count: a separator is taken for a stored key.          *)
ContainsKey(key) == \E id \in Visited : HasKey(pages[id], key)

-----------------------------------------------------------------------------
(* Between calls validate finds the tree in order and counts the entries   *)
(* that are stored, and no page is the child of two others.                *)
ValidateAccepts ==
  Idle => Validate(pages, Cardinality(StoredKeys)) /\ AreAllChildIdsUnique

(* What contains_key says is what get_value would: there is no separator   *)
(* of a key that was deleted.                                              *)
ContainsKeyIsExact == Idle => \A k \in Keys : ContainsKey(k) <=> k \in StoredKeys

(* validate finds two keys that changed places between leaves.  One pair   *)
(* escapes it: the separator of a node whose children are inner nodes, and *)
(* a key right of it.  The first sits in the last leaf below the child on  *)
(* its left, where smaller_or_equal does not look.                         *)
Exchanged(a, b) ==
  LET swap(k) == CASE k = a -> b [] k = b -> a [] OTHER -> k
  IN  [id \in DOMAIN pages |->
         LET n == pages[id] IN
         IF n.inner THEN n
         ELSE OuterNode([i \in DOMAIN n.keys |-> swap(n.keys[i])], n.values, n.next_lef_id)]

UpperSeparators ==
  UNION {Range(pages[id].keys) : id \in {i \in Inner : pages[i].child_ids[1] \in Inner}}

ExchangesAreFound ==
  Idle => \A a, b \in StoredKeys :
    a < b /\ a \notin UpperSeparators =>
      ~Validate(Exchanged(a, b), Cardinality(StoredKeys))
=============================================================================
