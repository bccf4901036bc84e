----------------------------- MODULE RadixTree -----------------------------
(***************************************************************************)
(* RadixTree (src/src/radix_tree/radix_tree.h): an adaptive radix tree of  *)
(* references to leaves of the B+ tree.  Its methods are operators on a    *)
(* record of the object's fields; RadixTreeSpec and DataManager have the   *)
(* actions that use them.                                                  *)
(*                                                                         *)
(* Keys are the transformed, unsigned ones.  The ring of 256 keys with its *)
(* indices read and write is the queue recent of the keys between them;    *)
(* one slot of the ring is never used.  What an operator does to a subtree *)
(* is a pair: the node that takes its place and the bytes it grows by.     *)
(* Memory and fix counts are RadixHeap's.                                  *)
(***************************************************************************)
EXTENDS RNodes, Integers

CONSTANTS radix_tree_size,      \* the limit, in bytes
          RingLength            \* 256

NoNode == [type |-> 0]
EmptyCache == [root |-> NoNode, current_size |-> 0, recent |-> << >>]

-----------------------------------------------------------------------------
(* A new node takes the place of n, with n and a new leaf below it. *)
Branch(n, key, page) ==
  LET depth == CommonDigits(n.key, key) + 1 IN
  RNode(1, FALSE, depth, key,
        Digit(n.key, depth) :> n @@ Digit(key, depth) :> NewLeaf(key, page))
BranchSize == NodeSize[1] + NewLeafSize
Diverges(n, key) == CommonDigits(n.key, key) + 1 < n.depth

(* A full child grows, even if nothing is inserted into it then.           *)
GrownSize(n) == IF CanInsert(n) THEN 0 ELSE NodeSize[n.type + 1] - NodeSize[n.type]
Grown(n) == IF CanInsert(n) THEN n ELSE Increased(n)

(* insert_recursive, once the key is known to have the prefix of the node. *)
RECURSIVE InsertBelow(_, _, _)
InsertBelow(n, key, page) ==
  LET digit == Digit(key, n.depth) IN
  IF n.leaf
  THEN [node |-> NodeInsert(n, digit, RFrame(page)),
        bytes |-> IF digit \in DOMAIN n.children THEN 0 ELSE FrameSize]
  ELSE IF digit \notin DOMAIN n.children
  THEN [node |-> NodeInsert(n, digit, NewLeaf(key, page)), bytes |-> NewLeafSize]
  ELSE LET child == Grown(n.children[digit])
           below == IF Diverges(child, key)
                    THEN [node |-> Branch(child, key, page), bytes |-> BranchSize]
                    ELSE InsertBelow(child, key, page)
       IN  [node |-> NodeInsert(n, digit, below.node),
            bytes |-> GrownSize(n.children[digit]) + below.bytes]

(* The same with the edge cases of the root; a full root is not among them *)
(* here.                                                                   *)
InsertAtRoot(root, key, page) ==
  IF root = NoNode
  THEN [node |-> NewLeaf(key, page), bytes |-> NewLeafSize]
  ELSE IF root.depth # 1 /\ Diverges(root, key)
  THEN [node |-> Branch(root, key, page), bytes |-> BranchSize]
  ELSE InsertBelow(root, key, page)

-----------------------------------------------------------------------------
(* A leaf below n, or below the root, lost a frame: it goes if it is empty *)
(* and n with it if one child is left; nodes with few children shrink.     *)
Shrunk(n) == IF CanDelete(n) THEN n ELSE Decreased(n)
ShrunkSize(n) == IF CanDelete(n) THEN 0 ELSE NodeSize[n.type] - NodeSize[n.type - 1]

WithoutLeaf(n, digit) ==
  LET rest == NodeDelete(n, digit)
      leaf_size == NodeSize[n.children[digit].type]
  IN  IF Count(rest) = 1
      THEN [node |-> SingleChild(rest), freed |-> leaf_size + NodeSize[n.type]]
      ELSE [node |-> Shrunk(rest), freed |-> leaf_size + ShrunkSize(rest)]

(* delete_reference_recursive.  Prefixes are not compared: what goes is    *)
(* the frame of a key with the same digits at the nodes on the way.        *)
RECURSIVE DeleteBelow(_, _)
DeleteBelow(n, key) ==
  LET digit == Digit(key, n.depth)
      child == n.children[digit]
      last == Digit(key, Digits)
      rest == NodeDelete(child, last)
      frame == IF last \in DOMAIN child.children THEN FrameSize ELSE 0
      up == WithoutLeaf(NodeInsert(n, digit, rest), digit)
      below == DeleteBelow(child, key)
  IN  IF digit \notin DOMAIN n.children THEN [node |-> n, freed |-> 0]
      ELSE IF ~child.leaf
      THEN [node |-> NodeInsert(n, digit, below.node), freed |-> below.freed]
      ELSE IF Count(rest) = 0
      THEN [node |-> up.node, freed |-> frame + up.freed]
      ELSE [node |-> NodeInsert(n, digit, Shrunk(rest)), freed |-> frame + ShrunkSize(rest)]

(* The frame of a leaf that is the root. *)
DeleteFromLeaf(root, key) ==
  LET digit == Digit(key, root.depth)
      rest == NodeDelete(root, digit)
      frame == IF digit \in DOMAIN root.children THEN FrameSize ELSE 0
  IN  IF Count(rest) = 0
      THEN [node |-> NoNode, freed |-> frame + NodeSize[root.type]]
      ELSE [node |-> Shrunk(rest), freed |-> frame + ShrunkSize(rest)]

DeleteReference(cache, key) ==
  LET root == cache.root
      up == IF root.leaf THEN DeleteFromLeaf(root, key) ELSE DeleteBelow(root, key)
  IN  IF root = NoNode THEN cache
      ELSE [cache EXCEPT !.root = up.node, !.current_size = @ - up.freed]

-----------------------------------------------------------------------------
(* The ring forgets its oldest key when it is full. *)
Remembered(recent, key) ==
  LET all == Append(recent, key) IN
  IF Len(all) = RingLength THEN Tail(all) ELSE all

(* A full cache takes nothing in; the oldest key of the ring goes. *)
MakeRoom(cache) ==
  IF cache.recent = << >> THEN cache
  ELSE [DeleteReference(cache, Head(cache.recent)) EXCEPT !.recent = Tail(@)]

(* insert.  If the root is full it grows and insert is called again: the   *)
(* key enters the ring twice, and the limit is looked at once more.        *)
RECURSIVE Insert(_, _, _)
Insert(cache, key, page) ==
  LET root == cache.root
      recent == Remembered(cache.recent, key)
      up == InsertAtRoot(root, key, page)
  IN  IF cache.current_size >= radix_tree_size THEN MakeRoom(cache)
      ELSE IF root # NoNode /\ ~CanInsert(root)
      THEN Insert([root |-> Increased(root), recent |-> recent,
                   current_size |-> cache.current_size + GrownSize(root)], key, page)
      ELSE [root |-> up.node, recent |-> recent,
            current_size |-> cache.current_size + up.bytes]

-----------------------------------------------------------------------------
(* get_page_recursive up to the comparison with the header: the page of    *)
(* the reference that is found, 0 if there is none.  Prefixes are not      *)
(* compared here either.                                                   *)
RECURSIVE FindBelow(_, _)
FindBelow(n, key) ==
  LET digit == Digit(key, n.depth) IN
  IF digit \notin DOMAIN n.children THEN 0
  ELSE IF n.leaf THEN n.children[digit].page_id
  ELSE FindBelow(n.children[digit], key)

Find(cache, key) == IF cache.root = NoNode THEN 0 ELSE FindBelow(cache.root, key)

(* update_range: the references of the keys from .. to get another page.   *)
InRange(n, digit, from, to) ==
  /\ IntermediateKey(n.key, digit, n.depth) >= Prefix(from, n.depth)
  /\ IntermediateKey(n.key, digit, n.depth) <= Prefix(to, n.depth)

RECURSIVE UpdateRangeBelow(_, _, _, _)
UpdateRangeBelow(n, from, to, page) ==
  [n EXCEPT !.children =
     [d \in DOMAIN @ |->
        IF ~InRange(n, d, from, to) THEN @[d]
        ELSE IF n.leaf THEN RFrame(page)
        ELSE UpdateRangeBelow(@[d], from, to, page)]]

UpdateRange(cache, from, to, page) ==
  IF cache.root = NoNode THEN cache
  ELSE [cache EXCEPT !.root = UpdateRangeBelow(@, from, to, page)]

-----------------------------------------------------------------------------
(* The references a tree contains. *)
RECURSIVE RefsBelow(_)
RefsBelow(n) ==
  IF n.leaf
  THEN {<<IntermediateKey(n.key, d, Digits), n.children[d].page_id>> : d \in DOMAIN n.children}
  ELSE UNION {RefsBelow(n.children[d]) : d \in DOMAIN n.children}

References(cache) == IF cache.root = NoNode THEN {} ELSE RefsBelow(cache.root)
=============================================================================
