------------------------------- MODULE RNodes -------------------------------
(***************************************************************************)
(* The nodes of the radix tree (src/src/radix_tree/r_nodes.h, with the     *)
(* helpers of radix_tree.h that dispatch on the type of a node) as values: *)
(* a node is its header, and children as a function from digits to nodes   *)
(* or, in a leaf, to RFrames; current_size is the number of children.      *)
(***************************************************************************)
EXTENDS RKeys, FiniteSets, TLC

RNode(type, leaf, depth, key, children) ==
  [type |-> type, leaf |-> leaf, depth |-> depth, key |-> key, children |-> children]

(* A reference: the page's id, and with it the buffer frame it was in.     *)
RFrame(page) == [page_id |-> page]

NewLeaf(key, page) == RNode(1, TRUE, Digits, key, Digit(key, Digits) :> RFrame(page))
NewLeafSize == NodeSize[1] + FrameSize

Count(n) == Cardinality(DOMAIN n.children)

(* can_insert and can_delete. *)
CanInsert(n) == n.type = Len(Capacity) \/ Count(n) < Capacity[n.type]
CanDelete(n) == Count(n) > (IF n.type = 1 THEN 0 ELSE Capacity[n.type - 1])

(* insert: a child or a frame is added or replaced. *)
NodeInsert(n, digit, child) == [n EXCEPT !.children = digit :> child @@ @]

(* delete_reference, without the accounting. *)
NodeDelete(n, digit) ==
  [n EXCEPT !.children = [d \in DOMAIN @ \ {digit} |-> @[d]]]

SingleChild(n) == n.children[CHOOSE d \in DOMAIN n.children : TRUE]

(* increase_node_size and decrease_node_size: a node of the next type with *)
(* the same children.                                                      *)
Increased(n) == [n EXCEPT !.type = @ + 1]
Decreased(n) == [n EXCEPT !.type = @ - 1]
=============================================================================
