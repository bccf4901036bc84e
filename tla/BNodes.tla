------------------------------- MODULE BNodes -------------------------------
(***************************************************************************)
(* The nodes of the B+ tree (src/src/bplus_tree/b_nodes.h): what their     *)
(* methods compute.  A node is the part of its arrays below current_index: *)
(* current_index is Len(keys).  The code counts from 0, sequences from 1.  *)
(* The slots behind current_index are not modelled.                        *)
(***************************************************************************)
EXTENDS Naturals, Sequences, FiniteSets, SequencesExt

CONSTANT N      \* the array length ((PAGE_SIZE - 32) / 2) / 8

(* The assertion of both constructors, max_size > 2, for the inner node. *)
ASSUME NodeSizeAssumption == N \in Nat /\ N > 3

InnerNode(keys, child_ids) == [inner |-> TRUE, keys |-> keys, child_ids |-> child_ids]
OuterNode(keys, values, next) ==
  [inner |-> FALSE, keys |-> keys, values |-> values, next_lef_id |-> next]

MaxSize(node) == IF node.inner THEN N - 1 ELSE N

(* binary_search: the first index (from 0) whose key is not below key. *)
BinarySearch(node, key) == Cardinality({i \in DOMAIN node.keys : node.keys[i] < key})

(* The same index as a position in keys, and whether key is there. *)
Position(node, key) == BinarySearch(node, key) + 1
HasKey(node, key) ==
  Position(node, key) <= Len(node.keys) /\ node.keys[Position(node, key)] = key

NextPage(node, key) == node.child_ids[Position(node, key)]

(* Mutant of IsFull: one entry too many. *)
IsFull_OneMore(node) == Len(node.keys) > MaxSize(node)
IsFull(node) == Len(node.keys) >= MaxSize(node)

(* Mutant of CanDelete: one entry too few is enough.  *)
CanDelete_OneLess(node) == Len(node.keys) >= MaxSize(node) \div 2
CanDelete(node) ==
  IF node.inner THEN Len(node.keys) >= (MaxSize(node) + 1) \div 2
                ELSE Len(node.keys) > MaxSize(node) \div 2

IsTooEmpty(node) ==
  IF node.inner THEN Len(node.keys) < (MaxSize(node) + 1) \div 2 - 1
                ELSE Len(node.keys) < MaxSize(node) \div 2

-----------------------------------------------------------------------------
(* Inner node: the new child goes to the right of its key. *)
InnerInsert(node, key, child) ==
  LET p == Position(node, key) IN
  InnerNode(InsertAt(node.keys, p, key), InsertAt(node.child_ids, p + 1, child))

InsertFirst(node, key, child) ==
  InnerNode(<<key>> \o node.keys, <<child>> \o node.child_ids)

(* The key and the child to its right. *)
InnerDelete(node, key) ==
  LET p == Position(node, key) IN
  IF HasKey(node, key)
  THEN InnerNode(RemoveAt(node.keys, p), RemoveAt(node.child_ids, p + 1))
  ELSE node

DeleteFirstPair(node) == InnerNode(Tail(node.keys), Tail(node.child_ids))

WithKey(node, p, key) == InnerNode([node.keys EXCEPT ![p] = key], node.child_ids)
Exchange(node, key, new_key) == WithKey(node, Position(node, key), new_key)

-----------------------------------------------------------------------------
(* Outer node. A second entry of the same key goes before the first. *)
OuterInsert(node, key, value) ==
  LET p == Position(node, key) IN
  OuterNode(InsertAt(node.keys, p, key), InsertAt(node.values, p, value), node.next_lef_id)

OuterUpdate(node, key, value) ==
  LET p == Position(node, key) IN
  IF HasKey(node, key)
  THEN OuterNode(node.keys, [node.values EXCEPT ![p] = value], node.next_lef_id)
  ELSE node

OuterDelete(node, key) ==
  LET p == Position(node, key) IN
  IF HasKey(node, key)
  THEN OuterNode(RemoveAt(node.keys, p), RemoveAt(node.values, p), node.next_lef_id)
  ELSE node
=============================================================================
