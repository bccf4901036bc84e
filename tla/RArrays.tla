------------------------------ MODULE RArrays ------------------------------
(***************************************************************************)
(* The four structures of radix tree nodes with their arrays               *)
(* (src/src/radix_tree/r_nodes.h).  Types 1 and 2 (RNode4, RNode16) keep   *)
(* digits and pointers side by side in the order they came; type 3         *)
(* (RNode48) has a slot number per digit, 0 in place of 255 for none; type *)
(* 4 (RNode256) has a pointer per digit.  Slots are counted from 1.  Of    *)
(* the unsorted arrays only the part below current_size is kept: get_index *)
(* masks the rest.                                                         *)
(***************************************************************************)
EXTENDS RKeys, SequencesExt

Null == 0       \* nullptr; addresses are positive

(* A node that is made for two children has room for them. *)
ASSUME RArraysAssumption == Len(Capacity) = 4 /\ Capacity[1] >= 2 /\ Capacity[4] = Base

AllDigits == 0 .. Base - 1

(* A node as its constructor leaves it. *)
EmptyArrays(type) ==
  CASE type \in {1, 2} -> [keys |-> << >>, children |-> << >>]
    [] type = 3 -> [keys |-> [d \in AllDigits |-> 0],
                    children |-> [s \in 1 .. Capacity[3] |-> Null]]
    [] type = 4 -> [keys |-> << >>, children |-> [s \in 1 .. Capacity[4] |-> Null]]

NewNode(type, leaf, depth, key) ==
  [type |-> type, leaf |-> leaf, depth |-> depth, key |-> key, current_size |-> 0,
   fix_count |-> 0, keys |-> EmptyArrays(type).keys, children |-> EmptyArrays(type).children]

CanInsert(n) == n.type = 4 \/ n.current_size < Capacity[n.type]
CanDelete(n) == n.current_size > (IF n.type = 1 THEN 0 ELSE Capacity[n.type - 1])

-----------------------------------------------------------------------------
(* The slot of a digit, 0 if it has none: get_index, keys[key], children[key]. *)
UnsortedSlot(n, digit) == SelectInSeq(n.keys, LAMBDA d : d = digit)
IndexedSlot(n, digit) == n.keys[digit]
DirectSlot(n, digit) == IF n.children[digit + 1] = Null THEN 0 ELSE digit + 1

Slot(n, digit) ==
  CASE n.type \in {1, 2} -> UnsortedSlot(n, digit)
    [] n.type = 3 -> IndexedSlot(n, digit)
    [] n.type = 4 -> DirectSlot(n, digit)

(* get_next_page. *)
Child(n, digit) == IF Slot(n, digit) = 0 THEN Null ELSE n.children[Slot(n, digit)]

(* A digit that has no slot gets one.  Mutant: RNode48 takes the slot that *)
(* follows the last one in use.                                            *)
UnsortedInsert(n, digit, p) ==
  [n EXCEPT !.keys = Append(@, digit), !.children = Append(@, p), !.current_size = @ + 1]

IndexedInsert_AtEnd(n, digit, p) ==
  LET s == n.current_size + 1 IN
  [n EXCEPT !.keys[digit] = s, !.children[s] = p, !.current_size = @ + 1]
IndexedInsert(n, digit, p) ==
  LET s == SelectInSeq(n.children, LAMBDA c : c = Null) IN
  [n EXCEPT !.keys[digit] = s, !.children[s] = p, !.current_size = @ + 1]

DirectInsert(n, digit, p) ==
  [n EXCEPT !.children[digit + 1] = p, !.current_size = @ + 1]

(* insert of a pointer: it replaces the one the digit has. *)
NodeInsert(n, digit, p) ==
  CASE Slot(n, digit) # 0 -> [n EXCEPT !.children[Slot(n, digit)] = p]
    [] Slot(n, digit) = 0 /\ n.type \in {1, 2} -> UnsortedInsert(n, digit, p)
    [] Slot(n, digit) = 0 /\ n.type = 3 -> IndexedInsert(n, digit, p)
    [] Slot(n, digit) = 0 /\ n.type = 4 -> DirectInsert(n, digit, p)

(* delete_reference: the last entry moves to the hole, or the slot is      *)
(* free.  Mutant: the last pointer moves and its digit does not.           *)
HoleFilled(seq, s) == Front([seq EXCEPT ![s] = Last(seq)])
UnsortedDelete_KeyStays(n, digit) ==
  [n EXCEPT !.keys = Front(@), !.children = HoleFilled(@, Slot(n, digit)), !.current_size = @ - 1]
UnsortedDelete(n, digit) ==
  [n EXCEPT !.keys = HoleFilled(@, Slot(n, digit)),
            !.children = HoleFilled(@, Slot(n, digit)),
            !.current_size = @ - 1]

IndexedDelete(n, digit) ==
  [n EXCEPT !.keys[digit] = 0, !.children[Slot(n, digit)] = Null, !.current_size = @ - 1]

DirectDelete(n, digit) ==
  [n EXCEPT !.children[digit + 1] = Null, !.current_size = @ - 1]

NodeDelete(n, digit) ==
  CASE n.type \in {1, 2} -> UnsortedDelete(n, digit)
    [] n.type = 3 -> IndexedDelete(n, digit)
    [] n.type = 4 -> DirectDelete(n, digit)

-----------------------------------------------------------------------------
(* The digits of a node in the order its loops visit them. *)
Order(n) ==
  LET indexed[d \in 0 .. Base] ==
        IF d = 0 THEN << >>
        ELSE IF Slot(n, d - 1) = 0 THEN indexed[d - 1]
        ELSE Append(indexed[d - 1], d - 1)
  IN  IF n.type \in {1, 2} THEN n.keys ELSE indexed[Base]

Children(n) == {Child(n, d) : d \in AllDigits} \ {Null}

(* get_single_child. *)
SingleChild(n) == Child(n, Head(Order(n)))

(* The loops of increase_node_size and decrease_node_size: the entries of  *)
(* a node are inserted into a new one of another type.                     *)
Copied(n, type) ==
  LET new[i \in 0 .. Len(Order(n))] ==
        IF i = 0 THEN NewNode(type, n.leaf, n.depth, n.key)
        ELSE NodeInsert(new[i - 1], Order(n)[i], Child(n, Order(n)[i]))
  IN  new[Len(Order(n))]

(* The arrays of a node agree with one another and with current_size. *)
ArraysAgree(n) ==
  /\ n.current_size <= Capacity[n.type]
  /\ n.current_size = Len(Order(n))
  /\ n.type \in {1, 2} => IsInjective(n.keys) /\ Len(n.children) = Len(n.keys)
  /\ n.type = 3 =>
       /\ \A d, e \in AllDigits : n.keys[d] = n.keys[e] /\ n.keys[d] # 0 => d = e
       /\ {s \in 1 .. Capacity[3] : n.children[s] # Null} = {n.keys[d] : d \in AllDigits} \ {0}
=============================================================================
