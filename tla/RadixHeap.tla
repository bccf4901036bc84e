----------------------------- MODULE RadixHeap -----------------------------
(***************************************************************************)
(* RadixTree (src/src/radix_tree/radix_tree.h) in memory: nodes and        *)
(* RFrames are cells of a heap, linked by addresses.  Each invocation of a *)
(* recursive method is an action, each round of the loops of update_range  *)
(* and destroy too, so that the nodes fixed in between are seen.  malloc   *)
(* hands out the least free address: freed cells are reused at once.       *)
(***************************************************************************)
EXTENDS RArrays

CONSTANTS radix_tree_size,      \* the limit, in bytes
          RingLength,           \* 256
          CachedKeys, CachedPages

ASSUME RadixHeapAssumption ==
  /\ CachedKeys \subseteq -(KeySpace \div 2) .. (KeySpace \div 2) - 1
  /\ CachedPages \subseteq Nat \ {0} /\ RingLength \in Nat \ {0}

VARIABLES mem,          \* the cells in use, and current_size, their account
          root,         \* the address of the root
          recent,       \* the keys of the ring, from read to write
          call, answer, \* the call in progress, the page get_page returned
          step          \* what is to be done next in it, with which arguments

vars == <<mem, root, recent, call, answer, step>>

NoCall == [kind |-> "none"]
CacheCalls ==
  [kind : {"insert"}, key : CachedKeys, page : CachedPages]
    \cup [kind : {"delete_reference", "get_page"}, key : CachedKeys]
    \cup {r \in [kind : {"update_range"}, from : CachedKeys, to : CachedKeys,
                 page : CachedPages] : r.from <= r.to}
    \cup [kind : {"destroy"}]

-----------------------------------------------------------------------------
(* Memory: operators from one state of it to the next. *)
Fresh(m) == CHOOSE a \in 1 .. Cardinality(DOMAIN m.heap) + 1 :
              a \notin DOMAIN m.heap /\ \A b \in 1 .. a - 1 : b \in DOMAIN m.heap
Malloc(m, cell) ==
  LET f == Fresh(m) IN
  [m EXCEPT !.heap = [a \in DOMAIN @ \cup {f} |-> IF a = f THEN cell ELSE @[a]]]
Free(m, a) == [m EXCEPT !.heap = [b \in DOMAIN @ \ {a} |-> @[b]]]
Account(m, bytes) == [m EXCEPT !.current_size = @ + bytes]
Store(m, a, node) == [m EXCEPT !.heap[a] = node]

Fix(m, a) == [m EXCEPT !.heap[a].fix_count = @ + 1]
Unfix(m, a) == [m EXCEPT !.heap[a].fix_count = @ - 1]

ChildOf(m, a, digit) == Child(m.heap[a], digit)

(* node_insert of a pointer. *)
PutChild(m, a, digit, p) == Store(m, a, NodeInsert(m.heap[a], digit, p))

(* insert(key, page_id, bheader) of a leaf: a frame is allocated only if   *)
(* the digit has none.                                                     *)
PutFrame(m, a, digit, page) ==
  LET frame == ChildOf(m, a, digit) IN
  IF frame # Null THEN Store(m, frame, [page_id |-> page])
  ELSE Account(PutChild(Malloc(m, [page_id |-> page]), a, digit, Fresh(m)), FrameSize)

(* A leaf of one key, at the address Fresh(m). *)
NewLeaf(m, key, page) ==
  PutFrame(Account(Malloc(m, NewNode(1, TRUE, Digits, key)), NodeSize[1]),
           Fresh(m), Digit(key, Digits), page)

(* node_insert of a reference: below an inner node it gets a leaf. *)
PutReference(m, a, digit, key, page) ==
  IF m.heap[a].leaf THEN PutFrame(m, a, digit, page)
  ELSE PutChild(NewLeaf(m, key, page), a, digit, Fresh(m))

(* increase_node_size and decrease_node_size: the new node is at Fresh(m). *)
(* Mutant: the old node stays.                                             *)
Resized_Leaks(m, a, type) ==
  Account(Malloc(m, Copied(m.heap[a], type)), NodeSize[type] - NodeSize[m.heap[a].type])
Resized(m, a, type) ==
  Account(Free(Malloc(m, Copied(m.heap[a], type)), a),
          NodeSize[type] - NodeSize[m.heap[a].type])
Increased(m, a) == Resized(m, a, m.heap[a].type + 1)
Decreased(m, a) == Resized(m, a, m.heap[a].type - 1)

(* node_delete: what the digit leads to is freed. *)
Removed(m, a, digit) ==
  LET child == ChildOf(m, a, digit) IN
  IF child = Null THEN m
  ELSE Account(Store(Free(m, child), a, NodeDelete(m.heap[a], digit)),
               -(IF m.heap[a].leaf THEN FrameSize ELSE NodeSize[m.heap[child].type]))

FreeNode(m, a) == Account(Free(m, a), -NodeSize[m.heap[a].type])

-----------------------------------------------------------------------------
Idle == [do |-> "nothing"]

Init ==
  /\ mem = [heap |-> << >>, current_size |-> 0] /\ root = Null /\ recent = << >>
  /\ call = NoCall /\ answer = 0 /\ step = Idle

Return == step' = Idle /\ call' = NoCall
Node == mem.heap[step.node]

Begin(c) ==
  /\ step = Idle
  /\ call' = c /\ answer' = 0
  /\ step' = IF c.kind \in {"update_range", "destroy"} THEN [do |-> c.kind]
             ELSE [do |-> c.kind, key |-> c.key]
  /\ UNCHANGED <<mem, root, recent>>

-----------------------------------------------------------------------------
(* insert.  The key enters the ring, which forgets its oldest key when it  *)
(* is full.                                                                *)
Remembered(key) ==
  LET all == Append(recent, key) IN IF Len(all) = RingLength THEN Tail(all) ELSE all

InsertFirst ==
  /\ step.do = "insert" /\ mem.current_size < radix_tree_size /\ root = Null
  /\ mem' = NewLeaf(mem, Transform(step.key), call.page)
  /\ root' = Fresh(mem)
  /\ recent' = Remembered(step.key)
  /\ Return /\ UNCHANGED answer

InsertFromRoot ==
  /\ step.do = "insert" /\ mem.current_size < radix_tree_size /\ root # Null
  /\ mem' = Fix(mem, root)
  /\ recent' = Remembered(step.key)
  /\ step' = [do |-> "insert_recursive", key |-> Transform(step.key), node |-> root]
  /\ UNCHANGED <<root, call, answer>>

(* A full cache takes nothing in; the oldest key of the ring goes. *)
MakeRoom ==
  /\ step.do = "insert" /\ mem.current_size >= radix_tree_size
  /\ IF recent = << >> THEN Return /\ UNCHANGED recent
     ELSE /\ step' = [do |-> "delete_reference", key |-> Head(recent)]
          /\ recent' = Tail(recent) /\ UNCHANGED call
  /\ UNCHANGED <<mem, root, answer>>

(* A full root grows, and insert is called again; the new root is not      *)
(* fixed.                                                                  *)
GrowRoot ==
  /\ step.do = "insert_recursive" /\ step.node = root /\ ~CanInsert(Node)
  /\ mem' = Increased(mem, root)
  /\ root' = Fresh(mem)
  /\ step' = [do |-> "insert", key |-> InverseTransform(step.key)]
  /\ UNCHANGED <<recent, call, answer>>

Depth(a, b) == CommonDigits(a, b) + 1
RootDiverges ==
  step.node = root /\ Node.depth # 1 /\ Depth(Node.key, step.key) < Node.depth

(* A new root with the old one and a new leaf below it.  Mutant: the old   *)
(* one stays fixed.                                                        *)
NewRoot(m) ==
  LET depth == Depth(m.heap[root].key, step.key)
      above == Malloc(m, NewNode(1, FALSE, depth, step.key))
      linked == PutChild(above, Fresh(m), Digit(m.heap[root].key, depth), root)
  IN  PutReference(Account(linked, NodeSize[1]), Fresh(m), Digit(step.key, depth),
                   step.key, call.page)

BranchAtRoot_StaysFixed ==
  /\ step.do = "insert_recursive" /\ CanInsert(Node) /\ RootDiverges
  /\ mem' = NewRoot(mem)
  /\ root' = Fresh(mem)
  /\ Return /\ UNCHANGED <<recent, answer>>
BranchAtRoot ==
  /\ step.do = "insert_recursive" /\ CanInsert(Node) /\ RootDiverges
  /\ mem' = Unfix(NewRoot(mem), root)
  /\ root' = Fresh(mem)
  /\ Return /\ UNCHANGED <<recent, answer>>

(* The key has the prefix of the node. *)
InsertHere ==
  step.do = "insert_recursive" /\ (step.node = root => CanInsert(Node)) /\ ~RootDiverges
NextDigit == Digit(step.key, Node.depth)

(* A leaf takes the reference, an inner node without child a new leaf. *)
InsertReference ==
  /\ InsertHere /\ (Node.leaf \/ Child(Node, NextDigit) = Null)
  /\ mem' = Unfix(PutReference(mem, step.node, NextDigit, step.key, call.page), step.node)
  /\ Return /\ UNCHANGED <<root, recent, answer>>

(* A full child grows first. *)
ChildGrown(m) ==
  LET child == ChildOf(m, step.node, NextDigit) IN
  IF CanInsert(m.heap[child]) THEN m
  ELSE PutChild(Increased(m, child), step.node, NextDigit, Fresh(m))

(* A new node takes the place of the child, with it and a new leaf below. *)
Branched(m) ==
  LET child == ChildOf(m, step.node, NextDigit)
      depth == Depth(m.heap[child].key, step.key)
      between == PutReference(Malloc(m, NewNode(1, FALSE, depth, step.key)), Fresh(m),
                              Digit(step.key, depth), step.key, call.page)
      linked == PutChild(between, Fresh(m), Digit(m.heap[child].key, depth), child)
  IN  Account(PutChild(linked, step.node, NextDigit, Fresh(m)), NodeSize[1])

InsertBelow ==
  /\ InsertHere /\ ~Node.leaf /\ Child(Node, NextDigit) # Null
  /\ LET m == ChildGrown(mem)
         child == ChildOf(m, step.node, NextDigit)
     IN  IF Depth(m.heap[child].key, step.key) < m.heap[child].depth
         THEN mem' = Unfix(Branched(m), step.node) /\ Return
         ELSE /\ mem' = Unfix(Fix(m, child), step.node)
              /\ step' = [step EXCEPT !.node = child]
              /\ UNCHANGED call
  /\ UNCHANGED <<root, recent, answer>>

-----------------------------------------------------------------------------
(* delete_reference.  Below the inner node a, the leaf at digit loses the  *)
(* frame of the last digit.  An empty leaf goes, and a node that is left   *)
(* with one child; nodes with few children shrink.  The pair: the memory   *)
(* and the address of what takes the place of a.  Mutant: a node with one  *)
(* child stays.                                                            *)
WithoutFrame_OneChild(m, a, digit, last) ==
  LET leaf == ChildOf(m, a, digit)
      less == Removed(m, leaf, last)
  IN  [mem |-> IF less.heap[leaf].current_size > 0 THEN less ELSE Removed(less, a, digit),
       top |-> a]
WithoutFrame(m, a, digit, last) ==
  LET leaf == ChildOf(m, a, digit)
      less == Removed(m, leaf, last)
      rest == Removed(less, a, digit)
  IN  CASE less.heap[leaf].current_size > 0 /\ CanDelete(less.heap[leaf]) ->
             [mem |-> less, top |-> a]
        [] less.heap[leaf].current_size > 0 /\ ~CanDelete(less.heap[leaf]) ->
             [mem |-> PutChild(Decreased(less, leaf), a, digit, Fresh(less)), top |-> a]
        [] less.heap[leaf].current_size = 0 /\ rest.heap[a].current_size = 1 ->
             [mem |-> FreeNode(rest, a), top |-> SingleChild(rest.heap[a])]
        [] less.heap[leaf].current_size = 0 /\ rest.heap[a].current_size # 1 ->
             IF CanDelete(rest.heap[a]) THEN [mem |-> rest, top |-> a]
             ELSE [mem |-> Decreased(rest, a), top |-> Fresh(rest)]

Deletes == step.do = "delete_reference"
DeletedKey == Transform(step.key)

DeleteFromEmpty ==
  Deletes /\ root = Null /\ Return /\ UNCHANGED <<mem, root, recent, answer>>

(* The root is a leaf: a root that is replaced is not unfixed. *)
DeleteFromRoot ==
  /\ Deletes /\ root # Null /\ mem.heap[root].leaf
  /\ LET rest == Removed(Fix(mem, root), root, Digit(DeletedKey, mem.heap[root].depth)) IN
     CASE rest.heap[root].current_size = 0 ->
            mem' = FreeNode(rest, root) /\ root' = Null
       [] rest.heap[root].current_size > 0 /\ ~CanDelete(rest.heap[root]) ->
            mem' = Decreased(rest, root) /\ root' = Fresh(rest)
       [] CanDelete(rest.heap[root]) ->
            mem' = Unfix(rest, root) /\ UNCHANGED root
  /\ Return /\ UNCHANGED <<recent, answer>>

DeleteBelowRoot ==
  /\ Deletes /\ root # Null /\ ~mem.heap[root].leaf
  /\ LET digit == Digit(DeletedKey, mem.heap[root].depth)
         child == ChildOf(mem, root, digit)
         less == WithoutFrame(Fix(mem, root), root, digit, Digit(DeletedKey, Digits))
     IN  IF child = Null
         THEN Return /\ UNCHANGED <<mem, root>>
         ELSE IF mem.heap[child].leaf
         THEN /\ mem' = IF less.top = root THEN Unfix(less.mem, root) ELSE less.mem
              /\ root' = less.top
              /\ Return
         ELSE /\ mem' = Fix(mem, root)
              /\ step' = [do |-> "delete_reference_recursive", key |-> DeletedKey,
                          parent |-> root, node |-> child]
              /\ UNCHANGED <<root, call>>
  /\ UNCHANGED <<recent, answer>>

(* The parent is fixed and gets what takes the node's place. *)
DeleteRecursive ==
  /\ step.do = "delete_reference_recursive"
  /\ LET child == Child(Node, NextDigit)
         less == WithoutFrame(mem, step.node, NextDigit, Digit(step.key, Digits))
         from_parent == Digit(step.key, mem.heap[step.parent].depth)
     IN  IF child = Null
         THEN mem' = Unfix(mem, step.parent) /\ Return
         ELSE IF mem.heap[child].leaf
         THEN /\ mem' = Unfix(PutChild(less.mem, step.parent, from_parent, less.top), step.parent)
              /\ Return
         ELSE /\ mem' = Fix(Unfix(mem, step.parent), step.node)
              /\ step' = [step EXCEPT !.parent = step.node, !.node = child]
              /\ UNCHANGED call
  /\ UNCHANGED <<root, recent, answer>>

-----------------------------------------------------------------------------
(* get_page_recursive, with the test of the root that its callers make. *)
GetFromRoot ==
  /\ step.do = "get_page"
  /\ IF root = Null THEN Return /\ UNCHANGED mem
     ELSE /\ mem' = Fix(mem, root)
          /\ step' = [do |-> "get_page_recursive", key |-> Transform(step.key), node |-> root]
          /\ UNCHANGED call
  /\ UNCHANGED <<root, recent, answer>>

Gets == step.do = "get_page_recursive"

GetNothing ==
  /\ Gets /\ Child(Node, NextDigit) = Null
  /\ mem' = Unfix(mem, step.node)
  /\ Return /\ UNCHANGED <<root, recent, answer>>

GetBelow ==
  /\ Gets /\ Child(Node, NextDigit) # Null /\ ~Node.leaf
  /\ mem' = Unfix(Fix(mem, Child(Node, NextDigit)), step.node)
  /\ step' = [step EXCEPT !.node = Child(Node, NextDigit)]
  /\ UNCHANGED <<root, recent, call, answer>>

(* The page in the frame may still be the one of the reference, or not:    *)
(* then the reference is deleted.                                          *)
GetPage ==
  /\ Gets /\ Child(Node, NextDigit) # Null /\ Node.leaf
  /\ mem' = Unfix(mem, step.node)
  /\ \/ answer' = mem.heap[Child(Node, NextDigit)].page_id /\ Return
     \/ /\ step' = [do |-> "delete_reference", key |-> InverseTransform(step.key)]
        /\ UNCHANGED <<call, answer>>
  /\ UNCHANGED <<root, recent>>

-----------------------------------------------------------------------------
(* update_range_recursive and destroy_recursive: a stack of invocations,   *)
(* each at the loop's next child.                                          *)
Invocation(a) == [node |-> a, next |-> 1]
Walking(kind) == step.do = kind /\ "stack" \in DOMAIN step
Top == Last(step.stack)
TopNode == mem.heap[Top.node]
TopDone == Top.next > Len(Order(TopNode))
TopDigit == Order(TopNode)[Top.next]
Advanced == Append(Front(step.stack), [Top EXCEPT !.next = @ + 1])

Leave ==
  IF Len(step.stack) = 1 THEN Return
  ELSE step' = [step EXCEPT !.stack = Front(@)] /\ UNCHANGED call

UpdateRange ==
  /\ step = [do |-> "update_range"]
  /\ IF root = Null THEN Return /\ UNCHANGED mem
     ELSE /\ mem' = Fix(mem, root)
          /\ step' = [do |-> "update_range", stack |-> <<Invocation(root)>>]
          /\ UNCHANGED call
  /\ UNCHANGED <<root, recent, answer>>

(* Mutant: the last digit of the range is left out. *)
InRange_Open(n, digit, from, to) ==
  /\ IntermediateKey(n.key, digit, n.depth) >= Prefix(from, n.depth)
  /\ IntermediateKey(n.key, digit, n.depth) < Prefix(to, n.depth)
InRange(n, digit, from, to) ==
  /\ IntermediateKey(n.key, digit, n.depth) >= Prefix(from, n.depth)
  /\ IntermediateKey(n.key, digit, n.depth) <= Prefix(to, n.depth)
TopInRange == InRange(TopNode, TopDigit, Transform(call.from), Transform(call.to))

UpdateChild ==
  /\ Walking("update_range") /\ ~TopDone
  /\ LET child == Child(TopNode, TopDigit) IN
     CASE ~TopInRange ->
            UNCHANGED mem /\ step' = [step EXCEPT !.stack = Advanced]
       [] TopInRange /\ TopNode.leaf ->
            /\ mem' = PutFrame(mem, Top.node, TopDigit, call.page)
            /\ step' = [step EXCEPT !.stack = Advanced]
       [] TopInRange /\ ~TopNode.leaf ->
            /\ mem' = Fix(mem, child)
            /\ step' = [step EXCEPT !.stack = Append(Advanced, Invocation(child))]
  /\ UNCHANGED <<root, recent, call, answer>>

UpdateDone ==
  /\ Walking("update_range") /\ TopDone
  /\ mem' = Unfix(mem, Top.node)
  /\ Leave /\ UNCHANGED <<root, recent, answer>>

(* After destroy() the object itself goes; Renew makes another one. *)
Gone == [do |-> "gone"]

Destroy ==
  /\ step = [do |-> "destroy"]
  /\ step' = IF root = Null THEN Gone
             ELSE [do |-> "destroy", stack |-> <<Invocation(root)>>]
  /\ UNCHANGED <<mem, root, recent, call, answer>>

DestroyChild ==
  /\ Walking("destroy") /\ ~TopDone
  /\ LET child == Child(TopNode, TopDigit) IN
     IF TopNode.leaf
     THEN mem' = Free(mem, child) /\ step' = [step EXCEPT !.stack = Advanced]
     ELSE UNCHANGED mem /\ step' = [step EXCEPT !.stack = Append(Advanced, Invocation(child))]
  /\ UNCHANGED <<root, recent, call, answer>>

DestroyDone ==
  /\ Walking("destroy") /\ TopDone
  /\ mem' = Free(mem, Top.node)
  /\ step' = IF Len(step.stack) = 1 THEN Gone ELSE [step EXCEPT !.stack = Front(@)]
  /\ UNCHANGED <<root, recent, call, answer>>

Renew ==
  /\ step = Gone
  /\ mem' = [mem EXCEPT !.current_size = 0] /\ root' = Null /\ recent' = << >>
  /\ Return /\ UNCHANGED answer

-----------------------------------------------------------------------------
Step ==
  \/ InsertFirst \/ InsertFromRoot \/ MakeRoom
  \/ GrowRoot \/ BranchAtRoot \/ InsertReference \/ InsertBelow
  \/ DeleteFromEmpty \/ DeleteFromRoot \/ DeleteBelowRoot \/ DeleteRecursive
  \/ GetFromRoot \/ GetNothing \/ GetBelow \/ GetPage
  \/ UpdateRange \/ UpdateChild \/ UpdateDone
  \/ Destroy \/ DestroyChild \/ DestroyDone \/ Renew

Next == (\E c \in CacheCalls : Begin(c)) \/ Step

Spec == Init /\ [][Next]_vars

-----------------------------------------------------------------------------
(* The nodes in memory, and the cells that the root leads to. *)
IsNode(a) == "leaf" \in DOMAIN mem.heap[a]
Nodes == {a \in DOMAIN mem.heap : IsNode(a)}
Below(cells) == cells \cup UNION {Children(mem.heap[a]) : a \in cells \cap Nodes}
Reached ==
  LET within[i \in 0 .. Digits] ==
        IF i = 0 THEN {root} \ {Null} ELSE Below(within[i - 1])
  IN  within[Digits]
InUse == step.do \notin {"destroy", "gone"}

(* Every node's arrays agree with one another and hold no more than they   *)
(* have room for (the assertion "Trying to insert into full node").        *)
TypeOK ==
  /\ Len(recent) < RingLength /\ Range(recent) \subseteq CachedKeys
  /\ call \in CacheCalls \cup {NoCall} /\ answer \in CachedPages \cup {0}
  /\ \A a \in DOMAIN mem.heap :
       /\ IsNode(a) => mem.heap[a].type \in 1 .. 4 /\ ArraysAgree(mem.heap[a])
       /\ ~IsNode(a) => mem.heap[a] \in [page_id : CachedPages]

(* Whatever splits, grows, shrinks or collapses: the cells in use are the  *)
(* ones the root leads to, each by one pointer, so that nothing leaks and  *)
(* nothing is freed twice or used after it was freed; current_size is      *)
(* their size; and destroy() leaves none.                                  *)
Bytes(a) == IF IsNode(a) THEN NodeSize[mem.heap[a].type] ELSE FrameSize
CellsAreTheTree ==
  /\ InUse =>
       /\ Reached = DOMAIN mem.heap
       /\ Cardinality(DOMAIN mem.heap \ {root}) =
            MapThenSumSet(LAMBDA a : mem.heap[a].current_size, Nodes)
       /\ mem.current_size = MapThenSumSet(Bytes, DOMAIN mem.heap)
  /\ step = Gone => mem.heap = << >>

(* The assertions of fix_node and unfix_node: fixed, and only once, are    *)
(* the nodes a call is on its way through, and none after it.              *)
OnTheWay ==
  CASE step.do \in {"insert_recursive", "get_page_recursive"} -> {step.node}
    [] step.do = "delete_reference_recursive" -> {step.parent}
    [] Walking("update_range") -> {i.node : i \in Range(step.stack)}
    [] OTHER -> {}
FixedOnTheWay ==
  InUse => \A a \in Nodes : mem.heap[a].fix_count = IF a \in OnTheWay THEN 1 ELSE 0

(* valdidate(), which the unit tests and the workloads call. *)
IsCompressed == \A a \in Nodes : mem.heap[a].leaf \/ mem.heap[a].current_size > 1
LeafDepthCorrect == \A a \in Nodes : mem.heap[a].leaf <=> mem.heap[a].depth = Digits
KeyMatches ==
  \A a \in Nodes : ~mem.heap[a].leaf =>
    \A c \in Children(mem.heap[a]) :
      mem.heap[a].depth - 1 <= CommonDigits(mem.heap[a].key, mem.heap[c].key)

(* After every call the tree is valid. *)
ValidateAccepts == step = Idle => IsCompressed /\ LeafDepthCorrect /\ KeyMatches
=============================================================================
