---------------------------- MODULE DataManager ----------------------------
(***************************************************************************)
(* DataManager (src/src/data/data_manager.h): the B+ tree with a radix     *)
(* tree as its cache.  Calls ask the cache first, the B+ tree tells it     *)
(* where entries go.  The actions of BPlusTree are taken as they are, with *)
(* the call of the cache that each one makes.                              *)
(*                                                                         *)
(* A reference is good while the frame it points to holds its page         *)
(* (HeaderNamesTheFrame of module BufferManager): with Evictions, a page   *)
(* may have left its frame at any time.  The code never uses the id of a   *)
(* deleted page again, BPlusTree does: what refers to the deleted page     *)
(* refers to Gone from then on.                                            *)
(***************************************************************************)
EXTENDS BPlusTree

CONSTANTS Base, Digits, Capacity, NodeSize, FrameSize, radix_tree_size, RingLength,
          Evictions,            \* whether the buffer is smaller than the tree
          DeletesOfAbsent       \* whether keys are deleted that are not there

ASSUME DataManagerAssumption ==
  /\ Keys \subseteq 0 .. Base^Digits - 1
  /\ {Evictions, DeletesOfAbsent} \subseteq BOOLEAN

VARIABLE cache          \* the RadixTree object

Cache == INSTANCE RadixTree

managerVars == <<vars, cache>>

InitManager == Init /\ cache = Cache!EmptyCache

CallTree(o) == o.kind = "insert" /\ Call(o) /\ UNCHANGED cache

CallCache(o) ==
  /\ pc = "idle" /\ o.kind # "insert"
  /\ op' = o /\ pc' = "cache" /\ result' = Missing
  /\ UNCHANGED <<pages, root_id, node, child, other, seen, fix_count, unsaved, cache>>

-----------------------------------------------------------------------------
(* get_page_recursive: the page of the reference, and whether the header   *)
(* it points to is still that page's.                                      *)
Found == Cache!Find(cache, op.key)
Hit == pc = "cache" /\ Found \in DOMAIN pages
Stale == pc = "cache" /\ Found # 0 /\ (Evictions \/ ~Hit)

GetFromCache ==
  /\ Hit /\ op.kind = "get" /\ HasKey(pages[Found], op.key)
  /\ result' = pages[Found].values[Position(pages[Found], op.key)]
  /\ Return
  /\ UNCHANGED <<pages, root_id, fix_count, unsaved, cache>>

(* Whether the key is on the page is not asked. *)
UpdateInCache ==
  /\ Hit /\ op.kind = "update"
  /\ Effect(With(Page(Found, OuterUpdate(pages[Found], op.key, op.value))), {}, {}, {Found})
  /\ Return
  /\ UNCHANGED <<root_id, result, cache>>

(* Only if the leaf can spare an entry.  Mutant: any leaf will do. *)
DeleteInCache_Any ==
  /\ Hit /\ op.kind = "delete"
  /\ Effect(With(Page(Found, OuterDelete(pages[Found], op.key))), {}, {}, {Found})
  /\ cache' = Cache!DeleteReference(cache, op.key)
  /\ Return
  /\ UNCHANGED <<root_id, result>>
DeleteInCache ==
  /\ Hit /\ op.kind = "delete" /\ CanDelete(pages[Found])
  /\ Effect(With(Page(Found, OuterDelete(pages[Found], op.key))), {}, {}, {Found})
  /\ cache' = Cache!DeleteReference(cache, op.key)
  /\ Return
  /\ UNCHANGED <<root_id, result>>

(* TreeOperations::scan from the page of the reference. *)
ScanFromCache ==
  /\ Hit /\ op.kind = "scan"
  /\ pc' = "cached_scan" /\ node' = Found
  /\ Effect(pages, {Found}, {}, {})
  /\ UNCHANGED <<root_id, op, child, other, seen, result, cache>>

CachedScanAtLeaf ==
  /\ pc = "cached_scan"
  /\ Position(pages[node], op.key) <= Len(pages[node].keys) => HasKey(pages[node], op.key)
  /\ Scanning(Position(pages[node], op.key))
  /\ UNCHANGED <<root_id, cache>>

(* What the cache cannot do the B+ tree does. *)
AskTree ==
  /\ pc' = op.kind /\ node' = root_id
  /\ Effect(pages, {root_id}, {}, {})
  /\ UNCHANGED <<root_id, op, child, other, seen, result>>

NotInCache ==
  /\ \/ pc = "cache" /\ Found = 0
     \/ Hit /\ op.kind = "get" /\ ~HasKey(pages[Found], op.key)
     \/ Hit /\ op.kind = "delete" /\ ~CanDelete(pages[Found])
     \/ pc = "cached_scan" /\ ~HasKey(pages[node], op.key)
  /\ AskTree
  /\ UNCHANGED cache

ForgetStale ==
  /\ Stale
  /\ AskTree
  /\ cache' = Cache!DeleteReference(cache, op.key)

-----------------------------------------------------------------------------
(* A leaf's entries from position first on go to the page to. *)
Repointed(leaf, first, to) ==
  IF leaf.inner THEN cache
  ELSE Cache!UpdateRange(cache, leaf.keys[first], Last(leaf.keys), to)

(* Mutant: the range starts one entry too high. *)
UpperHalf_OneLess(id, new) == Repointed(pages[id], SplitIndex(MaxSize(pages[id])) + 2, new)
UpperHalf(id, new) == Repointed(pages[id], SplitIndex(MaxSize(pages[id])) + 1, new)

(* The page that is split, and the new one. *)
SplitPages == IF pc = "split" THEN <<child, other>> ELSE <<node, NewId(DOMAIN pages)>>

(* The entry that substitute moves from one leaf to another.  Mutant: the  *)
(* sides are mixed up.                                                     *)
Borrowed_Swapped == IF pc = "left" THEN Head(pages[other].keys) ELSE Last(pages[other].keys)
Borrowed == IF pc = "left" THEN Last(pages[other].keys) ELSE Head(pages[other].keys)

(* References to a page that was deleted. *)
Gone == MaxPages + 1
RECURSIVE Outdated(_, _)
Outdated(n, page) ==
  [n EXCEPT !.children =
     [d \in DOMAIN @ |->
        IF ~n.leaf THEN Outdated(@[d], page)
        ELSE IF @[d].page_id = page THEN Cache!RFrame(Gone) ELSE @[d]]]

WithoutPage(c, page) ==
  IF c.root = Cache!NoNode THEN c ELSE [c EXCEPT !.root = Outdated(@, page)]

(* The page that is merged into another, and deleted. *)
JoinedPage == IF pc = "merge_left" THEN child ELSE other
JoinTarget == IF pc = "merge_left" THEN other ELSE child

(* The steps of the B+ tree that tell the cache nothing. *)
SilentStep ==
  /\ \/ Descend \/ ScanOn
     \/ InsertDescend \/ CreateSibling
     \/ ShrinkRoot \/ DeleteDescend \/ FindBiggest \/ ExchangeKey
     \/ Rebalance \/ AskLeft \/ AskRight \/ Refuse \/ AskMerge
  /\ UNCHANGED cache

(* The leaf's steps: the key was found, written or scanned here. *)
Referenced == cache' = Cache!Insert(cache, op.key, node)

TreeStep ==
  \/ SilentStep
  \/ (UpdateAtLeaf \/ ScanAtLeaf \/ InsertAtLeaf) /\ Referenced
  \/ GetAtLeaf /\ IF HasKey(pages[node], op.key) THEN Referenced ELSE UNCHANGED cache
  \/ (SplitRoot \/ SplitChild) /\ cache' = UpperHalf(SplitPages[1], SplitPages[2])
  \/ DeleteAtLeaf /\ cache' = Cache!DeleteReference(cache, op.key)
  \/ Substitute /\ cache' = IF pages[child].inner THEN cache
                            ELSE Cache!Insert(cache, Borrowed, child)
  \/ Merge /\ cache' = WithoutPage(Repointed(pages[JoinedPage], 1, JoinTarget), JoinedPage)

ManagerStep ==
  \/ GetFromCache \/ UpdateInCache \/ DeleteInCache
  \/ ScanFromCache \/ CachedScanAtLeaf
  \/ NotInCache \/ ForgetStale
  \/ TreeStep

NextManager ==
  \/ /\ pc = "idle"
     /\ LET stored == StoredKeys IN
        \E o \in Ops :
          /\ Allowed(o, stored)
          /\ o.kind = "delete" => DeletesOfAbsent \/ o.key \in stored
          /\ CallTree(o) \/ CallCache(o)
  \/ ManagerStep

ManagerSpec == InitManager /\ [][NextManager]_managerVars

-----------------------------------------------------------------------------
(* The reference of a stored key is to the leaf that holds it, through all *)
(* splits, loans and merges: update and delete_value of the cache rely on  *)
(* it.                                                                     *)
ReferencesAreExact ==
  \A r \in Cache!References(cache) :
    r[1] \in StoredKeys =>
      r[2] \in DOMAIN pages /\ r[1] \in Range(pages[r[2]].keys)

(* "Updates a key if it is cached", "true if update was possible": the     *)
(* cache updates a stored key only on its own page.                        *)
CachedUpdatesAreMade ==
  [][UpdateInCache /\ op.key \in StoredKeys => HasKey(pages[Found], op.key)]_managerVars

(* "true if it can delete the value": a key the cache has deleted is gone. *)
CachedDeletesAreMade == [][DeleteInCache => op.key \notin StoredKeys']_managerVars

(* find_biggest: "last one is still the key that will be deleted". *)
BiggestIsDeleted ==
  pc = "find" /\ ~pages[other].inner => Last(pages[other].keys) = op.key
=============================================================================
