--------------------------- MODULE RadixTreeSpec ---------------------------
(***************************************************************************)
(* The radix tree as a value that each call replaces by another: calls are *)
(* atomic, nodes are not shared, there is no memory.  The calls are those  *)
(* that the B+ tree and the DataManager make, with any keys and pages.     *)
(* RadixHeap implements it.                                                *)
(***************************************************************************)
EXTENDS RadixTree

CONSTANTS CachedKeys,   \* unsigned ones
          CachedPages   \* page ids, which are positive

VARIABLES cache,        \* the fields of the RadixTree object
          call, answer

vars == <<cache, call, answer>>

NoCall == [kind |-> "none"]
CacheCalls ==
  [kind : {"insert"}, key : CachedKeys, page : CachedPages]
    \cup [kind : {"delete_reference", "get_page"}, key : CachedKeys]
    \cup {r \in [kind : {"update_range"}, from : CachedKeys, to : CachedKeys,
                 page : CachedPages] : r.from <= r.to}
    \cup [kind : {"destroy"}]

Init == cache = EmptyCache /\ call = NoCall /\ answer = 0

Begin(c) == call = NoCall /\ call' = c /\ answer' = 0 /\ UNCHANGED cache

DoInsert ==
  /\ call.kind = "insert"
  /\ cache' = Insert(cache, call.key, call.page)
  /\ UNCHANGED answer

DoDeleteReference ==
  /\ call.kind = "delete_reference"
  /\ cache' = DeleteReference(cache, call.key)
  /\ UNCHANGED answer

DoUpdateRange ==
  /\ call.kind = "update_range"
  /\ cache' = UpdateRange(cache, call.from, call.to, call.page)
  /\ UNCHANGED answer

(* The reference that is found may be stale: it is deleted then. *)
DoGetPage ==
  /\ call.kind = "get_page"
  /\ \/ answer' = Find(cache, call.key) /\ UNCHANGED cache
     \/ /\ Find(cache, call.key) # 0
        /\ answer' = 0
        /\ cache' = DeleteReference(cache, call.key)

DoDestroy ==
  /\ call.kind = "destroy"
  /\ cache' = EmptyCache
  /\ UNCHANGED answer

Next ==
  \/ \E c \in CacheCalls : Begin(c)
  \/ call' = NoCall /\ (DoInsert \/ DoDeleteReference \/ DoUpdateRange \/ DoGetPage
                       \/ DoDestroy)

Spec == Init /\ [][Next]_vars
=============================================================================
