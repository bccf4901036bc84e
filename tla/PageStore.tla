------------------------------ MODULE PageStore ------------------------------
(***************************************************************************)
(* What a BufferManager promises the B+ tree: pages that keep the content  *)
(* last written to them, as if there were no frames, no eviction, no file. *)
(* A page is read and written through the pointer that request_page or     *)
(* create_new_page returned, between that call and unfix_page.             *)
(***************************************************************************)
CONSTANTS PageIds,      \* the ids a page may have
          Data          \* the contents a page may have

VARIABLES used,         \* the ids handed out so far
          store,        \* page id |-> content, for the pages that exist
          fixed         \* the pages the client holds a pointer to

vars == <<used, store, fixed>>

Init == used = {0} /\ store = << >> /\ fixed = {}

(* A new page has an id no page ever had; its content is arbitrary. *)
Create(id, d) ==
  /\ id \notin used
  /\ used' = used \cup {id}
  /\ store' = [i \in DOMAIN store \cup {id} |-> IF i = id THEN d ELSE store[i]]
  /\ fixed' = fixed \cup {id}

Fix(id) ==
  /\ id \in DOMAIN store \ fixed
  /\ fixed' = fixed \cup {id}
  /\ UNCHANGED <<used, store>>

Write(id, d) ==
  /\ id \in fixed
  /\ store' = [store EXCEPT ![id] = d]
  /\ UNCHANGED <<used, fixed>>

Unfix(id) ==
  /\ id \in fixed
  /\ fixed' = fixed \ {id}
  /\ UNCHANGED <<used, store>>

Delete(id) ==
  /\ id \in DOMAIN store \ fixed
  /\ store' = [i \in DOMAIN store \ {id} |-> store[i]]
  /\ UNCHANGED <<used, fixed>>

Next ==
  \E id \in PageIds : \/ Fix(id)
                      \/ Unfix(id)
                      \/ Delete(id)
                      \/ \E d \in Data : Create(id, d) \/ Write(id, d)

Spec == Init /\ [][Next]_vars
=============================================================================
