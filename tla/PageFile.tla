------------------------------ MODULE PageFile ------------------------------
(***************************************************************************)
(* What a StorageManager promises its caller, with no bitmap, no file      *)
(* layout and no holes: a set of page ids in use, and for every page that  *)
(* was ever written the content last written for it.                       *)
(***************************************************************************)
CONSTANTS PageIds,      \* the ids a page may have
          Data          \* the contents a page may have

VARIABLES used,         \* the ids that are in use
          saved         \* page id |-> content last written for that id

vars == <<used, saved>>

Init == used = {0} /\ saved = << >>     \* id 0 is never handed out

(* Hand out an id that nobody uses. *)
Allocate(id) == id \notin used /\ used' = used \cup {id} /\ UNCHANGED saved

(* Write a page; the id is in use from then on, whoever chose it. *)
Save(id, d) ==
  /\ saved' = [i \in DOMAIN saved \cup {id} |-> IF i = id THEN d ELSE saved[i]]
  /\ used' = used \cup {id}

(* Give an id back. What was written under it is left alone. *)
Free(id) == used' = used \ {id} /\ UNCHANGED saved

Next ==
  \E id \in PageIds : \/ Allocate(id)
                      \/ \E d \in Data : Save(id, d)
                      \/ Free(id)

Spec == Init /\ [][Next]_vars
=============================================================================
