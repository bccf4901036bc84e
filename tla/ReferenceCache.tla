--------------------------- MODULE ReferenceCache ---------------------------
(***************************************************************************)
(* What the radix tree promises the B+ tree and the DataManager: it keeps  *)
(* references from keys to pages, may forget any of them, and does nothing *)
(* else that was not asked for.  It may answer with another key's page.    *)
(***************************************************************************)
EXTENDS Integers

CONSTANTS CachedKeys, CachedPages

NoCall == [kind |-> "none"]
CacheCalls ==
  [kind : {"insert"}, key : CachedKeys, page : CachedPages]
    \cup [kind : {"delete_reference", "get_page"}, key : CachedKeys]
    \cup [kind : {"update_range"}, from : CachedKeys, to : CachedKeys, page : CachedPages]
    \cup [kind : {"destroy"}]

VARIABLES refs,         \* key |-> page
          call,         \* the call in progress
          answer        \* the page the last get_page returned, 0 for none

vars == <<refs, call, answer>>

Init == refs = << >> /\ call = NoCall /\ answer = 0

Begin(c) == call = NoCall /\ call' = c /\ answer' = 0 /\ UNCHANGED refs

ForgetAtMost(keys) ==
  refs' \in {refs} \cup {[j \in DOMAIN refs \ {k} |-> refs[j]] : k \in keys \cap DOMAIN refs}

(* Any one key goes, or the new reference is there and all others stay. *)
Insert ==
  /\ call.kind = "insert"
  /\ \/ refs' = [k \in DOMAIN refs \cup {call.key} |->
                   IF k = call.key THEN call.page ELSE refs[k]]
     \/ ForgetAtMost(DOMAIN refs)
  /\ UNCHANGED answer

DeleteReference ==
  /\ call.kind = "delete_reference"
  /\ IF call.key \in DOMAIN refs
     THEN refs' = [k \in DOMAIN refs \ {call.key} |-> refs[k]]
     ELSE ForgetAtMost(DOMAIN refs)
  /\ UNCHANGED answer

UpdateRange ==
  /\ call.kind = "update_range"
  /\ refs' = [k \in DOMAIN refs |->
                IF call.from <= k /\ k <= call.to THEN call.page ELSE refs[k]]
  /\ UNCHANGED answer

(* The key's own reference is found if there is one; a reference that is   *)
(* found to be stale is forgotten.                                         *)
GetPage ==
  /\ call.kind = "get_page"
  /\ LET found == IF call.key \in DOMAIN refs THEN {call.key} ELSE DOMAIN refs IN
     \/ answer' \in {refs[k] : k \in found} /\ UNCHANGED refs
     \/ answer' = 0 /\ call.key \notin DOMAIN refs /\ UNCHANGED refs
     \/ answer' = 0 /\ \E k \in found : refs' = [j \in DOMAIN refs \ {k} |-> refs[j]]

Destroy == call.kind = "destroy" /\ refs' = << >> /\ UNCHANGED answer

Return ==
  call' = NoCall /\ (Insert \/ DeleteReference \/ UpdateRange \/ GetPage \/ Destroy)

Next == (\E c \in CacheCalls : Begin(c)) \/ Return

Spec == Init /\ [][Next]_vars
=============================================================================
