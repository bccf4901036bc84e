-------------------------------- MODULE Calls --------------------------------
(***************************************************************************)
(* The calls a user of the database makes.                                 *)
(***************************************************************************)
EXTENDS Naturals, Sequences, FiniteSets

CONSTANTS Keys, Values,
          Ranges        \* the lengths of scans

(* Keys are of a fixed width, an int64_t. *)
ASSUME KeysAreNumbers == Keys \subseteq Nat /\ IsFiniteSet(Keys)
ASSUME RangesAreCounts == Ranges \subseteq Nat \ {0}

NoOp == [kind |-> "none"]
Ops == [kind : {"insert", "update"}, key : Keys, value : Values]
         \cup [kind : {"get", "delete"}, key : Keys]
         \cup [kind : {"scan"}, key : Keys, range : Ranges]

(* What the code expects of its caller: keys are inserted once, and scans  *)
(* start at a key that is there (the assertion of TreeOperations::scan).   *)
Allowed(o, present) ==
  /\ o.kind = "insert" => o.key \notin present
  /\ o.kind = "scan" => o.key \in present

(* The first n elements of a sequence, all of them if there are fewer. *)
FirstOf(n, s) == SubSeq(s, 1, IF n < Len(s) THEN n ELSE Len(s))
=============================================================================
