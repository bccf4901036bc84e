------------------------------- MODULE KVStore -------------------------------
(***************************************************************************)
(* What the database promises its caller: a map from keys to values.  A    *)
(* call is made, takes effect and returns.  A key is inserted only once.   *)
(***************************************************************************)
EXTENDS Calls, FiniteSets

CONSTANT Missing       \* INT64_MIN: what get_value returns for no value

VARIABLES kv,           \* key |-> value
          op,           \* the call in progress
          result        \* what the last call returned

vars == <<kv, op, result>>

Init == kv = << >> /\ op = NoOp /\ result = Missing

Call(o) ==
  /\ op = NoOp /\ op' = o /\ result' = Missing
  /\ o.kind = "insert" => o.key \notin DOMAIN kv
  /\ UNCHANGED kv

(* The entries a scan sums up, the first range of them from key upwards. *)
Scanned(key, range) ==
  LET above == {k \in DOMAIN kv : k >= key}
      nth(i) == CHOOSE k \in above : Cardinality({j \in above : j < k}) = i - 1
  IN  FirstOf(range, [i \in 1 .. Cardinality(above) |-> <<nth(i), kv[nth(i)]>>])

Insert ==
  /\ op.kind = "insert"
  /\ kv' = [k \in DOMAIN kv \cup {op.key} |-> IF k = op.key THEN op.value ELSE kv[k]]
  /\ UNCHANGED result

Update ==
  /\ op.kind = "update"
  /\ kv' = [k \in DOMAIN kv |-> IF k = op.key THEN op.value ELSE kv[k]]
  /\ UNCHANGED result

Delete ==
  /\ op.kind = "delete"
  /\ kv' = [k \in DOMAIN kv \ {op.key} |-> kv[k]]
  /\ UNCHANGED result

Get ==
  /\ op.kind = "get"
  /\ result' = IF op.key \in DOMAIN kv THEN kv[op.key] ELSE Missing
  /\ UNCHANGED kv

(* A scan may give up if its first key is not there. *)
Scan ==
  /\ op.kind = "scan"
  /\ \/ result' = Scanned(op.key, op.range)
     \/ op.key \notin DOMAIN kv /\ result' = Missing
  /\ UNCHANGED kv

Return == op' = NoOp /\ (Insert \/ Update \/ Delete \/ Get \/ Scan)

Next == (\E o \in Ops : Call(o)) \/ Return

Spec == Init /\ [][Next]_vars
=============================================================================
