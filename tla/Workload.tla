------------------------------ MODULE Workload ------------------------------
(***************************************************************************)
(* Workload (src/src/run_suite/workload.h), and run_workload of the script *)
(* (src/src/run_suite/workloads_script.h), on the B+ tree without a cache: *)
(* a set of records is inserted in ascending order (records_vector is the  *)
(* copy of a std::set) or, by the script, in descending order; then        *)
(* operations follow, each of a random kind on a random one of these       *)
(* records.  Only the order of the keys matters: they are 1, 2, 3 ..., the *)
(* records of INSERT operations come last.                                 *)
(*                                                                         *)
(* The code draws all operations before the first one is performed; here   *)
(* each is drawn when it is performed, as nothing looks at it earlier.     *)
(***************************************************************************)
EXTENDS TreeChecks

CONSTANTS record_count,
          operation_count,      \* bound: how many operations follow
          Proportions           \* the kinds whose proportion is not zero

ASSUME CountsAssumption == record_count \in Nat /\ operation_count \in Nat

(* Records and ranges are numbers that the tree takes. *)
ASSUME RecordsAssumption ==
  1 .. record_count + operation_count \subseteq Keys \cap Values /\ 100 \in Ranges

VARIABLES inverse,              \* whether the load goes from the last record to the first
          insert_index,         \* records inserted so far
          operations,           \* operations performed so far
          delete_operations,    \* the records they deleted
          update_operations     \* the records they updated

workloadVars == <<inverse, insert_index, operations, delete_operations, update_operations>>

InitWorkload ==
  /\ Init
  /\ inverse \in BOOLEAN
  /\ insert_index = 0 /\ operations = 0
  /\ delete_operations = {} /\ update_operations = {}

(* A record is inserted with itself as its value. *)
InsertRecord(r) ==
  /\ Call([kind |-> "insert", key |-> r, value |-> r])
  /\ insert_index' = insert_index + 1
  /\ UNCHANGED <<inverse, delete_operations, update_operations>>

Load ==
  /\ insert_index < record_count
  /\ InsertRecord(IF inverse THEN record_count - insert_index ELSE insert_index + 1)
  /\ UNCHANGED operations

Operate ==
  /\ insert_index >= record_count /\ operations < operation_count
  /\ operations' = operations + 1

PerformInsert ==
  Operate /\ "insert" \in Proportions /\ InsertRecord(insert_index + 1)

PerformRead(r) ==
  /\ Operate /\ "get" \in Proportions
  /\ Call([kind |-> "get", key |-> r])
  /\ UNCHANGED <<inverse, insert_index, delete_operations, update_operations>>

PerformUpdate(r) ==
  /\ Operate /\ "update" \in Proportions
  /\ Call([kind |-> "update", key |-> r, value |-> r + 1])
  /\ update_operations' = update_operations \cup {r}
  /\ UNCHANGED <<inverse, insert_index, delete_operations>>

(* max_scan_range is 100: more than there are records here. *)
PerformScan(r) ==
  /\ Operate /\ "scan" \in Proportions
  /\ Call([kind |-> "scan", key |-> r, range |-> 100])
  /\ UNCHANGED <<inverse, insert_index, delete_operations, update_operations>>

PerformDelete(r) ==
  /\ Operate /\ "delete" \in Proportions
  /\ Call([kind |-> "delete", key |-> r])
  /\ delete_operations' = delete_operations \cup {r}
  /\ UNCHANGED <<inverse, insert_index, update_operations>>

Performed == insert_index >= record_count /\ operations = operation_count /\ Idle

(* The calls in progress, and the end of run(). *)
Proceed == (Step \/ ScanMiss) /\ UNCHANGED workloadVars
Finished == Performed /\ UNCHANGED <<vars, workloadVars>>

NextWorkload ==
  \/ Load \/ PerformInsert \/ Proceed \/ Finished
  \/ \E r \in 1 .. record_count :
       PerformRead(r) \/ PerformUpdate(r) \/ PerformScan(r) \/ PerformDelete(r)

WorkloadSpec == InitWorkload /\ [][NextWorkload]_<<vars, workloadVars>>

-----------------------------------------------------------------------------
(* validate(): the records whose value is not the one they were given last,*)
(* and the check of the tree with the number of entries that are left.     *)
ValueOf(r) ==
  LET leaf == pages[LeafFor(r)] IN
  IF HasKey(leaf, r) THEN leaf.values[Position(leaf, r)] ELSE Missing

Expected(r) ==
  CASE r \in delete_operations -> Missing
    [] r \in update_operations \ delete_operations -> r + 1
    [] OTHER -> r

faulty_records == {r \in 1 .. insert_index : ValueOf(r) # Expected(r)}
Remaining == insert_index - Cardinality(delete_operations)

(* After run() validate() reports no faulty record and a valid tree,       *)
(* although operations of all kinds met on the same records: an update of  *)
(* a deleted record, a second delete, a scan from a record that is gone.   *)
ValidateFindsNoFault ==
  Performed => faulty_records = {} /\ Validate(pages, Remaining)

(* The assertion of TreeOperations::scan, "Scan on key that does not       *)
(* exist.": the leaf a scan comes to has the key.                          *)
ScanFindsItsKey == pc = "scan" /\ NodeIsLeaf => HasKey(pages[node], op.key)
=============================================================================
