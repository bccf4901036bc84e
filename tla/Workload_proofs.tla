--------------------------- MODULE Workload_proofs ---------------------------
(***************************************************************************)
(* Proofs about Workload: a workload of any size, in either order and of   *)
(* any mix of operations, finds the values it wrote and a valid tree.      *)
(*                                                                         *)
(* The calls of a workload are not all that Allowed admits: it scans from  *)
(* records it deleted, and the leaf such a scan came to stays fixed.  The  *)
(* invariant of the tree, IInv, bounds the fixes of a page from below and  *)
(* so holds here, too; that no page is left fixed does not.                *)
(***************************************************************************)
EXTENDS Workload, BWalks_proofs

-----------------------------------------------------------------------------
(* A scan that does not find its key: it returns and leaves its leaf fixed.*)
LEMMA ScanMissKeeps == IInv /\ ScanMiss => IInv'
<1> SUFFICES ASSUME IInv, ScanMiss PROVE IInv'
  OBVIOUS
<1>1. PICK lo, hi, h, odd, k : Labelled(lo, hi, h, odd, k)
  BY DEF IInv
<1>2. /\ pc = "scan" /\ pages' = pages /\ root_id' = root_id /\ fix_count' = fix_count /\ unsaved' = unsaved
      /\ pc' = "idle" /\ op' = NoOp /\ node' = 0 /\ child' = 0 /\ other' = 0
  BY DEF ScanMiss, Return
<1>3. odd = 0
  BY <1>1, <1>2, Known, Places DEF Walking
<1>4. Labelled(lo, hi, h, 0, k)'
  BY <1>1, <1>2, <1>3 DEF Labelled, Registers, Resting
<1>5. Sized(pages', root_id') /\ RootFilled' /\ NumbersOK' /\ unsaved' = {}
  <2>1. 0 \in 0 .. MaxPages
    BY MaxPagesAssumption
  <2> QED
    BY <1>2, <2>1 DEF IInv, RootFilled, NumbersOK
<1>6. Counts(fix_count', Fixed')
  <2>1. Fixed' = {}
    BY <1>2 DEF Fixed
  <2>2. fix_count \in [PageIds -> Nat]
    BY DEF IInv, Counts
  <2> QED
    BY <1>2, <2>1, <2>2 DEF Counts, Bit
<1> QED
  BY <1>4, <1>5, <1>6 DEF IInv

(* The key it looked for is not in the map: its leaf is the only place.    *)
LEMMA ScanMissMaps == IInv /\ SeenInv /\ ScanMiss => SeenInv' /\ AsKVStore!Return
<1> SUFFICES ASSUME IInv, SeenInv, ScanMiss PROVE SeenInv' /\ AsKVStore!Return
  OBVIOUS
<1> DEFINE leaf == pages[node]
           key == op.key
<1>1. PICK lo, hi, h, odd, k : Labelled(lo, hi, h, odd, k)
  BY DEF IInv
<1>2. pc = "scan" /\ NodeIsLeaf /\ ~HasKey(leaf, key) /\ result' = Missing /\ Return /\ pages' = pages
  BY DEF ScanMiss
<1>3. Walking(lo, hi, odd)
  BY <1>1, <1>2, Known, Places
<1>4. node \in DOMAIN pages /\ op \in Ops /\ op.kind = "scan" /\ odd = 0 /\ Here(lo, hi, odd, node)
  BY <1>2, <1>3 DEF Walking, OpIs
<1>5. Alone(pages, node, key)
  BY <1>1, <1>2, <1>4, KeyAlone
<1>6. IsMapOf(Contents, pages)
  BY ContentsAre
<1>7. ~leaf.inner /\ leaf.keys \in Seq(Int) /\ Ascending(leaf.keys) /\ key \in Int
  BY <1>1, <1>2, <1>4, OpFacts, Known, LeafKeys DEF NodeIsLeaf
<1>8. \A v : Held(pages, key, v) <=> HasEntry(leaf, key, v)
  BY <1>4, <1>5, <1>7 DEF Held, Alone, HasEntry
<1> HIDE DEF leaf, key
<1>9. \A v : ~HasEntry(leaf, key, v)
  BY <1>2, <1>7, HasKeyMeans DEF HasEntry
<1>10. key \notin DOMAIN Contents
  BY <1>6, <1>8, <1>9 DEF IsMapOf
<1>11. Contents' = Contents
  BY <1>2, ScanMissKeeps, SamePages, MapStays
<1>12. SeenInv'
  BY <1>2, ReturnKeepsSeen
<1>13. AsKVStore!Scan
  BY <1>2, <1>4, <1>10, <1>11 DEF AsKVStore!Scan, key
<1> QED
  BY <1>2, <1>12, <1>13 DEF AsKVStore!Return, Return, NoOp, AsKVStore!NoOp

(* Any step of a call. *)
LEMMA ProceedMaps ==
  ASSUME IInv, SeenInv, Step \/ ScanMiss
  PROVE  IInv' /\ SeenInv' /\ (AsKVStore!Return \/ UNCHANGED <<Contents, op, result>>)
<1>1. CASE Step
  BY <1>1, StepKeeps, StepMaps DEF Kept
<1>2. CASE ScanMiss
  BY <1>2, ScanMissKeeps, ScanMissMaps
<1> QED
  BY <1>1, <1>2

-----------------------------------------------------------------------------
(* The records that were inserted and those that should be there, each     *)
(* with the value it was given last.                                       *)
Records ==
  IF inverse /\ insert_index < record_count
  THEN record_count - insert_index + 1 .. record_count ELSE 1 .. insert_index
Present == Records \ delete_operations
Given(r) == IF r \in update_operations THEN r + 1 ELSE r

Progress ==
  /\ inverse \in BOOLEAN /\ insert_index \in Nat /\ operations \in 0 .. operation_count
  /\ insert_index <= record_count + operations
  /\ insert_index < record_count => operations = 0
  /\ operations = 0 => delete_operations = {} /\ update_operations = {}
  /\ delete_operations \subseteq 1 .. record_count /\ update_operations \subseteq 1 .. record_count

(* The map M has what should be there, except perhaps for some keys.       *)
Agrees(M, except) ==
  \A r : r \notin except =>
    (r \in DOMAIN M <=> r \in Present) /\ (r \in Present => M[r] = Given(r))

(* The sets are ahead of the map by the operation that is in progress.     *)
Follows(M, o) ==
  /\ o.kind = "insert" =>
       o.key \notin DOMAIN M /\ o.key \in Present /\ o.value = Given(o.key) /\ Agrees(M, {o.key})
  /\ o.kind = "update" =>
       (o.key \in DOMAIN M <=> o.key \in Present) /\ o.value = Given(o.key) /\ Agrees(M, {o.key})
  /\ o.kind = "delete" => o.key \notin Present /\ Agrees(M, {o.key})
  /\ o.kind \notin {"insert", "update", "delete"} => Agrees(M, {})

WInv == IInv /\ SeenInv /\ Progress /\ Follows(Contents, op)

-----------------------------------------------------------------------------
(* When a call takes effect, the map catches up.                           *)
LEMMA ReturnFollows ==
  ASSUME AsKVStore!Return, Follows(Contents, op), UNCHANGED workloadVars
  PROVE  Follows(Contents, op)'
<1> DEFINE M == Contents
           M2 == Contents'
<1>1. op' = [kind |-> "none"]
  BY DEF AsKVStore!Return, AsKVStore!NoOp
<1>2. Present' = Present /\ \A r : Given(r)' = Given(r)
  BY DEF workloadVars, Present, Records, Given
<1>3. SUFFICES \A r : (r \in DOMAIN M2 <=> r \in Present) /\ (r \in Present => M2[r] = Given(r))
  <2>1. Agrees(Contents, {})'
    BY <1>2, <1>3 DEF Agrees
  <2> QED
    BY <1>1, <2>1 DEF Follows
<1>4. SUFFICES ASSUME NEW r PROVE (r \in DOMAIN M2 <=> r \in Present) /\ (r \in Present => M2[r] = Given(r))
  OBVIOUS
<1> HIDE DEF M, M2
<1>5. CASE AsKVStore!Insert
  <2>1. op.kind = "insert" /\ M2 = [q \in DOMAIN M \cup {op.key} |-> IF q = op.key THEN op.value ELSE M[q]]
    BY <1>5 DEF AsKVStore!Insert, M, M2
  <2>2. op.key \in Present /\ op.value = Given(op.key) /\ Agrees(M, {op.key})
    BY <2>1 DEF Follows, M
  <2> QED
    BY <2>1, <2>2 DEF Agrees
<1>6. CASE AsKVStore!Update
  <2>1. op.kind = "update" /\ M2 = [q \in DOMAIN M |-> IF q = op.key THEN op.value ELSE M[q]]
    BY <1>6 DEF AsKVStore!Update, M, M2
  <2>2. (op.key \in DOMAIN M <=> op.key \in Present) /\ op.value = Given(op.key) /\ Agrees(M, {op.key})
    BY <2>1 DEF Follows, M
  <2> QED
    BY <2>1, <2>2 DEF Agrees
<1>7. CASE AsKVStore!Delete
  <2>1. op.kind = "delete" /\ M2 = [q \in DOMAIN M \ {op.key} |-> M[q]]
    BY <1>7 DEF AsKVStore!Delete, M, M2
  <2>2. op.key \notin Present /\ Agrees(M, {op.key})
    BY <2>1 DEF Follows, M
  <2> QED
    BY <2>1, <2>2 DEF Agrees
<1>8. CASE AsKVStore!Get \/ AsKVStore!Scan
  <2>1. op.kind \in {"get", "scan"} /\ M2 = M
    BY <1>8 DEF AsKVStore!Get, AsKVStore!Scan, M, M2
  <2>2. Agrees(M, {})
    BY <2>1 DEF Follows, M
  <2> QED
    BY <2>1, <2>2 DEF Agrees
<1> QED
  BY <1>5, <1>6, <1>7, <1>8 DEF AsKVStore!Return

LEMMA ProceedKeeps == WInv /\ Proceed => WInv' /\ [AsKVStore!Next]_(AsKVStore!vars)
<1> SUFFICES ASSUME WInv, Proceed PROVE WInv' /\ [AsKVStore!Next]_(AsKVStore!vars)
  OBVIOUS
<1>1. IInv /\ SeenInv /\ (Step \/ ScanMiss) /\ UNCHANGED workloadVars
  BY DEF WInv, Proceed
<1>2. IInv' /\ SeenInv' /\ (AsKVStore!Return \/ UNCHANGED <<Contents, op, result>>)
  BY <1>1, ProceedMaps
<1>3. Progress'
  BY <1>1 DEF WInv, Progress, workloadVars
<1>4. Follows(Contents, op)'
  <2>1. CASE UNCHANGED <<Contents, op, result>>
    <3>1. Present' = Present /\ \A r : Given(r)' = Given(r)
      BY <1>1 DEF workloadVars, Present, Records, Given
    <3> QED
      BY <2>1, <3>1 DEF WInv, Follows, Agrees
  <2>2. CASE AsKVStore!Return
    BY <1>1, <2>2, ReturnFollows DEF WInv
  <2> QED
    BY <1>2, <2>1, <2>2
<1> QED
  BY <1>2, <1>3, <1>4 DEF WInv, AsKVStore!Next, AsKVStore!vars
-----------------------------------------------------------------------------
(* Between calls the map has just what should be there.                    *)
LEMMA IdleAgrees ==
  ASSUME WInv, pc = "idle"
  PROVE  op = NoOp /\ Agrees(Contents, {}) /\ StoredKeys = DOMAIN Contents /\ StoredKeys = Present
<1>1. IInv /\ Follows(Contents, op)
  BY DEF WInv
<1>2. PICK lo, hi, h, odd, k : Labelled(lo, hi, h, odd, k)
  BY <1>1 DEF IInv
<1>3. op = NoOp
  BY <1>2, Known, Places DEF Resting
<1>4. Agrees(Contents, {})
  BY <1>1, <1>3 DEF Follows, NoOp
<1>5. StoredKeys = DOMAIN Contents
  BY DEF Contents
<1> QED
  BY <1>3, <1>4, <1>5 DEF Agrees

(* A call that is made leaves the map as it is.                            *)
LEMMA CallFacts ==
  ASSUME WInv, NEW o \in Ops, Call(o), o.kind = "insert" => o.key \notin Present
  PROVE  /\ IInv' /\ SeenInv' /\ op' = o /\ Contents' = Contents /\ Agrees(Contents, {})
         /\ [AsKVStore!Next]_(AsKVStore!vars)
<1>1. IInv /\ SeenInv /\ pc = "idle"
  BY DEF WInv, Call
<1>2. o.kind = "insert" => o.key \notin StoredKeys
  BY <1>1, IdleAgrees
<1>3. IInv' /\ SeenInv' /\ AsKVStore!Call(o)
  BY <1>1, <1>2, CallKeeps, CallMaps DEF Kept
<1>4. o \in AsKVStore!Ops
  BY DEF Ops, AsKVStore!Ops
<1>5. op' = o /\ Contents' = Contents
  BY <1>3 DEF AsKVStore!Call
<1> QED
  BY <1>1, <1>3, <1>4, <1>5, IdleAgrees DEF AsKVStore!Next

(* Every record is a key, and a value.                                     *)
LEMMA RecordsAreKeys ==
  ASSUME NEW r \in 1 .. record_count + operation_count
  PROVE  r \in Keys /\ r \in Values
  BY RecordsAssumption

(* The record that is inserted next is a new one.                          *)
Next1 == IF inverse /\ insert_index < record_count THEN record_count - insert_index ELSE insert_index + 1

LEMMA NextRecord ==
  ASSUME Progress, inverse' = inverse, insert_index' = insert_index + 1
  PROVE  /\ Next1 \in Int /\ 1 <= Next1 /\ Next1 <= record_count + operations + 1
         /\ Next1 <= record_count => insert_index < record_count
         /\ \A r : r \in Records' <=> r \in Records \/ r = Next1
         /\ Next1 \notin Records
<1>1. insert_index \in Nat /\ operations \in Nat /\ insert_index <= record_count + operations /\ record_count \in Nat
  BY CountsAssumption DEF Progress
<1>2. CASE inverse /\ insert_index < record_count
  <2>1. Next1 = record_count - insert_index /\ Records = record_count - insert_index + 1 .. record_count
    BY <1>2 DEF Next1, Records
  <2>2. Records' = record_count - insert_index .. record_count
    <3>1. CASE insert_index + 1 < record_count
      <4>1. Records' = record_count - (insert_index + 1) + 1 .. record_count
        BY <1>2, <3>1 DEF Records
      <4> QED
        BY <1>1, <4>1
    <3>2. CASE ~(insert_index + 1 < record_count)
      <4>1. insert_index + 1 = record_count
        BY <1>1, <1>2, <3>2
      <4>2. Records' = 1 .. insert_index + 1
        BY <3>2 DEF Records
      <4>3. record_count - insert_index = 1
        BY <1>1, <4>1
      <4> QED
        BY <4>1, <4>2, <4>3
    <3> QED
      BY <3>1, <3>2
  <2> HIDE DEF Next1, Records
  <2> QED
    BY <1>1, <1>2, <2>1, <2>2
<1>3. CASE ~(inverse /\ insert_index < record_count)
  <2>1. Next1 = insert_index + 1 /\ Records = 1 .. insert_index
    BY <1>3 DEF Next1, Records
  <2>2. Records' = 1 .. insert_index + 1
    BY <1>1, <1>3 DEF Records
  <2> HIDE DEF Next1, Records
  <2> QED
    BY <1>1, <2>1, <2>2
<1> QED
  BY <1>2, <1>3

(* Load and PerformInsert.                                                 *)
LEMMA InsertKeeps ==
  ASSUME WInv, InsertRecord(Next1), operations' \in {operations, operations + 1},
         operations' = operations => insert_index < record_count,
         operations' # operations => ~(insert_index < record_count),
         operations' <= operation_count
  PROVE  WInv' /\ [AsKVStore!Next]_(AsKVStore!vars)
<1> DEFINE o == [kind |-> "insert", key |-> Next1, value |-> Next1]
<1>1. /\ Call(o) /\ insert_index' = insert_index + 1 /\ inverse' = inverse
      /\ delete_operations' = delete_operations /\ update_operations' = update_operations
  BY DEF InsertRecord
<1>2. Progress /\ insert_index \in Nat /\ operations \in Nat /\ record_count \in Nat /\ operation_count \in Nat
  BY CountsAssumption DEF WInv, Progress
<1>3. /\ Next1 \in Int /\ 1 <= Next1 /\ Next1 <= record_count + operations + 1
      /\ Next1 <= record_count => insert_index < record_count
      /\ \A r : r \in Records' <=> r \in Records \/ r = Next1
      /\ Next1 \notin Records
  BY <1>1, <1>2, NextRecord
<1>4. Next1 \in 1 .. record_count + operation_count
  <2>1. CASE operations' = operations
    <3>1. operations = 0 /\ (inverse => Next1 = record_count - insert_index) /\ (~inverse => Next1 = insert_index + 1)
      BY <1>2, <2>1 DEF Progress, Next1
    <3>2. Next1 <= record_count
      BY <1>2, <2>1, <3>1
    <3> QED
      BY <1>2, <1>3, <3>2
  <2>2. CASE operations' # operations
    <3>1. operations + 1 <= operation_count
      BY <2>2
    <3> QED
      BY <1>2, <1>3, <3>1
  <2> QED
    BY <2>1, <2>2
<1>5. Next1 \notin delete_operations /\ Next1 \notin update_operations
  <2>1. CASE insert_index < record_count
    BY <1>2, <2>1 DEF Progress
  <2>2. CASE ~(insert_index < record_count)
    <3>1. ~(Next1 <= record_count)
      BY <1>3, <2>2
    <3>2. Next1 \notin 1 .. record_count
      BY <3>1
    <3> QED
      BY <1>2, <3>2 DEF Progress
  <2> QED
    BY <2>1, <2>2
<1>6. o \in Ops /\ o.kind = "insert" /\ o.key = Next1 /\ o.value = Next1
  BY <1>4, RecordsAreKeys DEF Ops
<1>7. Next1 \notin Present
  BY <1>3 DEF Present
<1> HIDE DEF o
<1>8. /\ IInv' /\ SeenInv' /\ op' = o /\ Contents' = Contents /\ Agrees(Contents, {})
      /\ [AsKVStore!Next]_(AsKVStore!vars)
  BY <1>1, <1>6, <1>7, CallFacts
<1>9. Progress'
  <2>1. operations' \in 0 .. operation_count
    BY <1>2
  <2>2. insert_index' <= record_count + operations'
    <3>1. CASE operations' = operations
      BY <1>1, <1>2, <3>1
    <3>2. CASE operations' = operations + 1
      <4>1. insert_index <= record_count + operations
        BY <1>2 DEF Progress
      <4> QED
        BY <1>1, <1>2, <3>2, <4>1
    <3> QED
      BY <3>1, <3>2
  <2>3. insert_index' < record_count => operations' = 0
    <3>1. CASE operations' = operations
      BY <1>1, <1>2, <3>1 DEF Progress
    <3>2. CASE operations' # operations
      BY <1>1, <1>2, <3>2
    <3> QED
      BY <3>1, <3>2
  <2>4. operations' = 0 => operations = 0
    BY <1>2
  <2>5. insert_index' \in Nat
    BY <1>1, <1>2
  <2>6. inverse \in BOOLEAN /\ delete_operations \subseteq 1 .. record_count
        /\ update_operations \subseteq 1 .. record_count
        /\ (operations = 0 => delete_operations = {} /\ update_operations = {})
    BY <1>2 DEF Progress
  <2> QED
    BY <1>1, <2>1, <2>2, <2>3, <2>4, <2>5, <2>6 DEF Progress
<1>10. Follows(Contents, op)'
  <2>1. \A r : r \in Present' <=> r \in Present \/ r = Next1
    BY <1>1, <1>3, <1>5 DEF Present
  <2>2. (\A r : Given(r)' = Given(r)) /\ Given(Next1) = Next1 /\ Given(op.key)' = Given(op'.key)
    BY <1>1, <1>5 DEF Given
  <2>3. op'.key \notin DOMAIN Contents' /\ op'.key \in Present' /\ op'.value = Given(op'.key)
    BY <1>6, <1>7, <1>8, <2>1, <2>2 DEF Agrees
  <2>4. Agrees(Contents, {op.key})'
    BY <1>6, <1>8, <2>1, <2>2 DEF Agrees
  <2> QED
    BY <1>6, <1>8, <2>2, <2>3, <2>4 DEF Follows
<1> QED
  BY <1>8, <1>9, <1>10 DEF WInv
(* What the other operations have in common: the records stay, the call is *)
(* on one of them.                                                         *)
LEMMA OperationKeeps ==
  ASSUME WInv, NEW r \in 1 .. record_count, NEW o \in Ops, Call(o), o.kind # "insert", o.key = r,
         Operate, inverse' = inverse, insert_index' = insert_index,
         delete_operations' = IF o.kind = "delete" THEN delete_operations \cup {r} ELSE delete_operations,
         update_operations' = IF o.kind = "update" THEN update_operations \cup {r} ELSE update_operations,
         o.kind = "update" => o.value = r + 1
  PROVE  WInv' /\ [AsKVStore!Next]_(AsKVStore!vars)
<1>1. /\ Progress /\ insert_index \in Nat /\ operations \in Nat /\ record_count \in Nat /\ operation_count \in Nat
      /\ insert_index <= record_count + operations
  BY CountsAssumption DEF WInv, Progress
<1>2. operations' = operations + 1 /\ operations < operation_count /\ insert_index >= record_count
  BY DEF Operate
<1>3. /\ IInv' /\ SeenInv' /\ op' = o /\ Contents' = Contents /\ Agrees(Contents, {})
      /\ [AsKVStore!Next]_(AsKVStore!vars)
  BY CallFacts
<1>4. Progress'
  <2>1. operations' \in 0 .. operation_count /\ insert_index' <= record_count + operations'
        /\ operations' # 0 /\ ~(insert_index' < record_count)
    BY <1>1, <1>2
  <2>2. delete_operations' \subseteq 1 .. record_count /\ update_operations' \subseteq 1 .. record_count
    BY <1>1 DEF Progress
  <2>3. inverse \in BOOLEAN
    BY <1>1 DEF Progress
  <2> QED
    BY <1>1, <2>1, <2>2, <2>3 DEF Progress
<1>5. Follows(Contents, op)'
  <2>1. Records' = Records
    BY <1>1, <1>2 DEF Records
  <2>2. \A q : q # r => (q \in Present' <=> q \in Present) /\ Given(q)' = Given(q)
    BY <2>1 DEF Present, Given
  <2>3. o.kind # "delete" => (r \in Present' <=> r \in Present)
    BY <2>1 DEF Present
  <2>4. o.kind # "update" => Given(r)' = Given(r)
    BY DEF Given
  <2>5. Agrees(Contents, {op.key})'
    BY <1>3, <2>2 DEF Agrees
  <2>6. CASE o.kind = "update"
    <3>1. op'.key = r /\ op'.value = Given(op.key)'
      BY <1>3, <2>6 DEF Given
    <3>2. r \in DOMAIN Contents' <=> r \in Present'
      BY <1>3, <2>3, <2>6 DEF Agrees
    <3> QED
      BY <1>3, <2>5, <2>6, <3>1, <3>2 DEF Follows
  <2>7. CASE o.kind = "delete"
    <3>1. r \notin Present'
      BY <2>7 DEF Present
    <3> QED
      BY <1>3, <2>5, <2>7, <3>1 DEF Follows
  <2>8. CASE o.kind \notin {"update", "delete"}
    <3>1. Agrees(Contents, {})'
      BY <1>3, <2>2, <2>3, <2>4, <2>8 DEF Agrees
    <3> QED
      BY <1>3, <2>8, <3>1 DEF Follows
  <2> QED
    BY <2>6, <2>7, <2>8
<1> QED
  BY <1>3, <1>4, <1>5 DEF WInv

LEMMA PerformKeeps ==
  ASSUME WInv, NEW r \in 1 .. record_count,
         PerformRead(r) \/ PerformUpdate(r) \/ PerformScan(r) \/ PerformDelete(r)
  PROVE  WInv' /\ [AsKVStore!Next]_(AsKVStore!vars)
<1>1. operations \in Nat /\ record_count \in Nat /\ operation_count \in Nat
  BY CountsAssumption DEF WInv, Progress
<1>2. Operate /\ operations < operation_count
  BY DEF PerformRead, PerformUpdate, PerformScan, PerformDelete, Operate
<1>3. r \in 1 .. record_count + operation_count /\ r + 1 \in 1 .. record_count + operation_count
  BY <1>1, <1>2
<1>4. r \in Keys /\ r + 1 \in Values /\ 100 \in Ranges
  BY <1>3, RecordsAreKeys, RecordsAssumption
<1>5. CASE PerformRead(r)
  <2> DEFINE o == [kind |-> "get", key |-> r]
  <2>1. Call(o) /\ UNCHANGED <<inverse, insert_index, delete_operations, update_operations>>
    BY <1>5 DEF PerformRead
  <2>2. o \in Ops /\ o.kind = "get" /\ o.key = r
    BY <1>4 DEF Ops
  <2> HIDE DEF o
  <2> QED
    BY <1>2, <2>1, <2>2, OperationKeeps
<1>6. CASE PerformUpdate(r)
  <2> DEFINE o == [kind |-> "update", key |-> r, value |-> r + 1]
  <2>1. /\ Call(o) /\ UNCHANGED <<inverse, insert_index, delete_operations>>
        /\ update_operations' = update_operations \cup {r}
    BY <1>6 DEF PerformUpdate
  <2>2. o \in Ops /\ o.kind = "update" /\ o.key = r /\ o.value = r + 1
    BY <1>4 DEF Ops
  <2> HIDE DEF o
  <2> QED
    BY <1>2, <2>1, <2>2, OperationKeeps
<1>7. CASE PerformScan(r)
  <2> DEFINE o == [kind |-> "scan", key |-> r, range |-> 100]
  <2>1. Call(o) /\ UNCHANGED <<inverse, insert_index, delete_operations, update_operations>>
    BY <1>7 DEF PerformScan
  <2>2. o \in Ops /\ o.kind = "scan" /\ o.key = r
    BY <1>4 DEF Ops
  <2> HIDE DEF o
  <2> QED
    BY <1>2, <2>1, <2>2, OperationKeeps
<1>8. CASE PerformDelete(r)
  <2> DEFINE o == [kind |-> "delete", key |-> r]
  <2>1. /\ Call(o) /\ UNCHANGED <<inverse, insert_index, update_operations>>
        /\ delete_operations' = delete_operations \cup {r}
    BY <1>8 DEF PerformDelete
  <2>2. o \in Ops /\ o.kind = "delete" /\ o.key = r
    BY <1>4 DEF Ops
  <2> HIDE DEF o
  <2> QED
    BY <1>2, <2>1, <2>2, OperationKeeps
<1> QED
  BY <1>5, <1>6, <1>7, <1>8

(* The invariant is kept by every step, and every step is one of the map.  *)
LEMMA WorkloadKeeps ==
  ASSUME WInv, [NextWorkload]_<<vars, workloadVars>>
  PROVE  WInv' /\ [AsKVStore!Next]_(AsKVStore!vars)
<1>1. operations \in Nat /\ operation_count \in Nat /\ operations <= operation_count /\ record_count \in Nat
      /\ (insert_index < record_count => operations = 0)
  BY CountsAssumption DEF WInv, Progress
<1>2. CASE Load
  <2>1. InsertRecord(Next1) /\ operations' = operations /\ insert_index < record_count
    BY <1>2 DEF Load, Next1
  <2> QED
    BY <1>1, <2>1, InsertKeeps
<1>3. CASE PerformInsert
  <2>1. Operate /\ InsertRecord(insert_index + 1) /\ operations' = operations + 1
        /\ operations < operation_count /\ insert_index >= record_count
    BY <1>3 DEF PerformInsert, Operate
  <2>2. insert_index \in Nat
    BY DEF WInv, Progress
  <2>3. InsertRecord(Next1) /\ ~(insert_index < record_count)
    BY <1>1, <2>1, <2>2 DEF Next1
  <2>4. operations' <= operation_count /\ operations' # operations
    BY <1>1, <2>1
  <2> QED
    BY <2>1, <2>3, <2>4, InsertKeeps
<1>4. CASE Proceed
  BY <1>4, ProceedKeeps
<1>5. ASSUME NEW r \in 1 .. record_count, PerformRead(r) \/ PerformUpdate(r) \/ PerformScan(r) \/ PerformDelete(r)
      PROVE  WInv' /\ [AsKVStore!Next]_(AsKVStore!vars)
  BY <1>5, PerformKeeps
<1>6. CASE UNCHANGED <<vars, workloadVars>>
  <2>1. IInv' /\ SeenInv' /\ UNCHANGED <<Contents, op, result>>
    BY <1>6, StutterKeeps, StutterKeepsSeen DEF WInv
  <2>2. UNCHANGED <<inverse, insert_index, operations, delete_operations, update_operations>>
    BY <1>6 DEF workloadVars
  <2>3. Progress'
    BY <2>2 DEF WInv, Progress
  <2>4. Present' = Present /\ \A r : Given(r)' = Given(r)
    BY <2>2 DEF Present, Records, Given
  <2>5. Follows(Contents, op)'
    BY <2>1, <2>4 DEF WInv, Follows, Agrees
  <2> QED
    BY <2>1, <2>3, <2>5 DEF WInv, AsKVStore!vars
<1> QED
  BY <1>2, <1>3, <1>4, <1>5, <1>6 DEF NextWorkload, Finished

LEMMA WorkloadBegins == InitWorkload => WInv /\ AsKVStore!Init
<1> SUFFICES ASSUME InitWorkload PROVE WInv /\ AsKVStore!Init
  OBVIOUS
<1>1. IInv /\ SeenInv /\ AsKVStore!Init /\ Contents = << >> /\ op = NoOp
  BY InitIInv, InitMaps DEF InitWorkload, AsKVStore!Init, Init
<1>2. inverse \in BOOLEAN /\ insert_index = 0 /\ operations = 0 /\ delete_operations = {} /\ update_operations = {}
  BY DEF InitWorkload
<1>3. Progress
  BY <1>2, CountsAssumption DEF Progress
<1>4. Present = {}
  <2>1. Records = {}
    BY <1>2, CountsAssumption DEF Records
  <2> QED
    BY <2>1 DEF Present
<1>5. Follows(Contents, op)
  BY <1>1, <1>4 DEF Follows, Agrees, NoOp
<1> QED
  BY <1>1, <1>3, <1>5 DEF WInv

(* The invariant of a workload.                                            *)
LEMMA WorkloadIsKept == WorkloadSpec => []WInv
<1>1. InitWorkload => WInv
  BY WorkloadBegins
<1>2. WInv /\ [NextWorkload]_<<vars, workloadVars>> => WInv'
  BY WorkloadKeeps
<1> QED
  BY <1>1, <1>2, PTL DEF WorkloadSpec

(* WritesAreSaved: no write of a workload is lost by an eviction, also     *)
(* when it scans from records that are gone.                               *)
THEOREM WorkloadSaves == WorkloadSpec => []WritesAreSaved
<1>1. WInv => WritesAreSaved
  BY IInvGivesSaved DEF WInv
<1> QED
  BY <1>1, WorkloadIsKept, PTL

(* ImplementsKVStore: what a workload sees of the tree is a map, in which  *)
(* a scan from a record that is gone may give up.                          *)
THEOREM WorkloadSeesMap == WorkloadSpec => ImplementsKVStore
<1>1. InitWorkload => WInv /\ AsKVStore!Init
  BY WorkloadBegins
<1>2. WInv /\ [NextWorkload]_<<vars, workloadVars>> => [AsKVStore!Next]_(AsKVStore!vars)
  BY WorkloadKeeps
<1> QED
  BY <1>1, <1>2, WorkloadIsKept, PTL DEF WorkloadSpec, ImplementsKVStore, AsKVStore!Spec

(* ValueOf and the map agree. *)
LEMMA ValueIs ==
  ASSUME IInv, Idle, NEW r \in Keys
  PROVE  ValueOf(r) = IF r \in DOMAIN Contents THEN Contents[r] ELSE Missing
<1>1. PICK lo, hi, h, k : AtRest(lo, hi, h, k)
  BY IdleRests
<1>2. /\ Labelled(lo, hi, h, 0, k) /\ Tree(pages, root_id, lo, hi, h, 0, k) /\ h[root_id] \in Nat
      /\ \A x \in DOMAIN pages : pages[x].inner <=> h[x] # 0
  BY <1>1, RestFacts
<1>3. r \in Int /\ -1 < r /\ r < Top /\ Top \in Int
  BY KeysAreInts, TopIsAbove
<1>4. PICK x \in DOMAIN pages : h[x] = 0 /\ lo[x] < r /\ r <= hi[x]
  <2>1. 0 \in 0 .. h[root_id] /\ r <= Top
    BY <1>2, <1>3
  <2> QED
    BY <1>2, <1>3, <2>1, LevelCovers
<1>5. x \in DOMAIN pages /\ ~pages[x].inner
  BY <1>2, <1>4
<1>6. LeafFor(r) = x
  BY <1>2, <1>3, <1>4, <1>5, LeafForKey
<1> DEFINE leaf == pages[x]
<1>7. leaf.keys \in Seq(Int) /\ Ascending(leaf.keys)
  BY <1>1, <1>5, RestFacts, LeafKeys
<1>8. IsMapOf(Contents, pages)
  BY ContentsAre
<1>9. CASE HasKey(leaf, r)
  <2> HIDE DEF leaf
  <2>1. PICK i \in 1 .. Len(leaf.keys) : leaf.keys[i] = r
    BY <1>3, <1>7, <1>9, HasKeyMeans
  <2>2. Position(leaf, r) = i
    BY <1>7, <2>1, PositionOfKey
  <2>3. HasEntry(leaf, r, leaf.values[i])
    BY <2>1 DEF HasEntry
  <2>4. Held(pages, r, leaf.values[i])
    BY <1>5, <2>3 DEF Held, leaf
  <2>5. r \in DOMAIN Contents /\ Contents[r] = leaf.values[i]
    BY <1>8, <2>4 DEF IsMapOf
  <2> QED
    BY <1>6, <1>9, <2>2, <2>5 DEF ValueOf, leaf
<1>10. CASE ~HasKey(leaf, r)
  <2>1. ASSUME r \in DOMAIN Contents PROVE FALSE
    <3>1. PICK v : Held(pages, r, v)
      BY <1>8, <2>1 DEF IsMapOf
    <3>2. PICK z \in DOMAIN pages : ~pages[z].inner /\ HasEntry(pages[z], r, v)
      BY <3>1 DEF Held
    <3>3. PICK i \in 1 .. Len(pages[z].keys) : pages[z].keys[i] = r
      BY <3>2 DEF HasEntry
    <3>4. z \in Outer /\ r \in Range(pages[z].keys)
      <4>1. DOMAIN pages[z].keys = 1 .. Len(pages[z].keys)
        BY <1>1, <3>2, RestFacts
      <4> QED
        BY <3>2, <3>3, <4>1 DEF Outer, Inner, Range
    <3>5. LeafFor(r) = z
      <4>1. op.kind # "delete"
        BY <1>2 DEF Labelled, Registers, Resting, Walking, ScanningOn, Inserting, Splitting, Deleting, Finding,
                    Balancing, BalancingPlaces, Idle, NoOp
      <4> QED
        BY <3>4, <4>1, IInvGivesFound DEF StoredKeysAreFound
    <3>6. pages[z] = leaf
      BY <1>6, <3>5
    <3> HIDE DEF leaf
    <3> QED
      BY <1>3, <1>7, <1>10, <3>3, <3>6, HasKeyMeans
  <2> QED
    BY <1>6, <1>10, <2>1 DEF ValueOf
<1> QED
  BY <1>9, <1>10

(* When a workload is done, the records that are left are those that were  *)
(* not deleted, each with the value it was given last.                     *)
LEMMA FinishedIsValid == WInv => ValidateFindsNoFault
<1> SUFFICES ASSUME WInv, Performed
             PROVE  faulty_records = {} /\ Validate(pages, Remaining)
  BY DEF ValidateFindsNoFault
<1>1. /\ IInv /\ Idle /\ insert_index >= record_count /\ insert_index \in Nat /\ operations = operation_count
      /\ insert_index <= record_count + operation_count /\ record_count \in Nat /\ operation_count \in Nat
      /\ delete_operations \subseteq 1 .. record_count
  BY CountsAssumption DEF WInv, Performed, Progress
<1>2. Agrees(Contents, {}) /\ StoredKeys = Present
  BY <1>1, IdleAgrees DEF Idle
<1>3. Records = 1 .. insert_index
  BY <1>1 DEF Records
<1>4. ASSUME NEW r \in 1 .. insert_index PROVE ValueOf(r) = Expected(r)
  <2>1. r \in Keys
    <3>1. r \in 1 .. record_count + operation_count
      BY <1>1
    <3> QED
      BY <3>1, RecordsAreKeys
  <2>2. ValueOf(r) = IF r \in DOMAIN Contents THEN Contents[r] ELSE Missing
    BY <1>1, <2>1, ValueIs
  <2>3. r \in Present <=> r \notin delete_operations
    BY <1>3 DEF Present
  <2>4. (r \in DOMAIN Contents <=> r \in Present) /\ (r \in Present => Contents[r] = Given(r))
    BY <1>2 DEF Agrees
  <2>5. CASE r \in delete_operations
    BY <2>2, <2>3, <2>4, <2>5 DEF Expected
  <2>6. CASE r \notin delete_operations /\ r \in update_operations
    BY <2>2, <2>3, <2>4, <2>6 DEF Expected, Given
  <2>7. CASE r \notin delete_operations /\ r \notin update_operations
    BY <2>2, <2>3, <2>4, <2>7 DEF Expected, Given
  <2> QED
    BY <2>5, <2>6, <2>7
<1>5. faulty_records = {}
  BY <1>4 DEF faulty_records
<1>6. Cardinality(StoredKeys) = Remaining
  <2> DEFINE I == 1 .. insert_index
             D == delete_operations
  <2>1. IsFiniteSet(I) /\ Cardinality(I) = insert_index
    <3>1. 1 \in Int /\ insert_index \in Int
      BY <1>1
    <3>2. IsFiniteSet(I) /\ Cardinality(I) = IF 1 > insert_index THEN 0 ELSE insert_index - 1 + 1
      BY <3>1, FS_Interval
    <3> HIDE DEF I
    <3> QED
      BY <1>1, <3>2
  <2>2. D \subseteq I
    BY <1>1
  <2>3. StoredKeys = I \ D
    BY <1>2, <1>3 DEF Present
  <2> HIDE DEF I, D
  <2>4. IsFiniteSet(I \ D) /\ Cardinality(I \ D) = Cardinality(I) - Cardinality(I \cap D)
    BY <2>1, FS_Difference
  <2>5. I \cap D = D
    BY <2>2
  <2> QED
    BY <2>1, <2>3, <2>4, <2>5 DEF Remaining, D
<1>7. Validate(pages, Cardinality(StoredKeys))
  BY <1>1, IInvGivesValid DEF ValidateAccepts
<1> QED
  BY <1>5, <1>6, <1>7

(* ValidateFindsNoFault: a workload of any length that loads any number of *)
(* records, forwards or backwards, and performs any operations on them, is *)
(* found without fault by its own validate(): no faulty record, and a      *)
(* balanced, ordered and linked tree of the entries that remain.           *)
THEOREM WorkloadIsValid == WorkloadSpec => []ValidateFindsNoFault
BY WorkloadIsKept, FinishedIsValid, PTL
=============================================================================
