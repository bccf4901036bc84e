------------------------ MODULE StorageManager_proofs ------------------------
(***************************************************************************)
(* The bitmap of the storage manager, for every bitmap size, every content *)
(* and every bound on the ids.                                             *)
(***************************************************************************)
EXTENDS StorageManager, TLAPS

(* The bitmap, without the claim about next_free_space: bit 0 stays clear. *)
BitmapOK ==
  /\ map_size \in Nat \ {0}
  /\ free_space_map \subseteq 1 .. map_size - 1
  /\ next_free_space \in Nat \ {0}

FileOK ==
  /\ current_page_count \in Nat
  /\ file \in [0 .. current_page_count - 1 -> Page]

(* find_next_free_space changes no id from free to used or back, even when *)
(* the bitmap grows, and answers with a free id.                           *)
LEMMA FindNextKeepsUsed ==
  ASSUME NEW free, NEW size \in Nat \ {0}, free \subseteq 1 .. size - 1,
         next_free_space \in Nat \ {0},
         FindNextFreeSpace(free, size)
  PROVE  /\ map_size' \in Nat \ {0} /\ map_size' >= size
         /\ free_space_map' \subseteq 1 .. map_size' - 1
         /\ (0 .. map_size' - 1) \ free_space_map' = (0 .. size - 1) \ free
         /\ next_free_space' \in free_space_map'
         /\ next_free_space' \in Nat \ {0}
PROOF
<1>1. CASE \E n \in {i \in free : i >= next_free_space} :
              /\ IsLeast(n, {i \in free : i >= next_free_space})
              /\ next_free_space' = n /\ free_space_map' = free /\ map_size' = size
  BY <1>1
<1>2. CASE /\ next_free_space' = size
           /\ free_space_map' = free \cup size .. (size + bitmap_increment - 1)
           /\ map_size' = size + bitmap_increment
  BY <1>2, BitmapIncrementAssumption
<1>. QED  BY <1>1, <1>2 DEF FindNextFreeSpace

(* It answers with the least free id, if no id below the old answer is     *)
(* free in the bitmap it is given.                                         *)
LEMMA FindNextFindsLeast ==
  ASSUME NEW free, NEW size \in Nat \ {0}, free \subseteq 1 .. size - 1,
         next_free_space \in Nat \ {0},
         \A i \in free : i >= next_free_space,
         FindNextFreeSpace(free, size)
  PROVE  NextFreeSpaceIsLeastFree'
PROOF
<1>1. {i \in free : i >= next_free_space} = free
  OBVIOUS
<1>2. CASE \E n \in free : /\ IsLeast(n, free) /\ next_free_space' = n
                           /\ free_space_map' = free
  BY <1>2 DEF NextFreeSpaceIsLeastFree, IsLeast
<1>3. CASE /\ free = {} /\ next_free_space' = size
           /\ free_space_map' = free \cup size .. (size + bitmap_increment - 1)
  BY <1>3, BitmapIncrementAssumption DEF NextFreeSpaceIsLeastFree, IsLeast
<1>. QED  BY <1>1, <1>2, <1>3 DEF FindNextFreeSpace

(* The growing loop of save_page never shrinks the bitmap. *)
LEMMA GrownSizeIsLarger ==
  ASSUME map_size \in Nat, NEW id \in Nat
  PROVE  GrownSize(id) \in Nat /\ GrownSize(id) >= map_size
PROOF
<1>1. CASE map_size > id
  BY <1>1 DEF GrownSize
<1>2. CASE ~(map_size > id)
  <2>1. (id - map_size) \div bitmap_increment \in Nat
    BY <1>2, BitmapIncrementAssumption
  <2>2. bitmap_increment * ((id - map_size) \div bitmap_increment + 1) \in Nat
    <3>. DEFINE q == (id - map_size) \div bitmap_increment
    <3>1. q + 1 \in Nat
      BY <2>1
    <3>. HIDE DEF q
    <3>2. bitmap_increment * (q + 1) \in Nat
      BY <3>1, BitmapIncrementAssumption
    <3>. QED  BY <3>2 DEF q
  <2>. QED  BY <1>2, <2>2 DEF GrownSize
<1>. QED  BY <1>1, <1>2

(* After the loop the bitmap has a bit for the page. *)
LEMMA GrownSizeCovers ==
  ASSUME map_size \in Nat, NEW id \in Nat
  PROVE  GrownSize(id) > id
PROOF
<1>1. CASE map_size > id
  BY <1>1 DEF GrownSize
<1>2. CASE ~(map_size > id)
  <2>. DEFINE n == id - map_size
              k == bitmap_increment
              q == n \div k
  <2>1. n \in Nat /\ k \in Nat \ {0}
    BY <1>2, BitmapIncrementAssumption
  <2>. HIDE DEF n, k
  <2>2. q \in Nat /\ n = k * q + (n % k) /\ n % k < k
    BY <2>1
  <2>. HIDE DEF q
  <2>3. k * (q + 1) = k * q + k
    BY <2>1, <2>2
  <2>4. k * (q + 1) > n
    BY <2>1, <2>2, <2>3
  <2>5. map_size + k * (q + 1) > id
    <3>. DEFINE grown == k * (q + 1)
    <3>1. grown \in Nat /\ grown > n
      BY <2>1, <2>2, <2>4
    <3>. HIDE DEF grown
    <3>2. map_size + grown > id
      BY <1>2, <3>1 DEF n
    <3>. QED  BY <3>2 DEF grown
  <2>. QED  BY <1>2, <2>5 DEF GrownSize, n, k, q
<1>. QED  BY <1>1, <1>2

-----------------------------------------------------------------------------
(* save_page writes the page at its position and disturbs no other page.   *)
LEMMA WritePageEffect ==
  ASSUME FileOK, NEW page \in Page, WritePage(page)
  PROVE  /\ FileOK'
         /\ page.page_id \in DOMAIN file' /\ file'[page.page_id] = page
         /\ \A j \in DOMAIN file \ {page.page_id} : j \in DOMAIN file' /\ file'[j] = file[j]
         /\ \A j \in DOMAIN file' \ DOMAIN file : file'[j] = page
PROOF
<1>. DEFINE id == page.page_id
<1>0. id \in Nat
  BY DEF Page
<1>1. CASE /\ current_page_count <= id
           /\ file' = [i \in 0 .. id |-> IF i < current_page_count THEN file[i] ELSE page]
           /\ current_page_count' = id + 1
  BY <1>0, <1>1 DEF FileOK
<1>2. CASE /\ current_page_count > id
           /\ file' = [file EXCEPT ![id] = page]
           /\ current_page_count' = current_page_count
  BY <1>0, <1>2 DEF FileOK
<1>. QED  BY <1>1, <1>2 DEF WritePage

(* The bitmap that save_page hands to find_next_free_space. *)
LEMMA SavedBitmap ==
  ASSUME BitmapOK, NEW id \in Nat,
         NEW size, size = GrownSize(id),
         NEW free, free = (free_space_map \cup map_size .. (size - 1)) \ {id}
  PROVE  size \in Nat \ {0} /\ free \subseteq 1 .. size - 1
PROOF
<1>1. size \in Nat /\ size >= map_size
  BY GrownSizeIsLarger DEF BitmapOK
<1>2. free_space_map \subseteq 1 .. size - 1
  BY <1>1 DEF BitmapOK
<1>3. map_size .. size - 1 \subseteq 1 .. size - 1
  BY <1>1 DEF BitmapOK
<1>4. size \in Nat \ {0}
  BY <1>1 DEF BitmapOK
<1>5. free \subseteq 1 .. size - 1
  BY <1>2, <1>3
<1>. QED  BY <1>4, <1>5

LEMMA SavePageEffect ==
  ASSUME BitmapOK, FileOK, NEW page \in Page, SavePage(page)
  PROVE  /\ BitmapOK' /\ next_free_space' \in free_space_map'
         /\ FileOK'
         /\ UsedIds' = UsedIds \cup {page.page_id}
         /\ page.page_id \in DOMAIN file' /\ file'[page.page_id] = page
         /\ \A j \in DOMAIN file \ {page.page_id} : j \in DOMAIN file' /\ file'[j] = file[j]
PROOF
<1>. DEFINE id == page.page_id
            size == GrownSize(id)
            free == (free_space_map \cup map_size .. (size - 1)) \ {id}
<1>1. id \in Nat
  BY DEF Page
<1>2. size \in Nat \ {0} /\ free \subseteq 1 .. size - 1
  BY <1>1, SavedBitmap
<1>3. FindNextFreeSpace(free, size) /\ WritePage(page)
  BY DEF SavePage
<1>4. (0 .. size - 1) \ free = UsedIds \cup {id}
  <2>1. size >= map_size /\ size > id
    BY <1>1, GrownSizeIsLarger, GrownSizeCovers DEF BitmapOK
  <2>. HIDE DEF size
  <2>. QED  BY <1>1, <1>2, <2>1 DEF UsedIds, BitmapOK
<1>. HIDE DEF size, free
<1>5. /\ map_size' \in Nat \ {0} /\ free_space_map' \subseteq 1 .. map_size' - 1
      /\ (0 .. map_size' - 1) \ free_space_map' = (0 .. size - 1) \ free
      /\ next_free_space' \in free_space_map' /\ next_free_space' \in Nat \ {0}
  BY <1>2, <1>3, FindNextKeepsUsed DEF BitmapOK
<1>. QED  BY <1>3, <1>4, <1>5, WritePageEffect DEF BitmapOK, UsedIds

(* get_unused_page_id answers with an id that was free and no longer is.   *)
LEMMA GetUnusedPageIdEffect ==
  ASSUME BitmapOK, next_free_space \in free_space_map, NEW id, GetUnusedPageId(id)
  PROVE  /\ id \in free_space_map /\ id \in Nat
         /\ BitmapOK' /\ next_free_space' \in free_space_map'
         /\ UsedIds' = UsedIds \cup {id}
         /\ UNCHANGED <<current_page_count, file>>
PROOF
<1>1. /\ id = next_free_space
      /\ FindNextFreeSpace(free_space_map \ {id}, map_size)
      /\ UNCHANGED <<current_page_count, file>>
  BY DEF GetUnusedPageId
<1>2. free_space_map \ {id} \subseteq 1 .. map_size - 1
  BY DEF BitmapOK
<1>3. /\ map_size' \in Nat \ {0} /\ free_space_map' \subseteq 1 .. map_size' - 1
      /\ (0 .. map_size' - 1) \ free_space_map' = (0 .. map_size - 1) \ (free_space_map \ {id})
      /\ next_free_space' \in free_space_map' /\ next_free_space' \in Nat \ {0}
  BY <1>1, <1>2, FindNextKeepsUsed DEF BitmapOK
<1>4. id \in 0 .. map_size - 1
  BY <1>1 DEF BitmapOK
<1>5. UsedIds' = UsedIds \cup {id}
  BY <1>1, <1>3, <1>4 DEF UsedIds
<1>. QED  BY <1>1, <1>3, <1>4, <1>5 DEF BitmapOK

-----------------------------------------------------------------------------
(* The inductive invariant of the storage manager on its own. *)
StorageInv == BitmapOK /\ NextFreeSpaceIsLeastFree /\ FileOK

LEMMA StorageInvInit == InitStorage => StorageInv
BY BitmapIncrementAssumption
DEF InitStorage, StorageInv, BitmapOK, FileOK, NextFreeSpaceIsLeastFree, IsLeast

LEMMA StorageInvNext == StorageInv /\ [NextStorage]_storageVars => StorageInv'
PROOF
<1>. SUFFICES ASSUME StorageInv, [NextStorage]_storageVars  PROVE StorageInv'
  OBVIOUS
<1>. USE DEF StorageInv
<1>0. \A i \in free_space_map : i >= next_free_space
  BY DEF NextFreeSpaceIsLeastFree, IsLeast, BitmapOK
<1>1. ASSUME NEW page \in [page_id : PageIds, data : Data], SavePage(page)
      PROVE  StorageInv'
  <2>. DEFINE id == page.page_id
              size == GrownSize(id)
              free == (free_space_map \cup map_size .. (size - 1)) \ {id}
  <2>1. page \in Page /\ id \in Nat
    BY MaxPageIdAssumption DEF PageIds, Page
  <2>2. size \in Nat \ {0} /\ free \subseteq 1 .. size - 1
    BY <2>1, SavedBitmap
  <2>3. \A i \in free : i >= next_free_space
    BY <1>0, <2>1, <2>2, GrownSizeIsLarger
    DEF BitmapOK, NextFreeSpaceIsLeastFree, IsLeast
  <2>4. FindNextFreeSpace(free, size)
    BY <1>1 DEF SavePage
  <2>. HIDE DEF size, free
  <2>5. NextFreeSpaceIsLeastFree'
    BY <2>2, <2>3, <2>4, FindNextFindsLeast DEF BitmapOK
  <2>. QED  BY <1>1, <2>1, <2>5, SavePageEffect
<1>2. ASSUME NEW id \in PageIds, GetUnusedPageId(id)
      PROVE  StorageInv'
  <2>1. BitmapOK' /\ UNCHANGED <<current_page_count, file>>
    BY <1>2, GetUnusedPageIdEffect DEF NextFreeSpaceIsLeastFree, IsLeast
  <2>2. /\ free_space_map \ {id} \subseteq 1 .. map_size - 1
        /\ \A i \in free_space_map \ {id} : i >= next_free_space
        /\ FindNextFreeSpace(free_space_map \ {id}, map_size)
    BY <1>0, <1>2 DEF BitmapOK, GetUnusedPageId
  <2>3. NextFreeSpaceIsLeastFree'
    BY <2>2, FindNextFindsLeast DEF BitmapOK
  <2>. QED  BY <2>1, <2>3 DEF FileOK
<1>3. ASSUME NEW id \in PageIds, DeletePageId(id)
      PROVE  StorageInv'
  BY <1>3, MaxPageIdAssumption
  DEF DeletePageId, BitmapOK, FileOK, NextFreeSpaceIsLeastFree, IsLeast, PageIds
<1>4. ASSUME UNCHANGED storageVars
      PROVE  StorageInv'
  BY <1>4 DEF storageVars, BitmapOK, FileOK, NextFreeSpaceIsLeastFree, IsLeast
<1>. QED  BY <1>1, <1>2, <1>3, <1>4 DEF NextStorage

(* The variables of the storage manager keep their types, and the file     *)
(* holds a page at every offset below current_page_count.                  *)
THEOREM StorageTypeCorrect == StorageSpec => []StorageTypeOK
PROOF
<1>1. StorageInv => StorageTypeOK
  BY DEF StorageInv, BitmapOK, FileOK, StorageTypeOK
<1>. QED  BY <1>1, StorageInvInit, StorageInvNext, PTL DEF StorageSpec

(* next_free_space, which is kept up by save_page, delete_page and         *)
(* get_unused_page_id, is always the least free id.                        *)
THEOREM NextFreeSpaceCorrect == StorageSpec => []NextFreeSpaceIsLeastFree
PROOF
<1>1. StorageInv => NextFreeSpaceIsLeastFree
  BY DEF StorageInv
<1>. QED  BY <1>1, StorageInvInit, StorageInvNext, PTL DEF StorageSpec

-----------------------------------------------------------------------------
LEMMA SaveImplementsSave ==
  ASSUME StorageInv, NEW page \in [page_id : PageIds, data : Data], SavePage(page)
  PROVE  AsPageFile!Save(page.page_id, page.data)
PROOF
<1>. DEFINE id == page.page_id
<1>1. page \in Page /\ id \in Nat
  BY MaxPageIdAssumption DEF PageIds, Page
<1>2. /\ FileOK' /\ UsedIds' = UsedIds \cup {id}
      /\ id \in DOMAIN file' /\ file'[id] = page
      /\ \A j \in DOMAIN file \ {id} : j \in DOMAIN file' /\ file'[j] = file[j]
      /\ \A j \in DOMAIN file' \ DOMAIN file : file'[j] = page
  BY <1>1, SavePageEffect, WritePageEffect DEF StorageInv, SavePage
<1>3. {j \in DOMAIN file' : file'[j].page_id = j}
        = {j \in DOMAIN file : file[j].page_id = j} \cup {id}
  <2>1. ASSUME NEW j \in DOMAIN file', file'[j].page_id = j
        PROVE  j = id \/ (j \in DOMAIN file /\ file[j].page_id = j)
    BY <1>2, <2>1
  <2>. QED  BY <1>2, <2>1
<1>4. \A i \in {j \in DOMAIN file : file[j].page_id = j} \ {id} : file'[i] = file[i]
  BY <1>2
<1>5. SavedPages' = [i \in DOMAIN SavedPages \cup {id} |->
                       IF i = id THEN page.data ELSE SavedPages[i]]
  BY <1>2, <1>3, <1>4 DEF SavedPages
<1>. QED  BY <1>2, <1>5 DEF AsPageFile!Save

(* A page that is saved reads back at once: save_page writes it where      *)
(* load_page will look for it, also beyond the end of the file.            *)
THEOREM SavedPagesReadBack == StorageSpec => SavesAreKept
PROOF
<1>. DEFINE Kept ==
       \A page \in [page_id : PageIds, data : Data] :
         SavePage(page) => /\ page.page_id \in DOMAIN SavedPages'
                           /\ SavedPages'[page.page_id] = page.data
<1>1. StorageInv => Kept
  <2>. SUFFICES ASSUME StorageInv, NEW page \in [page_id : PageIds, data : Data], SavePage(page)
                PROVE  /\ page.page_id \in DOMAIN SavedPages'
                       /\ SavedPages'[page.page_id] = page.data
    OBVIOUS
  <2>. QED  BY SaveImplementsSave DEF AsPageFile!Save
<1>2. StorageInv /\ [NextStorage]_storageVars => [Kept]_storageVars
  BY <1>1
<1>. QED  BY <1>2, StorageInvInit, StorageInvNext, PTL DEF StorageSpec, SavesAreKept

(* The storage manager is a set of used ids and a map from ids to the      *)
(* content last saved, whatever holes the file has and however the bitmap  *)
(* grew.                                                                   *)
THEOREM StorageImplementsPageFile == StorageSpec => ImplementsPageFile
PROOF
<1>1. InitStorage => AsPageFile!Init
  BY BitmapIncrementAssumption
  DEF InitStorage, AsPageFile!Init, UsedIds, SavedPages
<1>2. StorageInv /\ [NextStorage]_storageVars => [AsPageFile!Next]_(AsPageFile!vars)
  <2>. SUFFICES ASSUME StorageInv, [NextStorage]_storageVars
                PROVE  [AsPageFile!Next]_(AsPageFile!vars)
    OBVIOUS
  <2>1. ASSUME NEW page \in [page_id : PageIds, data : Data], SavePage(page)
        PROVE  AsPageFile!Next
    BY <2>1, SaveImplementsSave DEF AsPageFile!Next
  <2>2. ASSUME NEW id \in PageIds, GetUnusedPageId(id)
        PROVE  AsPageFile!Next
    <3>1. /\ id \in free_space_map /\ UsedIds' = UsedIds \cup {id}
          /\ UNCHANGED <<current_page_count, file>>
      BY <2>2, GetUnusedPageIdEffect DEF StorageInv, NextFreeSpaceIsLeastFree, IsLeast
    <3>2. SavedPages' = SavedPages
      BY <3>1 DEF SavedPages
    <3>. QED  BY <3>1, <3>2 DEF AsPageFile!Next, AsPageFile!Allocate, UsedIds
  <2>3. ASSUME NEW id \in PageIds, DeletePageId(id)
        PROVE  AsPageFile!Next
    <3>1. UsedIds' = UsedIds \ {id} /\ SavedPages' = SavedPages
      BY <2>3, MaxPageIdAssumption
      DEF DeletePageId, UsedIds, SavedPages, StorageInv, BitmapOK, PageIds
    <3>. QED  BY <3>1 DEF AsPageFile!Next, AsPageFile!Free
  <2>4. ASSUME UNCHANGED storageVars
        PROVE  UNCHANGED AsPageFile!vars
    BY <2>4 DEF storageVars, AsPageFile!vars, UsedIds, SavedPages
  <2>. QED  BY <2>1, <2>2, <2>3, <2>4 DEF NextStorage
<1>. QED  BY <1>1, <1>2, StorageInvInit, StorageInvNext, PTL
          DEF StorageSpec, ImplementsPageFile, AsPageFile!Spec
=============================================================================
