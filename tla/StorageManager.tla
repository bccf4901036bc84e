--------------------------- MODULE StorageManager ---------------------------
(***************************************************************************)
(* StorageManager (src/src/data/storage_manager.{h,cc}): the data file and *)
(* the bitmap that says which page ids are free.                           *)
(*                                                                         *)
(* The bitset is modelled by the set of its one bits and its size, the     *)
(* file by a function from positions (in pages) to pages.  The actions     *)
(* that BufferManager calls are SavePage, load_page (LoadFails, LoadedPage)*)
(* and GetUnusedPageId; DeletePageId is called by the unit tests only.     *)
(***************************************************************************)
EXTENDS Naturals

CONSTANTS Data,             \* the contents a page may have
          bitmap_increment, \* by how many bits the bitmap grows
          MaxPageId         \* bound: no larger id is handed out or saved

ASSUME BitmapIncrementAssumption == bitmap_increment \in Nat \ {0, 1}
ASSUME MaxPageIdAssumption == MaxPageId \in Nat

VARIABLES free_space_map,     \* the bits that are set: the free ids
          map_size,           \* free_space_map.size()
          next_free_space,
          current_page_count,
          file                \* 0 .. current_page_count - 1 -> Page

storageVars == <<free_space_map, map_size, next_free_space, current_page_count, file>>

PageIds == 1 .. MaxPageId

(* A page as it lies in memory or on disk: the id in its header, the rest. *)
Page == [page_id : Nat, data : Data]

IsLeast(n, S) == n \in S /\ \A m \in S : n <= m

-----------------------------------------------------------------------------
(* find_next_free_space() on a bitmap <<free, size>> that the caller has   *)
(* just changed.  find_next(n - 1) is the first one bit at n or above; if  *)
(* there is none the bitmap grows and the search restarts in the new part. *)
FindNextFreeSpace(free, size) ==
  LET candidates == {i \in free : i >= next_free_space} IN
  \/ /\ \E n \in candidates : IsLeast(n, candidates) /\ next_free_space' = n
     /\ free_space_map' = free
     /\ map_size' = size
  \/ /\ candidates = {}
     /\ next_free_space' = size
     /\ free_space_map' = free \cup size .. (size + bitmap_increment - 1)
     /\ map_size' = size + bitmap_increment

(* The constructor removes an old data file, so nothing survives a restart. *)
InitStorage ==
  /\ free_space_map = 1 .. (bitmap_increment - 1)
  /\ map_size = bitmap_increment
  /\ next_free_space = 1
  /\ current_page_count = 0
  /\ file = << >>

(* The size at which the growing loop of save_page stops. *)
GrownSize(id) ==
  IF map_size > id THEN map_size
  ELSE map_size + bitmap_increment * ((id - map_size) \div bitmap_increment + 1)

(* Mutants of WritePage: the new page count misses the page itself; one    *)
(* page is appended whatever the gap; the file is filled from its start.   *)
WritePage_ShortCount(page) ==
  /\ file' = [i \in 0 .. page.page_id \cup DOMAIN file |->
                IF i # page.page_id /\ i < current_page_count THEN file[i] ELSE page]
  /\ current_page_count' =
       IF current_page_count <= page.page_id THEN page.page_id ELSE current_page_count
WritePage_NoFill(page) ==
  LET at == IF current_page_count <= page.page_id THEN current_page_count
            ELSE page.page_id IN
  /\ file' = [i \in DOMAIN file \cup {at} |-> IF i = at THEN page ELSE file[i]]
  /\ current_page_count' =
       IF at = current_page_count THEN at + 1 ELSE current_page_count

WritePage_FromStart(page) ==
  \/ /\ current_page_count <= page.page_id
     /\ file' = [i \in 0 .. page.page_id |-> page]
     /\ current_page_count' = page.page_id + 1
  \/ /\ current_page_count > page.page_id
     /\ file' = [file EXCEPT ![page.page_id] = page]
     /\ UNCHANGED current_page_count

(* A page beyond the end is written once for every missing position: the   *)
(* holes hold copies of it until their own page is saved.                  *)
WritePage(page) ==
  \/ /\ current_page_count <= page.page_id
     /\ file' = [i \in 0 .. page.page_id |->
                   IF i < current_page_count THEN file[i] ELSE page]
     /\ current_page_count' = page.page_id + 1
  \/ /\ current_page_count > page.page_id
     /\ file' = [file EXCEPT ![page.page_id] = page]
     /\ UNCHANGED current_page_count

SavePage(page) ==
  LET size == GrownSize(page.page_id) IN
  /\ WritePage(page)
  /\ FindNextFreeSpace((free_space_map \cup map_size .. (size - 1)) \ {page.page_id},
                       size)

(* load_page either fills the caller's page or ends the process: the test  *)
(* on current_page_count lets page_id = current_page_count pass, and the   *)
(* read at the end of the file then fails.                                 *)
LoadFails(id) == id > current_page_count \/ id = current_page_count
LoadedPage(id) == file[id]

GetUnusedPageId(id) ==
  /\ id = next_free_space
  /\ FindNextFreeSpace(free_space_map \ {id}, map_size)
  /\ UNCHANGED <<current_page_count, file>>

(* Mutant of DeletePageId: next_free_space is not lowered. *)
DeletePageId_NextKept(id) ==
  /\ free_space_map' = IF map_size > id THEN free_space_map \cup {id} ELSE free_space_map
  /\ UNCHANGED <<map_size, next_free_space, current_page_count, file>>

DeletePageId(id) ==
  /\ free_space_map' = IF map_size > id THEN free_space_map \cup {id} ELSE free_space_map
  /\ next_free_space' = IF id < next_free_space THEN id ELSE next_free_space
  /\ UNCHANGED <<map_size, current_page_count, file>>

-----------------------------------------------------------------------------
(* The storage manager on its own, called as the unit tests call it: ids   *)
(* are saved in any order, also ids that were never handed out.            *)
NextStorage ==
  \/ \E page \in [page_id : PageIds, data : Data] : SavePage(page)
  \/ \E id \in PageIds : GetUnusedPageId(id)
  \/ \E id \in PageIds : DeletePageId(id)

StorageSpec == InitStorage /\ [][NextStorage]_storageVars

-----------------------------------------------------------------------------
UsedIds == (0 .. map_size - 1) \ free_space_map

StorageTypeOK ==
  /\ map_size \in Nat
  /\ free_space_map \subseteq 0 .. map_size - 1
  /\ next_free_space \in Nat
  /\ current_page_count \in Nat
  /\ file \in [0 .. current_page_count - 1 -> Page]

(* The cached next_free_space is always the least free id and lies inside  *)
(* the bitmap, whatever ids were saved, handed out or given back: this is  *)
(* what lets get_unused_page_id answer without a search.                   *)
NextFreeSpaceIsLeastFree == IsLeast(next_free_space, free_space_map)

(* Every id in use is handed out once, and each page reads back as it was  *)
(* last saved although holes were filled with copies of other pages: a     *)
(* position holds a saved page exactly when its header has that id.        *)
SavedPages == [i \in {j \in DOMAIN file : file[j].page_id = j} |-> file[i].data]

(* A page that is saved reads back at once, wherever the file ended before *)
(* (a file that ignores a save would still be a PageFile).                 *)
SavesAreKept ==
  [][\A page \in [page_id : PageIds, data : Data] :
       SavePage(page) => /\ page.page_id \in DOMAIN SavedPages'
                         /\ SavedPages'[page.page_id] = page.data]_storageVars

AsPageFile == INSTANCE PageFile WITH used <- UsedIds, saved <- SavedPages
ImplementsPageFile == AsPageFile!Spec
=============================================================================
