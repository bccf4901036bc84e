------------------------- MODULE BufferManager_proofs -------------------------
(***************************************************************************)
(* The buffer pool, for every number of frames, every bitmap size, every   *)
(* content and every bound on the ids.                                     *)
(*                                                                         *)
(* Inv is the inductive invariant.  What the runs check says nothing of a  *)
(* page that was evicted or deleted; Inv adds which header each frame of   *)
(* the map has (Identity), that a page without a frame is on disk          *)
(* (OnDisk), that ids never return to the bitmap (InUse), and what the     *)
(* call in progress may rely on (CallOK).                                  *)
(***************************************************************************)
EXTENDS BufferManager, StorageManager_proofs

StorageOK == BitmapOK /\ FileOK /\ next_free_space \in free_space_map

PoolTypes ==
  /\ DOMAIN page_id_map \subseteq PageIds
  /\ page_id_map \in [DOMAIN page_id_map -> Frames]
  /\ frames \in [Frames -> BFrame]
  /\ current_buffer_size \in 0 .. buffer_size
  /\ pc \in {"idle", "evict", "fill", "destroy"}
  /\ want \in 0 .. MaxPageId
  /\ frame \in 0 .. buffer_size
  /\ todo \subseteq PageIds
  /\ live \subseteq PageIds
  /\ DOMAIN held \subseteq PageIds
  /\ held \in [DOMAIN held -> Frames]
  /\ touched \subseteq PageIds

(* A frame of the map has the header of its page, or was emptied. *)
Identity ==
  \A id \in DOMAIN page_id_map :
    LET f == frames[page_id_map[id]] IN
    /\ id \in live => f.header.page_id = id
    /\ id \notin live => f.header.page_id = 0 /\ ~f.dirty

Fixing ==
  /\ DOMAIN held \subseteq live
  /\ touched \subseteq DOMAIN held
  /\ \A id \in DOMAIN held : id \in DOMAIN page_id_map /\ page_id_map[id] = held[id]
  /\ \A id \in DOMAIN page_id_map :
       frames[page_id_map[id]].fix_count = IF id \in DOMAIN held THEN 1 ELSE 0

InUse == live \subseteq UsedIds /\ DOMAIN page_id_map \subseteq UsedIds

IsOnDisk(id) == id \in DOMAIN file /\ file[id].page_id = id
HeaderOnDisk(id) == id \in DOMAIN file /\ file[id] = frames[page_id_map[id]].header

OnDisk ==
  /\ \A id \in live \ DOMAIN page_id_map : IsOnDisk(id)
  /\ \A id \in live \cap DOMAIN page_id_map :
       ~frames[page_id_map[id]].dirty /\ id \notin touched => HeaderOnDisk(id)

CallOK ==
  /\ pc = "idle" => want = 0 /\ frame = 0
  /\ pc = "evict" => frame = 0
  /\ pc = "fill" => frame \in 1 .. current_buffer_size
  /\ pc = "destroy" => want = 0 /\ frame = 0 /\ touched = {} /\ todo \subseteq DOMAIN page_id_map
  /\ want # 0 => want \in live \ DOMAIN page_id_map

(* destroy() has written back the pages it has visited. *)
Flushed ==
  pc = "destroy" => \A id \in (live \cap DOMAIN page_id_map) \ todo : HeaderOnDisk(id)

Inv == /\ StorageOK /\ PoolTypes /\ FramesAreAccountedFor /\ Identity /\ Fixing
       /\ InUse /\ OnDisk /\ CallOK /\ Flushed

LEMMA InitInv == Init => Inv
PROOF
<1>. SUFFICES ASSUME Init  PROVE Inv
  OBVIOUS
<1>1. StorageOK
  BY StorageInvInit
  DEF Init, StorageOK, StorageInv, NextFreeSpaceIsLeastFree, IsLeast
<1>2. frames \in [Frames -> BFrame]
  <2>. DEFINE Blank == [fix_count : {0}, dirty : {FALSE}, marked : {FALSE},
                        header : [page_id : {0}, data : Data]]
  <2>1. ASSUME NEW b \in Blank  PROVE b \in BFrame
    <3>. DEFINE h == b.header
    <3>1. h \in Page
      BY DEF Page
    <3>2. b = [fix_count |-> 0, dirty |-> FALSE, marked |-> FALSE, header |-> h]
      OBVIOUS
    <3>. HIDE DEF h
    <3>3. [fix_count |-> 0, dirty |-> FALSE, marked |-> FALSE, header |-> h] \in BFrame
      BY <3>1 DEF BFrame
    <3>. QED  BY <3>2, <3>3
  <2>2. frames \in [Frames -> Blank]
    BY DEF Init
  <2>. HIDE DEF Blank
  <2>. QED  BY <2>1, <2>2
<1>3. DOMAIN page_id_map = {} /\ DOMAIN held = {} /\ live = {}
  BY DEF Init
<1>4. PoolTypes
  BY <1>2, <1>3, BufferSizeAssumption, MaxPageIdAssumption DEF Init, PoolTypes
<1>5. FramesAreAccountedFor
  BY <1>3 DEF Init, FramesAreAccountedFor
<1>6. Identity /\ Fixing /\ InUse /\ OnDisk
  BY <1>3 DEF Init, Identity, Fixing, InUse, OnDisk
<1>7. CallOK /\ Flushed
  BY <1>3 DEF Init, CallOK, Flushed
<1>. QED  BY <1>1, <1>4, <1>5, <1>6, <1>7 DEF Inv

LEMMA StutterInv == Inv /\ UNCHANGED vars => Inv'
BY DEF vars, storageVars, poolVars, callVars, clientVars, Inv, StorageOK, PoolTypes,
    FramesAreAccountedFor, Identity, Fixing, InUse, OnDisk, CallOK, Flushed, BitmapOK,
    FileOK, UsedIds, IsOnDisk, HeaderOnDisk

(* Writing back a frame of the map whose page is not being written: the    *)
(* page is on disk, and no other page of the file changes.                 *)
LEMMA WriteBackEffect ==
  ASSUME Inv, NEW id \in DOMAIN page_id_map, id \notin touched,
         WriteBack(page_id_map[id])
  PROVE  /\ StorageOK' /\ UsedIds' = UsedIds
         /\ \A j \in DOMAIN file \ {id} : j \in DOMAIN file' /\ file'[j] = file[j]
         /\ id \in live => /\ id \in DOMAIN file'
                           /\ file'[id] = frames[page_id_map[id]].header
PROOF
<1>. DEFINE f == frames[page_id_map[id]]
<1>1. f \in BFrame /\ f.header \in Page
  BY DEF Inv, PoolTypes, BFrame
<1>2. CASE f.dirty
  <2>1. id \in live /\ f.header.page_id = id /\ id \in UsedIds
    BY <1>2 DEF Inv, Identity, InUse
  <2>2. SavePage(f.header)
    BY <1>2 DEF WriteBack
  <2>3. /\ BitmapOK' /\ next_free_space' \in free_space_map' /\ FileOK'
        /\ UsedIds' = UsedIds \cup {id}
        /\ id \in DOMAIN file' /\ file'[id] = f.header
        /\ \A j \in DOMAIN file \ {id} : j \in DOMAIN file' /\ file'[j] = file[j]
    BY <1>1, <2>1, <2>2, SavePageEffect DEF Inv, StorageOK
  <2>. QED  BY <2>1, <2>3 DEF StorageOK
<1>3. CASE ~f.dirty
  <2>1. UNCHANGED storageVars
    BY <1>3 DEF WriteBack
  <2>2. id \in live => id \in DOMAIN file /\ file[id] = f.header
    BY <1>3 DEF Inv, OnDisk, HeaderOnDisk
  <2>. QED  BY <2>1, <2>2 DEF Inv, StorageOK, BitmapOK, FileOK, UsedIds, storageVars
<1>. QED  BY <1>2, <1>3

-----------------------------------------------------------------------------
LEMMA NeedFrameInv ==
  ASSUME Inv, pc = "idle", NEW id \in 0 .. MaxPageId, NeedFrame(id),
         id # 0 => id \in live \ DOMAIN page_id_map
  PROVE  Inv'
PROOF
<1>1. UNCHANGED <<storageVars, page_id_map, frames, todo, clientVars>> /\ want' = id
  BY DEF NeedFrame
<1>2. CASE /\ current_buffer_size >= buffer_size /\ pc' = "evict"
           /\ UNCHANGED <<current_buffer_size, frame>>
  BY <1>1, <1>2
  DEF storageVars, clientVars, Inv, StorageOK, PoolTypes, FramesAreAccountedFor, Identity,
      Fixing, InUse, OnDisk, CallOK, Flushed, BitmapOK, FileOK, UsedIds, IsOnDisk, HeaderOnDisk
<1>3. CASE /\ current_buffer_size < buffer_size /\ pc' = "fill"
           /\ frame' = current_buffer_size + 1
           /\ current_buffer_size' = current_buffer_size + 1
  <2>1. PoolTypes'
    BY <1>1, <1>3, BufferSizeAssumption DEF Inv, PoolTypes, clientVars
  <2>2. FramesAreAccountedFor'
    <3>1. frame = 0 /\ {page_id_map[i] : i \in DOMAIN page_id_map} = 1 .. current_buffer_size
      BY DEF Inv, CallOK, FramesAreAccountedFor
    <3>2. 1 .. current_buffer_size' = 1 .. current_buffer_size \cup {frame'}
      BY <1>3 DEF Inv, PoolTypes
    <3>3. frame' # 0 /\ \A i \in DOMAIN page_id_map : page_id_map[i] # frame'
      BY <1>3, <3>1 DEF Inv, PoolTypes
    <3>. QED  BY <1>1, <3>1, <3>2, <3>3 DEF FramesAreAccountedFor, Inv
  <2>3. CallOK'
    BY <1>1, <1>3 DEF Inv, CallOK, PoolTypes, clientVars
  <2>. QED  BY <1>1, <1>3, <2>1, <2>2, <2>3
       DEF storageVars, clientVars, Inv, StorageOK, Identity, Fixing, InUse, OnDisk, Flushed,
           BitmapOK, FileOK, UsedIds, IsOnDisk, HeaderOnDisk
<1>. QED  BY <1>2, <1>3 DEF NeedFrame

(* Fixing a frame that is not fixed; unfixing one that is fixed once. *)
LEMMA FixedFrameIsFrame ==
  ASSUME PoolTypes, NEW f \in Frames, frames[f].fix_count = 0
  PROVE  /\ FixedFrame(f) \in BFrame /\ FixedFrame(f).fix_count = 1
         /\ FixedFrame(f).header = frames[f].header
         /\ FixedFrame(f).dirty = frames[f].dirty
PROOF
<1>. DEFINE count == frames[f].fix_count + 1
<1>1. frames[f] \in BFrame /\ count = 1
  BY DEF PoolTypes
<1>. HIDE DEF count
<1>2. [frames[f] EXCEPT !.fix_count = count, !.marked = TRUE] \in BFrame
  BY <1>1 DEF BFrame
<1>3. FixedFrame(f) = [frames[f] EXCEPT !.fix_count = count, !.marked = TRUE]
  BY DEF FixedFrame, count
<1>. QED  BY <1>1, <1>2, <1>3 DEF BFrame

LEMMA UnfixedFrameIsFrame ==
  ASSUME PoolTypes, NEW f \in Frames, frames[f].fix_count = 1, NEW dirty \in BOOLEAN
  PROVE  /\ UnfixedFrame(f, dirty) \in BFrame /\ UnfixedFrame(f, dirty).fix_count = 0
         /\ UnfixedFrame(f, dirty).header = frames[f].header
         /\ UnfixedFrame(f, dirty).dirty = (frames[f].dirty \/ dirty)
PROOF
<1>. DEFINE count == frames[f].fix_count - 1
            flag == frames[f].dirty \/ dirty
<1>1. frames[f] \in BFrame /\ count = 0
  BY DEF PoolTypes
<1>2. flag \in BOOLEAN
  BY <1>1 DEF BFrame
<1>. HIDE DEF count, flag
<1>3. /\ [frames[f] EXCEPT !.fix_count = count, !.dirty = flag] \in BFrame
      /\ [frames[f] EXCEPT !.fix_count = count, !.dirty = flag].fix_count = 0
      /\ [frames[f] EXCEPT !.fix_count = count, !.dirty = flag].dirty = flag
      /\ [frames[f] EXCEPT !.fix_count = count, !.dirty = flag].header = frames[f].header
  BY <1>1, <1>2 DEF BFrame
<1>4. UnfixedFrame(f, dirty) = [frames[f] EXCEPT !.fix_count = count, !.dirty = flag]
  BY DEF UnfixedFrame, count, flag
<1>. QED  BY <1>3, <1>4 DEF flag

LEMMA RequestPageInv ==
  ASSUME Inv, NEW id \in PageIds, RequestPage(id)
  PROVE  Inv'
PROOF
<1>. DEFINE f == page_id_map[id]
<1>1. /\ pc = "idle" /\ id \in live \ DOMAIN held /\ id \in DOMAIN page_id_map
      /\ frames' = [frames EXCEPT ![f] = FixedFrame(f)]
      /\ held' = [i \in DOMAIN held \cup {id} |-> IF i = id THEN f ELSE held[i]]
      /\ UNCHANGED <<storageVars, page_id_map, current_buffer_size, callVars, live, touched>>
  BY DEF RequestPage, Hold
<1>2. /\ f \in Frames /\ frames[f].fix_count = 0
      /\ \A i \in DOMAIN page_id_map \ {id} : page_id_map[i] # f
  BY <1>1 DEF Inv, PoolTypes, Fixing, FramesAreAccountedFor
<1>3. /\ frames' \in [Frames -> BFrame]
      /\ frames'[f].fix_count = 1
      /\ \A g \in Frames : /\ frames'[g].header = frames[g].header
                           /\ frames'[g].dirty = frames[g].dirty
                           /\ g # f => frames'[g] = frames[g]
  BY <1>1, <1>2, FixedFrameIsFrame DEF Inv, PoolTypes
<1>4. PoolTypes'
  BY <1>1, <1>2, <1>3 DEF Inv, PoolTypes, callVars
<1>5. Fixing'
  BY <1>1, <1>2, <1>3 DEF Inv, Fixing, PoolTypes
<1>6. Identity' /\ OnDisk'
  BY <1>1, <1>3 DEF Inv, Identity, OnDisk, PoolTypes, IsOnDisk, HeaderOnDisk, storageVars
<1>. QED  BY <1>1, <1>4, <1>5, <1>6
     DEF storageVars, callVars, Inv, StorageOK, FramesAreAccountedFor, InUse, CallOK, Flushed,
         BitmapOK, FileOK, UsedIds

LEMMA EvictUnmarkInv ==
  ASSUME Inv, NEW id \in PageIds, EvictUnmark(id)
  PROVE  Inv'
PROOF
<1>. DEFINE f == page_id_map[id]
<1>1. /\ pc = "evict" /\ id \in DOMAIN page_id_map
      /\ frames' = [frames EXCEPT ![f].marked = FALSE]
      /\ UNCHANGED <<storageVars, page_id_map, current_buffer_size, callVars, clientVars>>
  BY DEF EvictUnmark
<1>2. /\ frames' \in [Frames -> BFrame]
      /\ \A g \in Frames : /\ frames'[g].header = frames[g].header
                           /\ frames'[g].dirty = frames[g].dirty
                           /\ frames'[g].fix_count = frames[g].fix_count
  <2>1. frames \in [Frames -> BFrame] /\ f \in Frames
    BY <1>1 DEF Inv, PoolTypes
  <2>2. [frames[f] EXCEPT !.marked = FALSE] \in BFrame
    BY <2>1 DEF BFrame
  <2>. HIDE DEF f
  <2>3. frames' = [frames EXCEPT ![f] = [frames[f] EXCEPT !.marked = FALSE]]
    BY <1>1, <2>1
  <2>4. /\ [frames[f] EXCEPT !.marked = FALSE].header = frames[f].header
        /\ [frames[f] EXCEPT !.marked = FALSE].dirty = frames[f].dirty
        /\ [frames[f] EXCEPT !.marked = FALSE].fix_count = frames[f].fix_count
    BY <2>1 DEF BFrame
  <2>. QED  BY <2>1, <2>2, <2>3, <2>4
<1>3. Identity' /\ OnDisk' /\ Fixing'
  BY <1>1, <1>2
  DEF Inv, Identity, OnDisk, Fixing, PoolTypes, IsOnDisk, HeaderOnDisk, storageVars, clientVars
<1>. QED  BY <1>1, <1>2, <1>3
     DEF storageVars, callVars, clientVars, Inv, PoolTypes, StorageOK, FramesAreAccountedFor,
         InUse, CallOK, Flushed, BitmapOK, FileOK, UsedIds

LEMMA EvictTakeInv ==
  ASSUME Inv, NEW id \in PageIds, EvictTake(id)
  PROVE  Inv'
PROOF
<1>. DEFINE f == page_id_map[id]
<1>1. /\ pc = "evict" /\ id \in DOMAIN page_id_map /\ frames[f].fix_count = 0
      /\ WriteBack(f) /\ frame' = f /\ pc' = "fill"
      /\ page_id_map' = [i \in DOMAIN page_id_map \ {id} |-> page_id_map[i]]
      /\ UNCHANGED <<frames, current_buffer_size, want, todo, clientVars>>
  BY DEF EvictTake, Evictable
<1>2. id \notin DOMAIN held /\ id \notin touched
  BY <1>1 DEF Inv, Fixing
<1>3. /\ StorageOK' /\ UsedIds' = UsedIds
      /\ \A j \in DOMAIN file \ {id} : j \in DOMAIN file' /\ file'[j] = file[j]
      /\ id \in live => id \in DOMAIN file' /\ file'[id] = frames[f].header
  BY <1>1, <1>2, WriteBackEffect
<1>4. PoolTypes'
  BY <1>1 DEF Inv, PoolTypes, Frames, clientVars
<1>5. FramesAreAccountedFor'
  BY <1>1 DEF Inv, FramesAreAccountedFor, CallOK, PoolTypes, Frames
<1>6. Identity' /\ Fixing' /\ InUse'
  BY <1>1, <1>2, <1>3 DEF Inv, Identity, Fixing, InUse, clientVars
<1>7. OnDisk'
  <2>1. ASSUME NEW i \in live \ DOMAIN page_id_map'
        PROVE  i \in DOMAIN file' /\ file'[i].page_id = i
    BY <1>1, <1>3, <2>1 DEF Inv, Identity, OnDisk, IsOnDisk
  <2>2. ASSUME NEW i \in live \cap DOMAIN page_id_map',
               ~frames[page_id_map[i]].dirty, i \notin touched
        PROVE  i \in DOMAIN file' /\ file'[i] = frames[page_id_map[i]].header
    BY <1>1, <1>3, <2>2 DEF Inv, OnDisk, HeaderOnDisk
  <2>. QED  BY <1>1, <2>1, <2>2 DEF OnDisk, IsOnDisk, HeaderOnDisk, clientVars
<1>8. CallOK' /\ Flushed'
  BY <1>1, <1>4 DEF Inv, CallOK, Flushed, PoolTypes, FramesAreAccountedFor, clientVars
<1>. QED  BY <1>3, <1>4, <1>5, <1>6, <1>7, <1>8 DEF Inv

LEMMA FetchPageInv ==
  ASSUME Inv, FetchPage
  PROVE  Inv'
PROOF
<1>. DEFINE new == [fix_count |-> 1, dirty |-> FALSE, marked |-> TRUE, header |-> file[want]]
<1>1. /\ pc = "fill" /\ want # 0 /\ pc' = "idle" /\ want' = 0 /\ frame' = 0
      /\ frames' = [frames EXCEPT ![frame] = new]
      /\ page_id_map' = Emplaced(want, frame)
      /\ held' = [i \in DOMAIN held \cup {want} |-> IF i = want THEN frame ELSE held[i]]
      /\ UNCHANGED <<storageVars, current_buffer_size, todo, live, touched>>
  BY DEF FetchPage, LoadedPage, Hold
<1>2. /\ want \in live \ DOMAIN page_id_map /\ frame \in 1 .. current_buffer_size
      /\ want \in DOMAIN file /\ file[want].page_id = want /\ want \notin DOMAIN held
      /\ frame \in Frames
  BY <1>1 DEF Inv, CallOK, OnDisk, IsOnDisk, Fixing, PoolTypes, Frames
<1>3. new \in BFrame
  <2>1. file[want] \in Page
    BY <1>2 DEF Inv, StorageOK, FileOK
  <2>. QED  BY <2>1 DEF BFrame
<1>4. /\ DOMAIN page_id_map' = DOMAIN page_id_map \cup {want} /\ page_id_map'[want] = frame
      /\ \A i \in DOMAIN page_id_map : page_id_map'[i] = page_id_map[i]
      /\ page_id_map' \in [DOMAIN page_id_map' -> Frames]
  BY <1>1, <1>2 DEF Emplaced, Inv, PoolTypes
<1>5. /\ frames' \in [Frames -> BFrame] /\ frames'[frame] = new
      /\ \A g \in Frames \ {frame} : frames'[g] = frames[g]
  BY <1>1, <1>2, <1>3 DEF Inv, PoolTypes
<1>6. \A i \in DOMAIN page_id_map : page_id_map[i] \in Frames \ {frame}
  BY DEF Inv, PoolTypes, FramesAreAccountedFor
<1>. HIDE DEF new
<1>7. PoolTypes'
  <2>1. DOMAIN held' \subseteq PageIds /\ held' \in [DOMAIN held' -> Frames]
    BY <1>1, <1>2 DEF Inv, PoolTypes
  <2>2. want' \in 0 .. MaxPageId /\ frame' \in 0 .. buffer_size
    BY <1>1, MaxPageIdAssumption, BufferSizeAssumption
  <2>. QED  BY <1>1, <1>2, <1>4, <1>5, <2>1, <2>2 DEF Inv, PoolTypes
<1>8. FramesAreAccountedFor'
  BY <1>1, <1>2, <1>4, <1>6 DEF Inv, FramesAreAccountedFor, Frames
<1>9. Identity' /\ Fixing' /\ InUse'
  BY <1>1, <1>2, <1>4, <1>5, <1>6
  DEF Inv, Identity, Fixing, InUse, PoolTypes, storageVars, UsedIds, new
<1>10. OnDisk'
  BY <1>1, <1>2, <1>4, <1>5, <1>6
  DEF Inv, OnDisk, IsOnDisk, HeaderOnDisk, storageVars, new
<1>11. StorageOK' /\ CallOK' /\ Flushed'
  BY <1>1 DEF Inv, StorageOK, BitmapOK, FileOK, CallOK, Flushed, storageVars
<1>. QED  BY <1>7, <1>8, <1>9, <1>10, <1>11 DEF Inv

LEMMA FillNewPageInv ==
  ASSUME Inv, FillNewPage
  PROVE  Inv'
PROOF
<1>1. PICK id \in PageIds :
        /\ GetUnusedPageId(id)
        /\ frames' = [frames EXCEPT ![frame] = NewFrame(frame, id)]
        /\ page_id_map' = Emplaced(id, frame)
        /\ held' = [i \in DOMAIN held \cup {id} |-> IF i = id THEN frame ELSE held[i]]
        /\ live' = live \cup {id}
  BY DEF FillNewPage, Hold
<1>2. /\ pc = "fill" /\ want = 0 /\ pc' = "idle" /\ frame' = 0
      /\ UNCHANGED <<current_buffer_size, want, todo, touched>>
  BY DEF FillNewPage
<1>3. /\ id \in free_space_map /\ BitmapOK' /\ next_free_space' \in free_space_map'
      /\ UsedIds' = UsedIds \cup {id} /\ UNCHANGED <<current_page_count, file>>
  BY <1>1, GetUnusedPageIdEffect DEF Inv, StorageOK
<1>4. id \notin live /\ id \notin DOMAIN page_id_map /\ id \notin DOMAIN held /\ id # 0
  BY <1>3 DEF Inv, InUse, UsedIds, Fixing, StorageOK, BitmapOK
<1>5. frame \in 1 .. current_buffer_size /\ frame \in Frames
  BY <1>2 DEF Inv, CallOK, PoolTypes, Frames
<1>6. /\ NewFrame(frame, id) \in BFrame /\ NewFrame(frame, id).fix_count = 1
      /\ NewFrame(frame, id).dirty = TRUE /\ NewFrame(frame, id).header.page_id = id
  <2>. DEFINE h == [frames[frame].header EXCEPT !.page_id = id]
  <2>1. h \in Page /\ h.page_id = id
    BY <1>5, MaxPageIdAssumption DEF Inv, PoolTypes, BFrame, Page, PageIds
  <2>. HIDE DEF h
  <2>2. [fix_count |-> 1, dirty |-> TRUE, marked |-> TRUE, header |-> h] \in BFrame
    BY <2>1 DEF BFrame
  <2>3. NewFrame(frame, id)
          = [fix_count |-> 1, dirty |-> TRUE, marked |-> TRUE, header |-> h]
    BY DEF NewFrame, h
  <2>. QED  BY <2>1, <2>2, <2>3
<1>7. /\ DOMAIN page_id_map' = DOMAIN page_id_map \cup {id} /\ page_id_map'[id] = frame
      /\ \A i \in DOMAIN page_id_map : page_id_map'[i] = page_id_map[i]
      /\ page_id_map' \in [DOMAIN page_id_map' -> Frames]
  BY <1>1, <1>4, <1>5 DEF Emplaced, Inv, PoolTypes
<1>8. /\ frames' \in [Frames -> BFrame] /\ frames'[frame] = NewFrame(frame, id)
      /\ \A g \in Frames \ {frame} : frames'[g] = frames[g]
  BY <1>1, <1>5, <1>6 DEF Inv, PoolTypes
<1>9. \A i \in DOMAIN page_id_map : page_id_map[i] \in Frames \ {frame}
  BY DEF Inv, PoolTypes, FramesAreAccountedFor
<1>10. PoolTypes'
  <2>1. DOMAIN held' \subseteq PageIds /\ held' \in [DOMAIN held' -> Frames]
    BY <1>1, <1>5 DEF Inv, PoolTypes
  <2>2. frame' \in 0 .. buffer_size
    BY <1>2, BufferSizeAssumption
  <2>. QED  BY <1>1, <1>2, <1>7, <1>8, <2>1, <2>2 DEF Inv, PoolTypes
<1>11. FramesAreAccountedFor'
  BY <1>1, <1>2, <1>5, <1>7, <1>9 DEF Inv, FramesAreAccountedFor, Frames
<1>12. Identity' /\ InUse'
  BY <1>1, <1>3, <1>4, <1>6, <1>7, <1>8, <1>9 DEF Inv, Identity, InUse, PoolTypes
<1>13. Fixing'
  BY <1>1, <1>2, <1>4, <1>6, <1>7, <1>8, <1>9 DEF Inv, Fixing, PoolTypes
<1>14. OnDisk'
  BY <1>1, <1>2, <1>3, <1>4, <1>6, <1>7, <1>8, <1>9
  DEF Inv, OnDisk, IsOnDisk, HeaderOnDisk
<1>15. StorageOK' /\ CallOK' /\ Flushed'
  BY <1>2, <1>3 DEF Inv, StorageOK, FileOK, CallOK, Flushed
<1>. QED  BY <1>10, <1>11, <1>12, <1>13, <1>14, <1>15 DEF Inv

LEMMA WriteInv ==
  ASSUME Inv, NEW id \in PageIds, NEW d \in Data, Write(id, d)
  PROVE  Inv'
PROOF
<1>. DEFINE f == held[id]
<1>1. /\ pc = "idle" /\ id \in DOMAIN held
      /\ frames' = [frames EXCEPT ![f].header.data = d]
      /\ touched' = IF frames[f].dirty THEN touched ELSE touched \cup {id}
      /\ UNCHANGED <<storageVars, page_id_map, current_buffer_size, callVars, live, held>>
  BY DEF Write
<1>2. /\ f \in Frames /\ id \in live /\ id \in DOMAIN page_id_map /\ page_id_map[id] = f
      /\ \A i \in DOMAIN page_id_map \ {id} : page_id_map[i] # f
  BY <1>1 DEF Inv, PoolTypes, Fixing, FramesAreAccountedFor
<1>3. /\ frames' \in [Frames -> BFrame]
      /\ frames'[f].header.page_id = frames[f].header.page_id
      /\ \A g \in Frames : /\ frames'[g].dirty = frames[g].dirty
                           /\ frames'[g].fix_count = frames[g].fix_count
                           /\ g # f => frames'[g] = frames[g]
  <2>1. frames[f] \in BFrame /\ frames[f].header \in Page
    BY <1>2 DEF Inv, PoolTypes, BFrame
  <2>. DEFINE h == [frames[f].header EXCEPT !.data = d]
              new == [frames[f] EXCEPT !.header = h]
  <2>2. h \in Page /\ h.page_id = frames[f].header.page_id
    BY <2>1 DEF Page
  <2>3. frames' = [frames EXCEPT ![f] = new]
    BY <1>1
  <2>. HIDE DEF h
  <2>4. /\ new \in BFrame /\ new.header = h /\ new.dirty = frames[f].dirty
        /\ new.fix_count = frames[f].fix_count
    BY <2>1, <2>2 DEF BFrame
  <2>. HIDE DEF new
  <2>. QED  BY <1>2, <2>2, <2>3, <2>4 DEF Inv, PoolTypes
<1>4. PoolTypes'
  BY <1>1, <1>3 DEF Inv, PoolTypes, callVars
<1>5. Identity' /\ Fixing'
  BY <1>1, <1>2, <1>3 DEF Inv, Identity, Fixing, PoolTypes
<1>6. OnDisk'
  BY <1>1, <1>2, <1>3
  DEF Inv, OnDisk, IsOnDisk, HeaderOnDisk, PoolTypes, storageVars
<1>7. CallOK' /\ Flushed'
  BY <1>1 DEF Inv, CallOK, Flushed, callVars
<1>. QED  BY <1>1, <1>4, <1>5, <1>6, <1>7
     DEF Inv, StorageOK, FramesAreAccountedFor, InUse, BitmapOK, FileOK, UsedIds,
         storageVars, callVars

LEMMA MarkDirtyInv ==
  ASSUME Inv, NEW id \in PageIds, MarkDirty(id)
  PROVE  Inv'
PROOF
<1>. DEFINE f == page_id_map[id]
<1>1. /\ pc = "idle" /\ id \in DOMAIN held /\ id \in DOMAIN page_id_map
      /\ frames' = [frames EXCEPT ![f].dirty = TRUE]
      /\ touched' = touched \ {id}
      /\ UNCHANGED <<storageVars, page_id_map, current_buffer_size, callVars, live, held>>
  BY DEF MarkDirty
<1>2. /\ f \in Frames /\ id \in live
      /\ \A i \in DOMAIN page_id_map \ {id} : page_id_map[i] # f
  BY <1>1 DEF Inv, PoolTypes, Fixing, FramesAreAccountedFor
<1>3. /\ frames' \in [Frames -> BFrame]
      /\ frames'[f].dirty = TRUE
      /\ \A g \in Frames : /\ frames'[g].header = frames[g].header
                           /\ frames'[g].fix_count = frames[g].fix_count
                           /\ g # f => frames'[g] = frames[g]
  BY <1>1, <1>2 DEF Inv, PoolTypes, BFrame
<1>4. PoolTypes'
  BY <1>1, <1>3 DEF Inv, PoolTypes, callVars
<1>5. Identity' /\ Fixing'
  BY <1>1, <1>2, <1>3 DEF Inv, Identity, Fixing, PoolTypes
<1>6. OnDisk'
  BY <1>1, <1>2, <1>3
  DEF Inv, OnDisk, IsOnDisk, HeaderOnDisk, PoolTypes, storageVars
<1>7. CallOK' /\ Flushed'
  BY <1>1 DEF Inv, CallOK, Flushed, callVars
<1>. QED  BY <1>1, <1>4, <1>5, <1>6, <1>7
     DEF Inv, StorageOK, FramesAreAccountedFor, InUse, BitmapOK, FileOK, UsedIds,
         storageVars, callVars

LEMMA UnfixPageInv ==
  ASSUME Inv, NEW id \in PageIds, NEW dirty \in BOOLEAN, UnfixPage(id, dirty)
  PROVE  Inv'
PROOF
<1>. DEFINE f == page_id_map[id]
<1>1. /\ pc = "idle" /\ id \in DOMAIN held /\ id \in DOMAIN page_id_map
      /\ id \in touched => dirty
      /\ frames' = [frames EXCEPT ![f] = UnfixedFrame(f, dirty)]
      /\ held' = [i \in DOMAIN held \ {id} |-> held[i]]
      /\ touched' = touched \ {id}
      /\ UNCHANGED <<storageVars, page_id_map, current_buffer_size, callVars, live>>
  BY DEF UnfixPage
<1>2. /\ f \in Frames /\ id \in live /\ frames[f].fix_count = 1
      /\ \A i \in DOMAIN page_id_map \ {id} : page_id_map[i] # f
  BY <1>1 DEF Inv, PoolTypes, Fixing, FramesAreAccountedFor
<1>3. /\ frames' \in [Frames -> BFrame]
      /\ frames'[f].fix_count = 0
      /\ frames'[f].dirty = (frames[f].dirty \/ dirty)
      /\ \A g \in Frames : /\ frames'[g].header = frames[g].header
                           /\ g # f => frames'[g] = frames[g]
  BY <1>1, <1>2, UnfixedFrameIsFrame DEF Inv, PoolTypes
<1>4. PoolTypes'
  BY <1>1, <1>3 DEF Inv, PoolTypes, callVars
<1>5. Identity'
  BY <1>1, <1>2, <1>3 DEF Inv, Identity, PoolTypes
<1>6. Fixing'
  BY <1>1, <1>2, <1>3 DEF Inv, Fixing, PoolTypes
<1>7. OnDisk'
  <2>1. ASSUME NEW i \in live \cap DOMAIN page_id_map,
               ~frames'[page_id_map[i]].dirty, i \notin touched'
        PROVE  i \in DOMAIN file /\ file[i] = frames'[page_id_map[i]].header
    <3>1. CASE i = id
      <4>1. ~frames[f].dirty /\ id \notin touched
        BY <1>1, <1>3, <2>1, <3>1
      <4>. QED  BY <1>1, <1>2, <1>3, <3>1, <4>1 DEF Inv, OnDisk, HeaderOnDisk
    <3>2. CASE i # id
      BY <1>1, <1>2, <1>3, <2>1, <3>2 DEF Inv, OnDisk, HeaderOnDisk, PoolTypes
    <3>. QED  BY <3>1, <3>2
  <2>. QED  BY <1>1, <2>1 DEF Inv, OnDisk, IsOnDisk, HeaderOnDisk, storageVars
<1>8. CallOK' /\ Flushed'
  BY <1>1 DEF Inv, CallOK, Flushed, callVars
<1>. QED  BY <1>1, <1>4, <1>5, <1>6, <1>7, <1>8
     DEF Inv, StorageOK, FramesAreAccountedFor, InUse, BitmapOK, FileOK, UsedIds,
         storageVars, callVars

(* While no call is under way, a frame whose header has an id is in the    *)
(* map under that id, and the page exists.                                 *)
LEMMA HeaderNames ==
  ASSUME Inv, pc = "idle", NEW f \in 1 .. current_buffer_size,
         frames[f].header.page_id # 0
  PROVE  LET id == frames[f].header.page_id IN
         id \in live /\ id \in DOMAIN page_id_map /\ page_id_map[id] = f
PROOF
<1>1. PICK i \in DOMAIN page_id_map : page_id_map[i] = f
  BY DEF Inv, FramesAreAccountedFor, CallOK
<1>. QED  BY <1>1 DEF Inv, Identity

LEMMA FixRememberedInv ==
  ASSUME Inv, NEW id \in PageIds, NEW f \in Frames, FixRemembered(id, f)
  PROVE  Inv' /\ id \in live /\ id \in DOMAIN page_id_map /\ page_id_map[id] = f
PROOF
<1>1. /\ pc = "idle" /\ id \notin DOMAIN held /\ f \in 1 .. current_buffer_size
      /\ frames[f].header.page_id = id /\ id # 0
  BY DEF FixRemembered, Frames, PageIds
<1>2. id \in live /\ id \in DOMAIN page_id_map /\ page_id_map[id] = f
  BY <1>1, HeaderNames
<1>3. RequestPage(id)
  BY <1>1, <1>2 DEF FixRemembered, RequestPage
<1>. QED  BY <1>2, <1>3, RequestPageInv

LEMMA DeletePageInv ==
  ASSUME Inv, NEW id \in PageIds, DeletePage(id)
  PROVE  Inv'
PROOF
<1>1. /\ pc = "idle" /\ id \in live \ DOMAIN held /\ live' = live \ {id}
      /\ UNCHANGED <<storageVars, page_id_map, current_buffer_size, callVars, held, touched>>
  BY DEF DeletePage
<1>2. /\ frames' \in [Frames -> BFrame]
      /\ \A i \in DOMAIN page_id_map \ {id} : frames'[page_id_map[i]] = frames[page_id_map[i]]
      /\ id \in DOMAIN page_id_map =>
           /\ frames'[page_id_map[id]].header.page_id = 0
           /\ frames'[page_id_map[id]].dirty = FALSE
           /\ frames'[page_id_map[id]].fix_count = 0
  <2>1. CASE id \notin DOMAIN page_id_map
    BY <2>1 DEF DeletePage, Inv, PoolTypes
  <2>2. CASE id \in DOMAIN page_id_map
    <3>. DEFINE f == page_id_map[id]
                h == [frames[f].header EXCEPT !.page_id = 0]
    <3>1. f \in Frames /\ \A i \in DOMAIN page_id_map \ {id} : page_id_map[i] # f
      BY <2>2 DEF Inv, PoolTypes, FramesAreAccountedFor
    <3>2. h \in Page /\ h.page_id = 0
      BY <3>1 DEF Inv, PoolTypes, BFrame, Page
    <3>3. frames' = [frames EXCEPT ![f] = [fix_count |-> 0, dirty |-> FALSE,
                                            marked |-> FALSE, header |-> h]]
      BY <2>2 DEF DeletePage, EmptiedFrame
    <3>. HIDE DEF h
    <3>4. [fix_count |-> 0, dirty |-> FALSE, marked |-> FALSE, header |-> h] \in BFrame
      BY <3>2 DEF BFrame
    <3>. QED  BY <3>1, <3>2, <3>3, <3>4 DEF Inv, PoolTypes
  <2>. QED  BY <2>1, <2>2
<1>3. PoolTypes'
  BY <1>1, <1>2 DEF Inv, PoolTypes, callVars
<1>4. Identity' /\ Fixing' /\ InUse'
  BY <1>1, <1>2 DEF Inv, Identity, Fixing, InUse, UsedIds, storageVars
<1>5. OnDisk'
  BY <1>1, <1>2 DEF Inv, OnDisk, IsOnDisk, HeaderOnDisk, storageVars
<1>6. CallOK' /\ Flushed'
  BY <1>1 DEF Inv, CallOK, Flushed, callVars
<1>. QED  BY <1>1, <1>3, <1>4, <1>5, <1>6
     DEF Inv, StorageOK, FramesAreAccountedFor, BitmapOK, FileOK, storageVars, callVars

LEMMA DestroyInv ==
  ASSUME Inv, Destroy
  PROVE  Inv'
BY DEF Destroy, Inv, StorageOK, PoolTypes, FramesAreAccountedFor, Identity, Fixing, InUse,
       OnDisk, CallOK, Flushed, BitmapOK, FileOK, UsedIds, IsOnDisk, HeaderOnDisk,
       storageVars, poolVars, clientVars

LEMMA DestroyNextInv ==
  ASSUME Inv, DestroyNext
  PROVE  Inv'
PROOF
<1>1. PICK id \in todo : WriteBack(page_id_map[id]) /\ todo' = todo \ {id}
  BY DEF DestroyNext
<1>2. pc = "destroy" /\ UNCHANGED <<poolVars, pc, want, frame, clientVars>>
  BY DEF DestroyNext
<1>3. id \in DOMAIN page_id_map /\ id \notin touched
  BY <1>1, <1>2 DEF Inv, CallOK
<1>4. /\ StorageOK' /\ UsedIds' = UsedIds
      /\ \A j \in DOMAIN file \ {id} : j \in DOMAIN file' /\ file'[j] = file[j]
      /\ id \in live => /\ id \in DOMAIN file'
                        /\ file'[id] = frames[page_id_map[id]].header
  BY <1>1, <1>3, WriteBackEffect
<1>5. PoolTypes' /\ FramesAreAccountedFor' /\ Identity' /\ Fixing' /\ InUse' /\ CallOK'
  BY <1>1, <1>2, <1>4
  DEF Inv, PoolTypes, FramesAreAccountedFor, Identity, Fixing, InUse, CallOK, poolVars, clientVars
<1>6. OnDisk' /\ Flushed'
  BY <1>1, <1>2, <1>3, <1>4
  DEF Inv, OnDisk, Flushed, IsOnDisk, HeaderOnDisk, poolVars, clientVars
<1>. QED  BY <1>4, <1>5, <1>6 DEF Inv

LEMMA NextInv == Inv /\ [Next]_vars => Inv'
PROOF
<1>. SUFFICES ASSUME Inv, [Next]_vars  PROVE Inv'
  OBVIOUS
<1>1. CASE CreateNewPage
  BY <1>1, NeedFrameInv, MaxPageIdAssumption DEF CreateNewPage
<1>2. ASSUME NEW id \in PageIds, RequestMissing(id)
      PROVE  Inv'
  BY <1>2, NeedFrameInv, MaxPageIdAssumption DEF RequestMissing, PageIds
<1>3. ASSUME NEW id \in PageIds,
             \/ RequestPage(id) \/ EvictUnmark(id) \/ EvictTake(id)
             \/ MarkDirty(id) \/ DeletePage(id)
             \/ \E d \in Data : Write(id, d)
             \/ \E dirty \in BOOLEAN : UnfixPage(id, dirty)
             \/ \E f \in Frames : FixRemembered(id, f)
      PROVE  Inv'
  BY <1>3, RequestPageInv, EvictUnmarkInv, EvictTakeInv, MarkDirtyInv, DeletePageInv,
     WriteInv, UnfixPageInv, FixRememberedInv
<1>4. CASE FillNewPage \/ FetchPage \/ Destroy \/ DestroyNext
  BY <1>4, FillNewPageInv, FetchPageInv, DestroyInv, DestroyNextInv
<1>5. CASE UNCHANGED vars
  BY <1>5, StutterInv
<1>. QED  BY <1>1, <1>2, <1>3, <1>4, <1>5 DEF Next

LEMMA SpecInv == Spec => []Inv
BY InitInv, NextInv, PTL DEF Spec

-----------------------------------------------------------------------------
(* The state of the pool and of the file keeps its shape. *)
THEOREM TypeCorrect == Spec => []TypeOK
PROOF
<1>1. Inv => TypeOK
  BY DEF Inv, StorageOK, BitmapOK, FileOK, PoolTypes, TypeOK, StorageTypeOK
<1>. QED  BY <1>1, SpecInv, PTL

(* Every frame is in the map under one id or with the call that fills it.  *)
THEOREM PoolIsConsistent == Spec => []FramesAreAccountedFor
PROOF
<1>1. Inv => FramesAreAccountedFor
  BY DEF Inv
<1>. QED  BY <1>1, SpecInv, PTL

(* The radix tree may trust a remembered pointer whose header has the id. *)
THEOREM RememberedPointersAreSound == Spec => []HeaderNamesTheFrame
PROOF
<1>1. Inv => HeaderNamesTheFrame
  BY HeaderNames DEF HeaderNamesTheFrame
<1>. QED  BY <1>1, SpecInv, PTL

(* No page is evicted while the client holds a pointer to it, and          *)
(* unfix_page always finds it fixed once.                                  *)
THEOREM FixedPagesStay == Spec => []HeldPagesStay
PROOF
<1>1. Inv => HeldPagesStay
  BY DEF Inv, Fixing, Identity, HeldPagesStay
<1>. QED  BY <1>1, SpecInv, PTL

(* load_page always finds the page it is asked for. *)
THEOREM FetchNeverFails == Spec => []FetchFindsThePage
PROOF
<1>1. Inv => FetchFindsThePage
  BY DEF Inv, StorageOK, FileOK, CallOK, OnDisk, IsOnDisk, FetchFindsThePage, LoadFails, LoadedPage
<1>. QED  BY <1>1, SpecInv, PTL

(* A frame that is not dirty can be dropped without losing a write. *)
THEOREM CleanFramesCanBeDropped == Spec => []CleanFramesAreOnDisk
PROOF
<1>1. Inv => CleanFramesAreOnDisk
  BY DEF Inv, Identity, OnDisk, HeaderOnDisk, CleanFramesAreOnDisk
<1>. QED  BY <1>1, SpecInv, PTL

-----------------------------------------------------------------------------
(* The refinement: what the client sees is Content.  The step lemmas say   *)
(* which step of PageStore each action is; an action that only moves pages *)
(* between frames and file is none.                                        *)
Store == [id \in live |-> Content(id)]

LEMMA NeedFrameStutters ==
  ASSUME Inv, pc = "idle", NEW id, NeedFrame(id)
  PROVE  UNCHANGED AsPageStore!vars
PROOF
<1>1. /\ UNCHANGED <<storageVars, page_id_map, frames, todo, clientVars>>
      /\ pc' \in {"evict", "fill"}
  BY DEF NeedFrame
<1>2. Resident' = Resident
  BY <1>1 DEF Resident
<1>3. \A i \in live : Content(i)' = Content(i)
  BY <1>1, <1>2 DEF Content, storageVars
<1>. QED  BY <1>1, <1>3 DEF AsPageStore!vars, UsedIds, storageVars, clientVars

LEMMA RequestPageFixes ==
  ASSUME Inv, NEW id \in PageIds, RequestPage(id)
  PROVE  AsPageStore!Fix(id)
PROOF
<1>. DEFINE f == page_id_map[id]
<1>1. /\ pc = "idle" /\ id \in live \ DOMAIN held /\ id \in DOMAIN page_id_map
      /\ frames' = [frames EXCEPT ![f] = FixedFrame(f)]
      /\ held' = [i \in DOMAIN held \cup {id} |-> IF i = id THEN f ELSE held[i]]
      /\ UNCHANGED <<storageVars, page_id_map, current_buffer_size, callVars, live, touched>>
  BY DEF RequestPage, Hold
<1>2. \A g \in Frames : frames'[g].header = frames[g].header
  BY <1>1, FixedFrameIsFrame DEF Inv, PoolTypes, Fixing
<1>3. Resident' = DOMAIN page_id_map /\ Resident = DOMAIN page_id_map
  BY <1>1 DEF Resident, callVars
<1>4. \A i \in live : Content(i)' = Content(i)
  BY <1>1, <1>2, <1>3 DEF Content, storageVars, Inv, PoolTypes
<1>. QED  BY <1>1, <1>4 DEF AsPageStore!Fix, UsedIds, storageVars

LEMMA EvictStutters ==
  ASSUME Inv, NEW id \in PageIds, EvictUnmark(id) \/ EvictTake(id)
  PROVE  UNCHANGED AsPageStore!vars
PROOF
<1>1. CASE EvictUnmark(id)
  <2>1. \A g \in Frames : frames'[g].header = frames[g].header
    BY <1>1 DEF EvictUnmark, Inv, PoolTypes, BFrame
  <2>2. /\ Resident' = DOMAIN page_id_map /\ Resident = DOMAIN page_id_map
        /\ UNCHANGED <<storageVars, page_id_map, clientVars>>
    BY <1>1 DEF EvictUnmark, Resident, callVars
  <2>3. \A i \in live : Content(i)' = Content(i)
    BY <2>1, <2>2 DEF Content, storageVars, Inv, PoolTypes
  <2>. QED  BY <2>2, <2>3 DEF AsPageStore!vars, UsedIds, storageVars, clientVars
<1>2. CASE EvictTake(id)
  <2>1. /\ pc = "evict" /\ pc' = "fill" /\ id \in DOMAIN page_id_map /\ id \notin touched
        /\ page_id_map' = [i \in DOMAIN page_id_map \ {id} |-> page_id_map[i]]
        /\ WriteBack(page_id_map[id])
        /\ UNCHANGED <<frames, clientVars>>
    BY <1>2 DEF EvictTake, Evictable, Inv, Fixing
  <2>2. /\ UsedIds' = UsedIds
        /\ \A j \in DOMAIN file \ {id} : j \in DOMAIN file' /\ file'[j] = file[j]
        /\ id \in live => file'[id] = frames[page_id_map[id]].header
    BY <2>1, WriteBackEffect
  <2>3. Resident = DOMAIN page_id_map /\ Resident' = DOMAIN page_id_map \ {id}
    BY <2>1 DEF Resident
  <2>4. \A i \in live : Content(i)' = Content(i)
    BY <2>1, <2>2, <2>3 DEF Content, Inv, OnDisk, IsOnDisk
  <2>. QED  BY <2>1, <2>2, <2>4 DEF AsPageStore!vars, clientVars
<1>. QED  BY <1>1, <1>2

LEMMA FetchPageFixes ==
  ASSUME Inv, FetchPage
  PROVE  want \in PageIds /\ AsPageStore!Fix(want)
PROOF
<1>. DEFINE new == [fix_count |-> 1, dirty |-> FALSE, marked |-> TRUE, header |-> file[want]]
<1>1. /\ pc = "fill" /\ want # 0 /\ pc' = "idle"
      /\ frames' = [frames EXCEPT ![frame] = new]
      /\ page_id_map' = Emplaced(want, frame)
      /\ held' = [i \in DOMAIN held \cup {want} |-> IF i = want THEN frame ELSE held[i]]
      /\ UNCHANGED <<storageVars, live>>
  BY DEF FetchPage, LoadedPage, Hold
<1>2. /\ want \in live \ DOMAIN page_id_map /\ want \notin DOMAIN held /\ frame \in Frames
      /\ want \in PageIds
  BY <1>1 DEF Inv, CallOK, Fixing, PoolTypes, Frames
<1>3. /\ DOMAIN page_id_map' = DOMAIN page_id_map \cup {want} /\ page_id_map'[want] = frame
      /\ \A i \in DOMAIN page_id_map : page_id_map'[i] = page_id_map[i]
      /\ \A i \in DOMAIN page_id_map : page_id_map[i] \in Frames \ {frame}
  BY <1>1, <1>2 DEF Emplaced, Inv, PoolTypes, FramesAreAccountedFor
<1>4. /\ frames'[frame].header = file[want]
      /\ \A g \in Frames \ {frame} : frames'[g] = frames[g]
  BY <1>1, <1>2 DEF Inv, PoolTypes
<1>5. Resident' = DOMAIN page_id_map' /\ Resident = DOMAIN page_id_map
  BY <1>1 DEF Resident
<1>6. \A i \in live : Content(i)' = Content(i)
  BY <1>1, <1>2, <1>3, <1>4, <1>5 DEF Content, storageVars
<1>. QED  BY <1>1, <1>2, <1>6 DEF AsPageStore!Fix, UsedIds, storageVars

LEMMA FillNewPageCreates ==
  ASSUME Inv, FillNewPage
  PROVE  \E id \in PageIds, d \in Data : AsPageStore!Create(id, d)
PROOF
<1>1. PICK id \in PageIds :
        /\ GetUnusedPageId(id)
        /\ frames' = [frames EXCEPT ![frame] = NewFrame(frame, id)]
        /\ page_id_map' = Emplaced(id, frame)
        /\ held' = [i \in DOMAIN held \cup {id} |-> IF i = id THEN frame ELSE held[i]]
        /\ live' = live \cup {id}
  BY DEF FillNewPage, Hold
<1>2. pc = "fill" /\ pc' = "idle"
  BY DEF FillNewPage
<1>3. /\ id \in free_space_map /\ id \notin UsedIds
      /\ UsedIds' = UsedIds \cup {id} /\ UNCHANGED <<current_page_count, file>>
  BY <1>1, GetUnusedPageIdEffect DEF Inv, StorageOK, UsedIds
<1>4. id \notin live /\ id \notin DOMAIN page_id_map /\ frame \in Frames
  BY <1>2, <1>3 DEF Inv, InUse, CallOK, PoolTypes, Frames
<1>5. /\ DOMAIN page_id_map' = DOMAIN page_id_map \cup {id} /\ page_id_map'[id] = frame
      /\ \A i \in DOMAIN page_id_map : page_id_map'[i] = page_id_map[i]
      /\ \A i \in DOMAIN page_id_map : page_id_map[i] \in Frames \ {frame}
  BY <1>1, <1>4 DEF Emplaced, Inv, PoolTypes, FramesAreAccountedFor
<1>6. /\ frames'[frame].header.data = frames[frame].header.data
      /\ frames[frame].header.data \in Data
      /\ \A g \in Frames \ {frame} : frames'[g] = frames[g]
  <2>1. NewFrame(frame, id).header.data = frames[frame].header.data
    BY <1>4 DEF NewFrame, Inv, PoolTypes, BFrame, Page
  <2>. QED  BY <1>1, <1>4, <2>1 DEF Inv, PoolTypes, BFrame, Page
<1>7. Resident' = DOMAIN page_id_map' /\ Resident = DOMAIN page_id_map
  BY <1>2 DEF Resident
<1>8. /\ Content(id)' = frames[frame].header.data
      /\ \A i \in live : Content(i)' = Content(i)
  BY <1>3, <1>4, <1>5, <1>6, <1>7 DEF Content
<1>9. Store' = [i \in DOMAIN Store \cup {id} |->
                  IF i = id THEN frames[frame].header.data ELSE Store[i]]
  BY <1>1, <1>4, <1>8 DEF Store
<1>. QED  BY <1>1, <1>3, <1>6, <1>9 DEF AsPageStore!Create, Store

LEMMA WriteWrites ==
  ASSUME Inv, NEW id \in PageIds, NEW d \in Data, Write(id, d)
  PROVE  AsPageStore!Write(id, d)
PROOF
<1>. DEFINE f == held[id]
<1>1. /\ pc = "idle" /\ id \in DOMAIN held
      /\ frames' = [frames EXCEPT ![f].header.data = d]
      /\ UNCHANGED <<storageVars, page_id_map, callVars, live, held>>
  BY DEF Write
<1>2. /\ f \in Frames /\ id \in live /\ id \in DOMAIN page_id_map /\ page_id_map[id] = f
      /\ \A i \in DOMAIN page_id_map \ {id} : page_id_map[i] \in Frames \ {f}
  BY <1>1 DEF Inv, PoolTypes, Fixing, FramesAreAccountedFor
<1>3. /\ frames'[f].header.data = d
      /\ \A g \in Frames \ {f} : frames'[g] = frames[g]
  BY <1>1, <1>2 DEF Inv, PoolTypes, BFrame, Page
<1>4. Resident' = DOMAIN page_id_map /\ Resident = DOMAIN page_id_map
  BY <1>1 DEF Resident, callVars
<1>5. Content(id)' = d /\ \A i \in live \ {id} : Content(i)' = Content(i)
  BY <1>1, <1>2, <1>3, <1>4 DEF Content, storageVars
<1>6. Store' = [Store EXCEPT ![id] = d]
  BY <1>1, <1>2, <1>5 DEF Store
<1>. QED  BY <1>1, <1>6 DEF AsPageStore!Write, Store, UsedIds, storageVars

LEMMA MarkDirtyStutters ==
  ASSUME Inv, NEW id \in PageIds, MarkDirty(id)
  PROVE  UNCHANGED AsPageStore!vars
PROOF
<1>1. /\ pc = "idle" /\ frames' = [frames EXCEPT ![page_id_map[id]].dirty = TRUE]
      /\ UNCHANGED <<storageVars, page_id_map, callVars, live, held>>
  BY DEF MarkDirty
<1>2. \A g \in Frames : frames'[g].header = frames[g].header
  BY <1>1 DEF Inv, PoolTypes, BFrame
<1>3. \A i \in live : Content(i)' = Content(i)
  BY <1>1, <1>2 DEF Content, Resident, callVars, storageVars, Inv, PoolTypes
<1>. QED  BY <1>1, <1>3 DEF AsPageStore!vars, UsedIds, storageVars

LEMMA UnfixPageUnfixes ==
  ASSUME Inv, NEW id \in PageIds, NEW dirty \in BOOLEAN, UnfixPage(id, dirty)
  PROVE  AsPageStore!Unfix(id)
PROOF
<1>. DEFINE f == page_id_map[id]
<1>1. /\ pc = "idle" /\ id \in DOMAIN held /\ id \in DOMAIN page_id_map
      /\ frames' = [frames EXCEPT ![f] = UnfixedFrame(f, dirty)]
      /\ held' = [i \in DOMAIN held \ {id} |-> held[i]]
      /\ UNCHANGED <<storageVars, page_id_map, callVars, live>>
  BY DEF UnfixPage
<1>2. f \in Frames /\ frames[f].fix_count = 1
  BY <1>1 DEF Inv, PoolTypes, Fixing
<1>3. \A g \in Frames : frames'[g].header = frames[g].header
  BY <1>1, <1>2, UnfixedFrameIsFrame DEF Inv, PoolTypes
<1>4. \A i \in live : Content(i)' = Content(i)
  BY <1>1, <1>3 DEF Content, Resident, callVars, storageVars, Inv, PoolTypes
<1>. QED  BY <1>1, <1>4 DEF AsPageStore!Unfix, UsedIds, storageVars

LEMMA DeletePageDeletes ==
  ASSUME Inv, NEW id \in PageIds, DeletePage(id)
  PROVE  AsPageStore!Delete(id)
PROOF
<1>1. /\ pc = "idle" /\ id \in live \ DOMAIN held /\ live' = live \ {id}
      /\ UNCHANGED <<storageVars, page_id_map, callVars, held>>
  BY DEF DeletePage
<1>2. \A i \in DOMAIN page_id_map \ {id} : frames'[page_id_map[i]] = frames[page_id_map[i]]
  BY DEF DeletePage, Inv, PoolTypes, FramesAreAccountedFor
<1>3. \A i \in live \ {id} : Content(i)' = Content(i)
  BY <1>1, <1>2 DEF Content, Resident, callVars, storageVars
<1>4. Store' = [i \in DOMAIN Store \ {id} |-> Store[i]]
  BY <1>1, <1>3 DEF Store
<1>. QED  BY <1>1, <1>4 DEF AsPageStore!Delete, Store, UsedIds, storageVars

LEMMA DestroyStutters ==
  ASSUME Inv, Destroy \/ DestroyNext
  PROVE  UNCHANGED AsPageStore!vars
PROOF
<1>1. CASE Destroy
  <2>1. \A i \in live : Content(i)' = Content(i)
    BY <1>1 DEF Destroy, Content, Resident, storageVars, poolVars
  <2>. QED  BY <1>1, <2>1 DEF Destroy, AsPageStore!vars, UsedIds, storageVars, clientVars
<1>2. CASE DestroyNext
  <2>1. PICK id \in todo : WriteBack(page_id_map[id]) /\ todo' = todo \ {id}
    BY <1>2 DEF DestroyNext
  <2>2. pc = "destroy" /\ UNCHANGED <<poolVars, pc, clientVars>>
    BY <1>2 DEF DestroyNext
  <2>3. id \in DOMAIN page_id_map /\ id \notin touched
    BY <2>1, <2>2 DEF Inv, CallOK
  <2>4. /\ UsedIds' = UsedIds
        /\ \A j \in DOMAIN file \ {id} : j \in DOMAIN file' /\ file'[j] = file[j]
        /\ id \in live => file'[id] = frames[page_id_map[id]].header
    BY <2>1, <2>3, WriteBackEffect
  <2>5. \A i \in live \ todo : i \in DOMAIN file
    BY <2>2 DEF Inv, Flushed, HeaderOnDisk, OnDisk, IsOnDisk
  <2>6. \A i \in live : Content(i)' = Content(i)
    BY <2>1, <2>2, <2>4, <2>5 DEF Content, Resident, poolVars
  <2>. QED  BY <2>2, <2>4, <2>6 DEF AsPageStore!vars, clientVars
<1>. QED  BY <1>1, <1>2

(* For its client the buffer pool is a store of pages: no write is lost,   *)
(* no page is seen under another id, no id is handed out twice, whatever   *)
(* the pool evicts and in whatever order destroy() ends it.                *)
THEOREM PoolImplementsPageStore == Spec => ImplementsPageStore
PROOF
<1>1. Init => AsPageStore!Init
  BY BitmapIncrementAssumption DEF Init, InitStorage, AsPageStore!Init, UsedIds
<1>2. Inv /\ [Next]_vars => [AsPageStore!Next]_(AsPageStore!vars)
  <2>. SUFFICES ASSUME Inv, [Next]_vars
                PROVE  [AsPageStore!Next]_(AsPageStore!vars)
    OBVIOUS
  <2>1. CASE CreateNewPage
    BY <2>1, NeedFrameStutters DEF CreateNewPage
  <2>2. CASE FillNewPage
    BY <2>2, FillNewPageCreates DEF AsPageStore!Next
  <2>3. CASE FetchPage
    BY <2>3, FetchPageFixes DEF AsPageStore!Next
  <2>4. CASE Destroy \/ DestroyNext
    BY <2>4, DestroyStutters
  <2>5. ASSUME NEW id \in PageIds,
               \/ RequestPage(id) \/ DeletePage(id)
               \/ \E d \in Data : Write(id, d)
               \/ \E dirty \in BOOLEAN : UnfixPage(id, dirty)
        PROVE  AsPageStore!Next
    BY <2>5, RequestPageFixes, DeletePageDeletes, WriteWrites, UnfixPageUnfixes
    DEF AsPageStore!Next
  <2>6. ASSUME NEW id \in PageIds, NEW f \in Frames, FixRemembered(id, f)
        PROVE  AsPageStore!Next
    <3>1. RequestPage(id)
      BY <2>6, FixRememberedInv DEF FixRemembered, RequestPage
    <3>. QED  BY <3>1, RequestPageFixes DEF AsPageStore!Next
  <2>7. ASSUME NEW id \in PageIds, RequestMissing(id)
        PROVE  UNCHANGED AsPageStore!vars
    BY <2>7, NeedFrameStutters DEF RequestMissing
  <2>8. ASSUME NEW id \in PageIds, EvictUnmark(id) \/ EvictTake(id) \/ MarkDirty(id)
        PROVE  UNCHANGED AsPageStore!vars
    BY <2>8, EvictStutters, MarkDirtyStutters
  <2>9. CASE UNCHANGED vars
    BY <2>9
    DEF vars, storageVars, poolVars, callVars, clientVars, AsPageStore!vars, UsedIds,
        Content, Resident
  <2>. QED  BY <2>1, <2>2, <2>3, <2>4, <2>5, <2>6, <2>7, <2>8, <2>9 DEF Next
<1>. QED  BY <1>1, <1>2, SpecInv, PTL DEF Spec, ImplementsPageStore, AsPageStore!Spec
=============================================================================
