---------------------------- MODULE BufferManager ----------------------------
(***************************************************************************)
(* BufferManager (src/src/data/buffer_manager.{h,cc}) on top of a          *)
(* StorageManager: a pool of frames that caches the pages of the file.     *)
(*                                                                         *)
(* A frame is its address 1 .. buffer_size; malloc hands them out in this  *)
(* order and they are never freed before destroy().  A call that finds the *)
(* buffer full goes through the loop of evict_page, one action per random  *)
(* pick (pc = "evict"), and goes on when it has a frame (pc = "fill").     *)
(*                                                                         *)
(* The client (the B+ tree and the radix tree) is modelled by its contract *)
(* only: it fixes a page once at a time, writes through the pointer it was *)
(* given, reports what it wrote, deletes a page after unfixing it, and     *)
(* keeps pointers to frames whose page it no longer holds (RFrame).        *)
(***************************************************************************)
EXTENDS StorageManager, FiniteSets

CONSTANT buffer_size        \* how many frames there may be

ASSUME BufferSizeAssumption == buffer_size \in Nat \ {0}

VARIABLES page_id_map,          \* page id |-> frame
          frames,               \* frame |-> BFrame
          current_buffer_size,  \* how many frames malloc returned
          pc,                   \* where the call in progress is
          want,                 \* the page it wants; 0: a new page
          frame,                \* the frame it got; 0: none yet
          todo,                 \* what the loop of destroy() has left
          live,                 \* client: pages created and not deleted
          held,                 \* client: page id |-> the pointer it got
          touched               \* client: pages written, frame not yet dirty

poolVars == <<page_id_map, frames, current_buffer_size>>
callVars == <<pc, want, frame, todo>>
clientVars == <<live, held, touched>>
vars == <<storageVars, poolVars, callVars, clientVars>>

Frames == 1 .. buffer_size
BFrame == [fix_count : Nat, dirty : BOOLEAN, marked : BOOLEAN, header : Page]

Init ==
  /\ InitStorage
  /\ page_id_map = << >>
  /\ frames \in [Frames -> [fix_count : {0}, dirty : {FALSE}, marked : {FALSE},
                            header : [page_id : {0}, data : Data]]]
  /\ current_buffer_size = 0
  /\ pc = "idle" /\ want = 0 /\ frame = 0 /\ todo = {}
  /\ live = {} /\ held = << >> /\ touched = {}

(* page_id_map.emplace: an entry that is there already stays. *)
Emplaced(id, f) ==
  [i \in DOMAIN page_id_map \cup {id} |->
     IF i \in DOMAIN page_id_map THEN page_id_map[i] ELSE f]

(* The pointer that request_page or create_new_page returns. *)
Hold(id, f) ==
  held' = [i \in DOMAIN held \cup {id} |-> IF i = id THEN f ELSE held[i]]

(* What request_page and fix_page do to a frame. *)
FixedFrame(f) == [frames[f] EXCEPT !.fix_count = @ + 1, !.marked = TRUE]

-----------------------------------------------------------------------------
(* Mutant of NeedFrame: the buffer may grow one frame too far. *)
NeedFrame_OneMore(id) ==
  /\ Cardinality(DOMAIN held) < buffer_size
  /\ want' = id
  /\ \/ current_buffer_size > buffer_size /\ pc' = "evict"
        /\ UNCHANGED <<current_buffer_size, frame>>
     \/ current_buffer_size <= buffer_size /\ pc' = "fill"
        /\ frame' = current_buffer_size + 1 /\ current_buffer_size' = frame'
  /\ UNCHANGED <<storageVars, page_id_map, frames, todo, clientVars>>

(* Both calls that need a frame take a new one while the buffer may grow.  *)
(* The client never fixes every frame at once: evict_page would not end.   *)
NeedFrame(id) ==
  /\ Cardinality(DOMAIN held) < buffer_size
  /\ want' = id
  /\ \/ /\ current_buffer_size >= buffer_size
        /\ pc' = "evict"
        /\ UNCHANGED <<current_buffer_size, frame>>
     \/ /\ current_buffer_size < buffer_size
        /\ pc' = "fill"
        /\ frame' = current_buffer_size + 1
        /\ current_buffer_size' = current_buffer_size + 1
  /\ UNCHANGED <<storageVars, page_id_map, frames, todo, clientVars>>

(* request_page of a page that is in the buffer. *)
RequestPage(id) ==
  /\ pc = "idle" /\ id \in live \ DOMAIN held /\ id \in DOMAIN page_id_map
  /\ LET f == page_id_map[id] IN
     /\ frames' = [frames EXCEPT ![f] = FixedFrame(f)]
     /\ Hold(id, f)
  /\ UNCHANGED <<storageVars, page_id_map, current_buffer_size, callVars, live, touched>>

(* request_page of a page that is not: fetch_page_from_disk begins. *)
RequestMissing(id) ==
  /\ pc = "idle" /\ id \in live \ DOMAIN held /\ id \notin DOMAIN page_id_map
  /\ NeedFrame(id)

CreateNewPage ==
  /\ pc = "idle" /\ next_free_space <= MaxPageId
  /\ NeedFrame(0)

(* if (dirty) save_page. *)
WriteBack(f) == IF frames[f].dirty THEN SavePage(frames[f].header)
                ELSE UNCHANGED storageVars

(* Mutants: the mark stays; the first frame picked is taken. *)
EvictUnmark_MarkStays(id) == FALSE
Evictable_Any(f) == f \in Frames
Evictable(f) == frames[f].fix_count = 0 /\ ~frames[f].marked

(* evict_page picks a random entry of the map.  A fixed one is passed over *)
(* (no state changes), a marked one loses its mark, any other is written   *)
(* back if it is dirty and its frame taken.                                *)
EvictUnmark(id) ==
  /\ pc = "evict" /\ id \in DOMAIN page_id_map
  /\ LET f == page_id_map[id] IN
     /\ frames[f].fix_count = 0 /\ frames[f].marked
     /\ frames' = [frames EXCEPT ![f].marked = FALSE]
  /\ UNCHANGED <<storageVars, page_id_map, current_buffer_size, callVars, clientVars>>

EvictTake(id) ==
  /\ pc = "evict" /\ id \in DOMAIN page_id_map
  /\ LET f == page_id_map[id] IN
     /\ Evictable(f)
     /\ WriteBack(f)
     /\ frame' = f
  /\ page_id_map' = [i \in DOMAIN page_id_map \ {id} |-> page_id_map[i]]
  /\ pc' = "fill"
  /\ UNCHANGED <<frames, current_buffer_size, want, todo, clientVars>>

(* The rest of fetch_page_from_disk and request_page. If load_page fails   *)
(* the process exits: the call never gets here (FetchFindsThePage).        *)
FetchPage ==
  /\ pc = "fill" /\ want # 0 /\ ~LoadFails(want)
  /\ frames' = [frames EXCEPT ![frame] = [fix_count |-> 1, dirty |-> FALSE,
                                          marked |-> TRUE, header |-> LoadedPage(want)]]
  /\ page_id_map' = Emplaced(want, frame)
  /\ Hold(want, frame)
  /\ pc' = "idle" /\ want' = 0 /\ frame' = 0
  /\ UNCHANGED <<storageVars, current_buffer_size, todo, live, touched>>

(* The BFrame that create_new_page makes of frame f for page id, and its   *)
(* mutant: a new page that is not marked dirty.                            *)
NewFrame_Clean(f, id) ==
  [fix_count |-> 1, dirty |-> FALSE, marked |-> TRUE,
   header |-> [frames[f].header EXCEPT !.page_id = id]]
NewFrame(f, id) ==
  [fix_count |-> 1, dirty |-> TRUE, marked |-> TRUE,
   header |-> [frames[f].header EXCEPT !.page_id = id]]

(* The rest of create_new_page: the frame keeps the data it had. *)
FillNewPage ==
  /\ pc = "fill" /\ want = 0
  /\ \E id \in PageIds :
       /\ GetUnusedPageId(id)
       /\ frames' = [frames EXCEPT ![frame] = NewFrame(frame, id)]
       /\ page_id_map' = Emplaced(id, frame)
       /\ Hold(id, frame)
       /\ live' = live \cup {id}
  /\ pc' = "idle" /\ frame' = 0
  /\ UNCHANGED <<current_buffer_size, want, todo, touched>>

-----------------------------------------------------------------------------
(* The client writes through the pointer it holds, whatever is there now.  *)
Write(id, d) ==
  /\ pc = "idle" /\ id \in DOMAIN held
  /\ frames' = [frames EXCEPT ![held[id]].header.data = d]
  /\ touched' = IF frames[held[id]].dirty THEN touched ELSE touched \cup {id}
  /\ UNCHANGED <<storageVars, page_id_map, current_buffer_size, callVars, live, held>>

(* Mutant: a frame that was fetched stays clean. *)
MarkDirty_Ignored(id) ==
  /\ pc = "idle" /\ id \in DOMAIN held /\ id \in DOMAIN page_id_map
  /\ touched' = touched \ {id}
  /\ UNCHANGED <<storageVars, poolVars, callVars, live, held>>
MarkDirty(id) ==
  /\ pc = "idle" /\ id \in DOMAIN held /\ id \in DOMAIN page_id_map
  /\ frames' = [frames EXCEPT ![page_id_map[id]].dirty = TRUE]
  /\ touched' = touched \ {id}
  /\ UNCHANGED <<storageVars, page_id_map, current_buffer_size, callVars, live, held>>

(* What unfix_page does to a frame; mutant: the argument replaces the flag. *)
UnfixedFrame_Overwrites(f, dirty) ==
  [frames[f] EXCEPT !.fix_count = @ - 1, !.dirty = dirty]
UnfixedFrame(f, dirty) ==
  [frames[f] EXCEPT !.fix_count = @ - 1, !.dirty = @ \/ dirty]

UnfixPage(id, dirty) ==
  /\ pc = "idle" /\ id \in DOMAIN held /\ id \in DOMAIN page_id_map
  /\ id \in touched => dirty
  /\ frames' = [frames EXCEPT ![page_id_map[id]] = UnfixedFrame(page_id_map[id], dirty)]
  /\ held' = [i \in DOMAIN held \ {id} |-> held[i]]
  /\ touched' = touched \ {id}
  /\ UNCHANGED <<storageVars, page_id_map, current_buffer_size, callVars, live>>

(* RadixTree: an RFrame remembers a page id and a pointer; if the header   *)
(* there still has that id the page is fixed (fix_page) and used through   *)
(* the remembered pointer.  Any frame may have been remembered for any id. *)
FixRemembered(id, f) ==
  /\ pc = "idle" /\ id \notin DOMAIN held
  /\ f <= current_buffer_size /\ frames[f].header.page_id = id
  /\ frames' = IF id \in DOMAIN page_id_map
               THEN [frames EXCEPT ![page_id_map[id]] = FixedFrame(page_id_map[id])]
               ELSE frames
  /\ Hold(id, f)
  /\ UNCHANGED <<storageVars, page_id_map, current_buffer_size, callVars, live, touched>>

(* delete_page: the frame is emptied, but its entry stays in the map, and  *)
(* the storage manager is not told.  Mutants: the header keeps its id; the *)
(* entry is erased and its frame forgotten.                                *)
EmptiedFrame_KeepsId(f) ==
  [fix_count |-> 0, dirty |-> FALSE, marked |-> FALSE, header |-> frames[f].header]
EmptiedFrame(f) ==
  [fix_count |-> 0, dirty |-> FALSE, marked |-> FALSE,
   header |-> [frames[f].header EXCEPT !.page_id = 0]]
DeletePage_Erases(id) ==
  /\ pc = "idle" /\ id \in live \ DOMAIN held
  /\ page_id_map' = [i \in DOMAIN page_id_map \ {id} |-> page_id_map[i]]
  /\ live' = live \ {id}
  /\ UNCHANGED <<storageVars, frames, current_buffer_size, callVars, held, touched>>
DeletePage(id) ==
  /\ pc = "idle" /\ id \in live \ DOMAIN held
  /\ frames' = IF id \in DOMAIN page_id_map
               THEN [frames EXCEPT ![page_id_map[id]] = EmptiedFrame(page_id_map[id])]
               ELSE frames
  /\ live' = live \ {id}
  /\ UNCHANGED <<storageVars, page_id_map, current_buffer_size, callVars, held, touched>>

(* destroy() walks the map in the order of the ids. *)
Destroy ==
  /\ pc = "idle" /\ touched = {}
  /\ pc' = "destroy" /\ todo' = DOMAIN page_id_map
  /\ UNCHANGED <<storageVars, poolVars, want, frame, clientVars>>

DestroyNext ==
  /\ pc = "destroy" /\ todo # {}
  /\ \E id \in todo :
       /\ IsLeast(id, todo)
       /\ WriteBack(page_id_map[id])
       /\ todo' = todo \ {id}
  /\ UNCHANGED <<poolVars, pc, want, frame, clientVars>>

-----------------------------------------------------------------------------
Next ==
  \/ CreateNewPage \/ FillNewPage \/ FetchPage \/ Destroy \/ DestroyNext
  \/ \E id \in PageIds :
       \/ RequestPage(id) \/ RequestMissing(id)
       \/ EvictUnmark(id) \/ EvictTake(id)
       \/ MarkDirty(id) \/ DeletePage(id)
       \/ \E d \in Data : Write(id, d)
       \/ \E dirty \in BOOLEAN : UnfixPage(id, dirty)
       \/ \E f \in Frames : FixRemembered(id, f)

(* A call that was made runs on; the random picks of evict_page reach      *)
(* every entry of the map.                                                 *)
Fairness ==
  /\ WF_vars(FillNewPage) /\ WF_vars(FetchPage) /\ WF_vars(DestroyNext)
  /\ \A id \in PageIds : WF_vars(EvictUnmark(id)) /\ WF_vars(EvictTake(id))

Spec == Init /\ [][Next]_vars
FairSpec == Spec /\ Fairness

-----------------------------------------------------------------------------
TypeOK ==
  /\ StorageTypeOK
  /\ DOMAIN page_id_map \subseteq PageIds
  /\ page_id_map \in [DOMAIN page_id_map -> Frames]
  /\ frames \in [Frames -> BFrame]
  /\ current_buffer_size \in 0 .. buffer_size
  /\ pc \in {"idle", "evict", "fill", "destroy"}
  /\ want \in 0 .. MaxPageId
  /\ frame \in 0 .. buffer_size
  /\ todo \subseteq PageIds
  /\ live \subseteq PageIds
  /\ DOMAIN held \subseteq PageIds
  /\ held \in [DOMAIN held -> Frames]
  /\ touched \subseteq PageIds

(* No two page ids share a frame, and every frame malloc returned is in    *)
(* the map or with the call that is about to fill it.  evict_page relies   *)
(* on it: it advances an iterator of the map by up to current_buffer_size. *)
FramesAreAccountedFor ==
  /\ \A i, j \in DOMAIN page_id_map : page_id_map[i] = page_id_map[j] => i = j
  /\ {page_id_map[i] : i \in DOMAIN page_id_map} \cup ({frame} \ {0})
       = 1 .. current_buffer_size
  /\ \A i \in DOMAIN page_id_map : page_id_map[i] # frame

(* The pointer check of the radix tree is sound: while no call is under    *)
(* way, a frame whose header carries an id is the frame the map has for    *)
(* that id, and the page exists.                                           *)
HeaderNamesTheFrame ==
  pc = "idle" => \A f \in 1 .. current_buffer_size :
    LET id == frames[f].header.page_id IN
    id # 0 => id \in live /\ id \in DOMAIN page_id_map /\ page_id_map[id] = f

(* A page the client holds is in the buffer, in the frame it points to,    *)
(* and was fixed once: unfix_page's assertion, and no use after eviction.  *)
HeldPagesStay ==
  \A id \in DOMAIN held :
    /\ id \in DOMAIN page_id_map /\ page_id_map[id] = held[id]
    /\ frames[held[id]].fix_count = 1 /\ frames[held[id]].header.page_id = id

(* load_page is only asked for pages that were written, and finds the page *)
(* it is asked for (fetch_page_from_disk's assertion), never the copy of   *)
(* another page that filled a hole of the file.                            *)
FetchFindsThePage ==
  pc = "fill" /\ want # 0 => ~LoadFails(want) /\ LoadedPage(want).page_id = want

(* A clean frame can be dropped: what it holds is on disk.                 *)
CleanFramesAreOnDisk ==
  \A id \in DOMAIN page_id_map :
    LET f == frames[page_id_map[id]] IN
    f.header.page_id # 0 /\ ~f.dirty /\ id \notin touched =>
      id \in DOMAIN file /\ file[id] = f.header

(* The pages as the client sees them: in a frame, else on disk. destroy()  *)
(* frees the frames one by one.                                            *)
Resident == IF pc = "destroy" THEN todo ELSE DOMAIN page_id_map
Content(id) == IF id \in Resident THEN frames[page_id_map[id]].header.data
                                  ELSE file[id].data

(* Clients cannot tell the buffer from a store of pages: no write is lost  *)
(* by an eviction or by destroy(), and no id is handed out twice.          *)
AsPageStore == INSTANCE PageStore
  WITH used <- UsedIds, store <- [id \in live |-> Content(id)], fixed <- DOMAIN held
ImplementsPageStore == AsPageStore!Spec

(* evict_page ends: it finds a frame as long as one is not fixed.          *)
EvictionEnds == pc = "evict" ~> pc # "evict"
=============================================================================
