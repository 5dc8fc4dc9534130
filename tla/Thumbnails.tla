------------------------------- MODULE Thumbnails -------------------------------
(***************************************************************************)
(* The thumbnails of the rail: dash_scroller.c on top of the JPEG decoder. *)
(*                                                                         *)
(* A tile asks for its thumbnail when it is drawn, the decoder delivers    *)
(* it, an LRU cache bounds the memory of the decoded images, and a timer   *)
(* aborts the jobs of tiles that were scrolled away.  The UI thread runs   *)
(* under the LVGL lock and so does the body of the callback: the lock is   *)
(* held exactly while a call of jpeg_decoder_queue is in progress, every   *)
(* other handler being one step.  The decoder thread runs freely outside   *)
(* its callback.                                                           *)
(*                                                                         *)
(* The program stops when an assertion fails or freed memory is used:      *)
(* `fault' says which, and nothing happens after it.                       *)
(***************************************************************************)
EXTENDS JpegDecoder, SequencesExt

CONSTANTS
  BadFiles,   \* the titles whose thumbnail cannot be opened or is no JPEG
  CacheSize,  \* how many decoded thumbnails the cache's memory holds
  MaxListed,  \* bound on jpeg_decomp_list, which grows with every request
  MayClear    \* whether pages are cleared (a rescan, or "clear recent")

ASSUME CacheSizeAssumption == CacheSize \in Nat \ {0}
ASSUME BadFilesAssumption == BadFiles \subseteq Users
ASSUME BoundsAssumption == MaxListed \in Nat /\ MayClear \in BOOLEAN

VARIABLES
  life,     \* life[t]: the tile is "new" (not yet scanned), "alive", "deleted"
  handle,   \* jpg_info->decomp_handle
  mem,      \* jpg_info->mem # NULL
  canvas,   \* lv_obj_is_valid(jpg_info->canvas)
  pinned,   \* jpg_info->prevent_abort
  visible,  \* lv_obj_is_visible(image_container)
  list,     \* jpeg_decomp_list, as the tiles of its entries
  cache,    \* thumbnail_cache, least recently used first
  fault     \* why the program stopped: "none", "assert" or "deleted"

tileVars == << life, handle, mem, canvas, pinned, visible, list, cache, fault >>
thumbVars == << vars, tileVars >>

ThumbInit ==
  /\ Init
  /\ life    = [t \in Users |-> "new"]
  /\ handle  = [t \in Users |-> Null]
  /\ mem     = [t \in Users |-> FALSE]
  /\ canvas  = [t \in Users |-> FALSE]
  /\ pinned  = [t \in Users |-> FALSE]
  /\ visible = [t \in Users |-> FALSE]
  /\ list    = << >>
  /\ cache   = << >>
  /\ fault   = "none"

(* The UI thread has the LVGL lock to itself, and the program still runs.  *)
UiTurn == call = Idle /\ fault = "none"

(***************************************************************************)
(* The environment: the scan thread adds tiles, the user scrolls.          *)
(***************************************************************************)
AddTile(t) ==
  /\ UiTurn /\ life[t] = "new"
  /\ life' = [life EXCEPT ![t] = "alive"]
  /\ UNCHANGED << vars, handle, mem, canvas, pinned, visible, list, cache, fault >>

Scroll(t) ==
  /\ UiTurn /\ life[t] = "alive"
  /\ visible' = [visible EXCEPT ![t] = ~@]
  /\ UNCHANGED << vars, life, handle, mem, canvas, pinned, list, cache, fault >>

(***************************************************************************)
(* update_thumbnail_callback.                                              *)
(***************************************************************************)
Wanted(t) == handle[t] = Null /\ ~mem[t]

(* lv_lru_get makes the entry the most recently used one.                  *)
Touched(t) ==
  LET i == CHOOSE i \in 1..Len(cache) : cache[i] = t IN
  IF Contains(cache, t) THEN Append(RemoveAt(cache, i), t) ELSE cache

UpdateThumbnail(t) ==
  \/ /\ Wanted(t) /\ Len(list) < MaxListed
     /\ QueueAlloc(t)
     /\ UNCHANGED cache
  \/ /\ Wanted(t) /\ ~\E s \in Slots : Allocatable(s)
     /\ UNCHANGED << vars, cache >>
  \/ /\ mem[t]
     /\ cache' = Touched(t)
     /\ UNCHANGED vars

(* The draw event of a visible tile.                                       *)
Draw(t) ==
  /\ UiTurn /\ life[t] = "alive" /\ visible[t]
  /\ UpdateThumbnail(t)
  /\ UNCHANGED << life, handle, mem, canvas, pinned, visible, list, fault >>

(* A key moved the selection near the tile: its thumbnail is loaded ahead. *)
Preload(t) ==
  /\ UiTurn /\ life[t] = "alive"
  /\ pinned' = [pinned EXCEPT ![t] = TRUE]
  /\ \/ UpdateThumbnail(t)
     \/ handle[t] # Null /\ UNCHANGED << vars, cache >>
  /\ UNCHANGED << life, handle, mem, canvas, visible, list, fault >>

QueueSteps ==
  /\ fault = "none"
  /\ QueueFill \/ QueueLink
  /\ UNCHANGED tileVars

(* Mutant: the tile is not listed.                                         *)
QueueReturns_Unlisted ==
  /\ fault = "none"
  /\ QueuePost
  /\ handle' = [handle EXCEPT ![call.user] = call.slot]
  /\ UNCHANGED << life, mem, canvas, pinned, visible, list, cache, fault >>

(* jpeg_decoder_queue returns: the tile keeps the handle and is listed.    *)
QueueReturns ==
  /\ fault = "none"
  /\ QueuePost
  /\ handle' = [handle EXCEPT ![call.user] = call.slot]
  /\ list'   = Append(list, call.user)
  /\ UNCHANGED << life, mem, canvas, pinned, visible, cache, fault >>

(***************************************************************************)
(* jpeg_clear_timer, for one entry of the list: its other entries are      *)
(* visited in further steps, the decoder thread running in between.        *)
(***************************************************************************)
(* Mutant: what was loaded ahead is aborted like everything else.          *)
ScrolledAway_Pinned(t) == ~visible[t]

ScrolledAway(t) == ~visible[t] /\ ~pinned[t]

(* Mutant: the aborted job's handle is not forgotten.                      *)
ClearTimer_Keeps(i) ==
  LET t == list[i] IN
  /\ UiTurn
  /\ IF life[t] = "deleted"
     THEN /\ fault' = "deleted"
          /\ UNCHANGED << vars, list >>
     ELSE /\ IF ScrolledAway(t) THEN Abort(handle[t]) ELSE UNCHANGED vars
          /\ list' = IF ScrolledAway(t) THEN RemoveAt(list, i) ELSE list
          /\ UNCHANGED fault
  /\ UNCHANGED << life, handle, mem, canvas, pinned, visible, cache >>

ClearTimer(i) ==
  LET t == list[i]
      h == IF ScrolledAway(t) THEN Null ELSE handle[t]
  IN
  /\ UiTurn
  /\ IF life[t] = "deleted"
     THEN /\ fault' = "deleted"
          /\ UNCHANGED << vars, handle, list >>
     ELSE /\ IF ScrolledAway(t) THEN Abort(handle[t]) ELSE UNCHANGED vars
          /\ handle' = [handle EXCEPT ![t] = h]
          /\ list'   = IF h = Null THEN RemoveAt(list, i) ELSE list
          /\ UNCHANGED fault
  /\ UNCHANGED << life, mem, canvas, pinned, visible, cache >>

(***************************************************************************)
(* dash_scroller_clear_page and item_deletion_callback: the tile and what  *)
(* hangs off it are freed; neither its job, nor the list, nor the cache    *)
(* hears of it.                                                            *)
(***************************************************************************)
DeleteTile(t) ==
  /\ MayClear
  /\ UiTurn /\ life[t] = "alive"
  /\ life'   = [life EXCEPT ![t] = "deleted"]
  /\ handle' = [handle EXCEPT ![t] = Null]
  /\ canvas' = [canvas EXCEPT ![t] = FALSE]
  /\ UNCHANGED << vars, mem, pinned, visible, list, cache, fault >>

(***************************************************************************)
(* jpg_decompression_complete_cb, run by the decoder thread.               *)
(***************************************************************************)

(* No image: the tile may be asked for again.                              *)
CallbackAborted ==
  LET t == user[cur] IN
  /\ UiTurn /\ dpc = "deliver" /\ ~image /\ life[t] = "alive"
  /\ Deliver
  /\ handle' = [handle EXCEPT ![t] = Null]
  /\ UNCHANGED << life, mem, canvas, pinned, visible, list, cache, fault >>

(* The tile shows the image on a new canvas, which lv_lru_set records.     *)
(* Setting a key again frees its former value, which is the title itself:  *)
(* cache_free takes back what the callback has just stored.                *)
CallbackRepeated ==
  LET t == user[cur] IN
  /\ UiTurn /\ dpc = "deliver" /\ image /\ life[t] = "alive" /\ Contains(cache, t)
  /\ Deliver
  /\ handle' = [handle EXCEPT ![t] = Null]
  /\ mem'    = [mem EXCEPT ![t] = FALSE]
  /\ canvas' = [canvas EXCEPT ![t] = FALSE]
  /\ cache'  = Touched(t)
  /\ UNCHANGED << life, pinned, visible, list, fault >>

(* Mutants: the handle of the finished job stays; the image is not charged *)
(* to the cache.                                                           *)
CallbackFits_Keeps ==
  LET t == user[cur] IN
  /\ UiTurn /\ dpc = "deliver" /\ image /\ life[t] = "alive" /\ ~Contains(cache, t)
  /\ Len(cache) < CacheSize
  /\ Deliver
  /\ mem'    = [mem EXCEPT ![t] = TRUE]
  /\ canvas' = [canvas EXCEPT ![t] = TRUE]
  /\ cache'  = Append(cache, t)
  /\ UNCHANGED << life, handle, pinned, visible, list, fault >>

CallbackFits ==
  LET t == user[cur] IN
  /\ UiTurn /\ dpc = "deliver" /\ image /\ life[t] = "alive" /\ ~Contains(cache, t)
  /\ Len(cache) < CacheSize
  /\ Deliver
  /\ handle' = [handle EXCEPT ![t] = Null]
  /\ mem'    = [mem EXCEPT ![t] = TRUE]
  /\ canvas' = [canvas EXCEPT ![t] = TRUE]
  /\ cache'  = Append(cache, t)
  /\ UNCHANGED << life, pinned, visible, list, fault >>

(* The cache is full: cache_free evicts the least recently used title,     *)
(* asserting that it has a canvas and an image.                            *)
CallbackEvicts ==
  LET t == user[cur]
      v == Head(cache)
  IN
  /\ UiTurn /\ dpc = "deliver" /\ image /\ life[t] = "alive" /\ ~Contains(cache, t)
  /\ Len(cache) = CacheSize
  /\ life[v] = "alive" /\ canvas[v] /\ mem[v]
  /\ dpc'    = "release"
  /\ image'  = FALSE
  /\ state'  = Aborted(handle[v])
  /\ handle' = [handle EXCEPT ![t] = Null, ![v] = Null]
  /\ mem'    = [mem EXCEPT ![t] = TRUE, ![v] = FALSE]
  /\ canvas' = [canvas EXCEPT ![t] = TRUE, ![v] = FALSE]
  /\ cache'  = Append(Tail(cache), t)
  /\ UNCHANGED << user, next, qhead, mpool_free, sem, running, call, cur, stack,
                  life, pinned, visible, list, fault >>

(* The callback uses a deleted tile, evicts one, or fails the assertions.  *)
CallbackFaults ==
  LET t == user[cur]
      v == Head(cache)
      evicts == image /\ ~Contains(cache, t) /\ Len(cache) = CacheSize
  IN
  /\ UiTurn /\ dpc = "deliver"
  /\ \/ /\ life[t] = "deleted" \/ (evicts /\ life[v] = "deleted")
        /\ fault' = "deleted"
     \/ /\ life[t] = "alive" /\ evicts /\ life[v] = "alive"
        /\ ~(canvas[v] /\ mem[v])
        /\ fault' = "assert"
  /\ UNCHANGED << vars, life, handle, mem, canvas, pinned, visible, list, cache >>

Callback ==
  CallbackAborted \/ CallbackRepeated \/ CallbackFits \/ CallbackEvicts
    \/ CallbackFaults

(* The rest of the decoder thread; the file decides whether it opens.      *)
DecoderSteps ==
  /\ fault = "none"
  /\ \/ SemWait \/ Pop \/ DropAborted \/ StartDecode \/ DecodeSeesAbort \/ Release
     \/ cur # Null /\ user[cur] \in BadFiles /\ (OpenFails \/ DecodeFails)
     \/ cur # Null /\ user[cur] \notin BadFiles /\ DecodeDone
  /\ UNCHANGED tileVars

Halted == fault # "none" /\ UNCHANGED thumbVars

ThumbNext ==
  \/ \E t \in Users :
       AddTile(t) \/ Scroll(t) \/ Draw(t) \/ Preload(t) \/ DeleteTile(t)
  \/ \E i \in 1..Len(list) : ClearTimer(i)
  \/ QueueSteps \/ QueueReturns
  \/ Callback \/ DecoderSteps
  \/ Halted

ThumbSpec == ThumbInit /\ [][ThumbNext]_thumbVars

(* The decoder thread is scheduled, and a call once begun returns.         *)
ThumbFairSpec ==
  /\ ThumbSpec
  /\ WF_thumbVars(DecoderSteps) /\ WF_thumbVars(Callback)
  /\ WF_thumbVars(QueueSteps) /\ WF_thumbVars(QueueReturns)

(***************************************************************************)
(* Properties.                                                             *)
(***************************************************************************)

(* Every variable of the pipeline holds a value of its type.               *)
ThumbTypeOK ==
  /\ life    \in [Users -> {"new", "alive", "deleted"}]
  /\ handle  \in [Users -> Slots \cup {Null}]
  /\ mem     \in [Users -> BOOLEAN]
  /\ canvas  \in [Users -> BOOLEAN]
  /\ pinned  \in [Users -> BOOLEAN]
  /\ visible \in [Users -> BOOLEAN]
  /\ list    \in Seq(Users) /\ Len(list) <= MaxListed
  /\ cache   \in Seq(Users)
  /\ fault   \in {"none", "assert", "deleted"}

Alive == {t \in Users : life[t] = "alive"}

(* A tile never has both an image and a job it waits for: nothing it could *)
(* still receive would overwrite the image (dash_scroller.c:500, 446-491). *)
PendingOrLoaded == \A t \in Alive : handle[t] = Null \/ ~mem[t]

(* A tile that waits for a job is in jpeg_decomp_list, so the timer can    *)
(* abort the job when the tile is scrolled away (dash_scroller.c:505-506). *)
PendingIsListed == \A t \in Alive : handle[t] # Null => Contains(list, t)

(* Every image a tile owns is charged to the cache exactly once, so the    *)
(* cache's memory bounds the images on the rail (dash_scroller.c:487).     *)
ImagesAreCharged ==
  /\ \A t \in Alive : mem[t] => Contains(cache, t)
  /\ IsInjective(cache)
  /\ Len(cache) <= CacheSize

(* What the list, the cache, the handles and the tiles owe each other.     *)
ThumbInv == ThumbTypeOK /\ PendingIsListed /\ ImagesAreCharged

(* A handle that outlived its job.  The slot may be another tile's by now. *)
Stale(t) ==
  handle[t] # Null /\ ~(state[handle[t]] = "queued" /\ user[handle[t]] = t)

NoneStale == \A t \in Users : ~Stale(t)

(* The callback is what takes a tile's handle back, and a file that cannot *)
(* be read never gets one (jpg_decoder.c:106, 140): the first handle to    *)
(* outlive its job is of such a file, whatever was aborted or delivered    *)
(* before.                                                                 *)
UnreadableGoStaleFirst ==
  [][NoneStale => \A t \in Users : Stale(t)' => t \in BadFiles]_thumbVars

(* Aborting is an affair of the job's owner: when a job is aborted, it is  *)
(* its own tile that forgets the handle.  "If the job is finished, this    *)
(* has no effect" (jpg_decoder.h:43): until a handle goes stale.           *)
AbortIsOwners ==
  [][NoneStale =>
       \A s \in Slots :
         state[s] = "queued" /\ state'[s] = "aborted" =>
           handle[user[s]] = s /\ handle'[user[s]] = Null]_thumbVars

(* The job of a tile that was loaded ahead is never aborted, wherever the  *)
(* user scrolls afterwards (dash_scroller.c:821, 1210), until a handle     *)
(* goes stale: the timer aborts through it whatever job has the slot.      *)
PreloadSurvives ==
  [][NoneStale =>
       \A s \in Slots :
         state[s] = "queued" /\ state'[s] = "aborted" => ~pinned[user[s]]]_thumbVars

(* Once the user rests, no tile stays pending: its job ends, and it may    *)
(* ask again or has its image; only where some file is unreadable may a    *)
(* stale handle stay.  (Until then newer jobs may come first.)             *)
PendingEnds ==
  <>[](call = Idle) =>
    \A t \in Users : \/ <>[](handle[t] = Null) \/ <>(fault # "none")
                     \/ BadFiles # {} /\ <>[]Stale(t)

================================================================================
