-------------------------------- MODULE Restore --------------------------------
(***************************************************************************)
(* The save browser: the context menu of a title and the panel behind it   *)
(* (src/src/dash_context_menu.c), its threads that ask the backup server   *)
(* for snapshots and restore one, and the server's answers                 *)
(* (src/tools/backup_server.py, LIST and RESTORE).                         *)
(*                                                                         *)
(* Everything the interface and the threads share is static, and read and  *)
(* written without a lock: a thread reads the title when it sends its      *)
(* request, not when it is created.  The interface is one thread; a timer  *)
(* calls the section's poll function, whichever section is shown by then.  *)
(*                                                                         *)
(* A title's saves are its files under UDATA and under TDATA, each root    *)
(* written as one file.  Every title has a title id, the server is         *)
(* configured, and the paths of its answers can be resolved.               *)
(***************************************************************************)
EXTENDS Integers, FiniteSets, Sequences

CONSTANTS
  Titles,
  NoTitle,     \* before any menu was opened
  Snaps,       \* the server's snapshots, newest first: Snaps[i][t][root]
  NoSave,      \* nothing of a title under a root
  MaxSnapshots, \* MAX_SNAPSHOTS, 32 in the code
  MaxFetches,  \* bounds on the fetch threads and the restore threads alive
  MaxRestores  \*   at a time

Roots     == {"UDATA", "TDATA"}
Names     == 1..Len(Snaps)
Fetches   == 1..MaxFetches
Restores  == 1..MaxRestores

ASSUME RestoreAssumption ==
  /\ Len(Snaps) \in Nat
  /\ \A i \in Names : DOMAIN Snaps[i] = Titles /\ \A t \in Titles : DOMAIN Snaps[i][t] = Roots
  /\ MaxSnapshots \in Nat \ {0} /\ MaxFetches \in Nat \ {0} /\ MaxRestores \in Nat \ {0}
  /\ NoTitle \notin Titles

VARIABLES
  screen,        \* "rails", "menu" or "panel"
  ctx_title_id,
  section,       \* "status", "force" or "restore", and whether its body is
  placeholder,   \*   only build_loading_placeholder's
  timer,         \* backup_poll_timer: whose poll function it calls, or "none"
  label,         \* backup_status_lbl, restore_status_lbl, force_btn_img and
                 \*   restore_btns: "null", "live", or "gone": deleted
  shown,         \* the snapshots of the rows on the screen
  snapshots, snapshot_count, restore_selected,
  restore_list_ready, restore_list_built, restore_in_progress,
  fetch,         \* fetch[k]: a fetch_snapshots_thread
  restore,       \* restore[k]: a restore_snapshot_thread, and (row, history) the
                 \*   title and the snapshot of the row the user chose it by
  mixed          \* history: a fetch overlapped another since the panel was
                 \*   opened, or is left from a panel before

panel  == << section, placeholder, timer, label, shown >>
list   == << snapshots, snapshot_count, restore_list_ready >>
choice == << restore_selected, restore_list_built >>
vars   == << screen, ctx_title_id, panel, list, choice, restore_in_progress,
             fetch, restore, mixed >>

NoFetch   == [ at |-> "none", of |-> NoTitle, next |-> 1 ]
NoRestore == [ at |-> "none", idx |-> 0, title |-> NoTitle, from |-> 0, left |-> {}, row |-> << >> ]

(***************************************************************************)
(* The server.                                                             *)
(***************************************************************************)

RootsOf(i, t) == { r \in Roots : Snaps[i][t][r] # NoSave }

(* _find_title_dir returns the first directory there is.                   *)
FirstRoot(i, t) == Snaps[i][t][IF "UDATA" \in RootsOf(i, t) THEN "UDATA" ELSE "TDATA"]

Keeps(t) == { i \in Names : RootsOf(i, t) # {} }

(* _handle_list leaves out what has not changed since the next newer one.  *)
Listed(t) ==
  { i \in Keeps(t) :
      ~ \E j \in Keeps(t) : /\ j < i /\ \A k \in Keeps(t) : ~(j < k /\ k < i)
                            /\ FirstRoot(j, t) = FirstRoot(i, t) }

(* The lines of the answers, newest first.                                 *)
Answers ==
  [ t \in Titles |->
      [ n \in 1..Cardinality(Listed(t)) |->
          CHOOSE i \in Listed(t) : Cardinality({ j \in Listed(t) : j <= i }) = n ] ]

ListOf(t) == Answers[t]

(***************************************************************************)
(* The initial state, and a fault.                                         *)
(***************************************************************************)

NoLabels == [ l \in {"status", "restore", "force", "rows"} |-> "null" ]

Init ==
  /\ screen = "rails" /\ ctx_title_id = NoTitle
  /\ section = "status" /\ placeholder = FALSE /\ timer = "none"
  /\ label = NoLabels /\ shown = << >>
  /\ snapshots = [ n \in 1..MaxSnapshots |-> 0 ] /\ snapshot_count = 0 /\ restore_selected = 0
  /\ restore_list_ready = FALSE /\ restore_list_built = FALSE
  /\ restore_in_progress = FALSE
  /\ fetch = [ k \in Fetches |-> NoFetch ]
  /\ restore = [ k \in Restores |-> NoRestore ]
  /\ mixed = FALSE

(* The program ends and is started again.                                  *)
Restart ==
  /\ screen' = "rails" /\ ctx_title_id' = NoTitle
  /\ section' = "status" /\ placeholder' = FALSE /\ timer' = "none"
  /\ label' = NoLabels /\ shown' = << >>
  /\ snapshots' = [ n \in 1..MaxSnapshots |-> 0 ] /\ snapshot_count' = 0 /\ restore_selected' = 0
  /\ restore_list_ready' = FALSE /\ restore_list_built' = FALSE
  /\ restore_in_progress' = FALSE
  /\ fetch' = [ k \in Fetches |-> NoFetch ]
  /\ restore' = [ k \in Restores |-> NoRestore ]
  /\ mixed' = FALSE

(***************************************************************************)
(* The sections of the panel.                                              *)
(***************************************************************************)

Deleted == [ l \in DOMAIN label |-> IF label[l] = "live" THEN "gone" ELSE label[l] ]

(* A new thread takes the first entry that is free: they have no names.     *)
FreeFetch ==
  { k \in Fetches : fetch[k].at = "none" /\ \A j \in 1..k - 1 : fetch[j].at # "none" }

(* build_status_section.                                                   *)
BuildStatus ==
  /\ label' = [ Deleted EXCEPT !["status"] = "live" ]
  /\ timer' = "status" /\ placeholder' = FALSE /\ shown' = << >>
  /\ UNCHANGED << fetch, restore_selected >>

(* build_force_section: the placeholder leaves the timer as it is.  What    *)
(* is_server_ready says is up to the backup client, which may get to its    *)
(* end, or start anew, at any time.                                        *)
BuildForce ==
  /\ shown' = << >>
  /\ \/ placeholder' = TRUE /\ label' = Deleted /\ UNCHANGED timer
     \/ /\ placeholder' = FALSE /\ timer' = "force"
        /\ label' = [ Deleted EXCEPT !["status"] = "live", !["force"] = "live" ]
  /\ UNCHANGED << fetch, restore_selected >>

(* build_restore_section: rows for the list, or a thread to fetch it.      *)
BuildRows ==
  /\ restore_list_ready /\ snapshot_count > 0
  /\ shown' = SubSeq(snapshots, 1, snapshot_count) /\ restore_selected' = 0
  /\ label' = [ Deleted EXCEPT !["restore"] = "live", !["rows"] = "live" ]

BuildNoRows ==
  /\ ~(restore_list_ready /\ snapshot_count > 0)
  /\ shown' = << >> /\ UNCHANGED restore_selected
  /\ label' = [ Deleted EXCEPT !["restore"] = "live", !["rows"] = "null" ]

BuildRestore ==
  /\ timer' = "restore"
  /\ \/ /\ placeholder' = TRUE
        /\ label' = Deleted /\ shown' = << >> /\ UNCHANGED << fetch, restore_selected >>
     \/ /\ placeholder' = FALSE
        /\ BuildRows \/ BuildNoRows
        /\ \/ restore_list_ready /\ UNCHANGED fetch
           \/ /\ ~restore_list_ready
              /\ \E k \in FreeFetch : fetch' = [ fetch EXCEPT ![k].at = "begin" ]

(* History, of a user who gets ahead of the threads; nothing keeps it from  *)
(* that.  The row a request stands for is the one it was chosen by, until   *)
(* another title, or fetches that overlap, change what it will send.        *)
Fetching == \E k \in Fetches : fetch[k].at # "none"
Unsent(k) == restore[k].at \in {"begin", "connect"}
Forgets(if) ==
  restore' = [ k \in Restores |->
                 IF if /\ Unsent(k) THEN [ restore[k] EXCEPT !.row = << >> ] ELSE restore[k] ]

(***************************************************************************)
(* The user and the timer: one thread, under the LVGL lock.                *)
(***************************************************************************)

(* dash_context_menu_open, which looks the title up.                       *)
OpenMenu(t) ==
  /\ screen = "rails"
  /\ screen' = "menu" /\ ctx_title_id' = t
  /\ Forgets(t # ctx_title_id)
  /\ UNCHANGED << panel, list, choice, restore_in_progress, fetch, mixed >>

CloseMenu ==
  /\ screen = "menu"
  /\ screen' = "rails"
  /\ UNCHANGED << ctx_title_id, panel, list, choice,
                  restore_in_progress, fetch, restore, mixed >>

(* Mutant: the list of the title before is kept.                           *)
OpenPanel_KeepsList ==
  /\ screen = "menu"
  /\ screen' = "panel" /\ section' = "status"
  /\ label' = [ label EXCEPT !["status"] = "live" ]
  /\ timer' = "status" /\ placeholder' = FALSE /\ shown' = << >>
  /\ restore_list_built' = FALSE /\ restore_selected' = 0
  /\ mixed' = Fetching /\ Forgets(Fetching)
  /\ UNCHANGED << ctx_title_id, list, restore_in_progress, fetch >>

(* ctx_open_backup_browser; the panel begins with its first section.       *)
OpenPanel ==
  /\ screen = "menu"
  /\ screen' = "panel" /\ section' = "status"
  /\ label' = [ label EXCEPT !["status"] = "live" ]
  /\ timer' = "status" /\ placeholder' = FALSE /\ shown' = << >>
  /\ snapshot_count' = 0 /\ restore_list_ready' = FALSE
  /\ restore_list_built' = FALSE /\ restore_selected' = 0
  /\ mixed' = Fetching /\ Forgets(Fetching)
  /\ UNCHANGED << ctx_title_id, snapshots, restore_in_progress, fetch >>

(* dash_panel_close, backup_panel_on_close; the menu is still below it.    *)
ClosePanel ==
  /\ screen = "panel"
  /\ screen' = "menu" /\ timer' = "none" /\ shown' = << >>
  /\ label' = [ Deleted EXCEPT !["status"] = "null", !["restore"] = "null" ]
  /\ UNCHANGED << ctx_title_id, section, placeholder, list, choice,
                  restore_in_progress, fetch, restore, mixed >>

(* Up and down in the panel's navigation.                                  *)
Turn(s) ==
  /\ screen = "panel" /\ s # section
  /\ section' = s
  /\ \/ s = "status" /\ BuildStatus
     \/ s = "force" /\ BuildForce
     \/ s = "restore" /\ BuildRestore
  /\ restore_list_built' = (restore_list_built /\ fetch' = fetch)
  /\ LET over == Fetching /\ fetch' # fetch IN mixed' = (mixed \/ over) /\ Forgets(over)
  /\ UNCHANGED << screen, ctx_title_id, list, restore_in_progress >>

(* restore_on_key: up and down among the rows.                             *)
Select ==
  /\ screen = "panel" /\ section = "restore"
  /\ restore_list_ready /\ snapshot_count > 0
  /\ \E d \in {-1, 1} : restore_selected' = (restore_selected + d + snapshot_count) % snapshot_count
  /\ UNCHANGED << screen, ctx_title_id, panel, list, restore_list_built,
                  restore_in_progress, fetch, restore, mixed >>

(* restore_on_key: A starts a thread; only the thread says that it runs.   *)
Enter ==
  /\ screen = "panel" /\ section = "restore"
  /\ restore_list_ready /\ snapshot_count > 0 /\ ~restore_in_progress
  /\ \E k \in Restores :
       /\ restore[k].at = "none"
       /\ restore' = [ restore EXCEPT ![k] =
            [ NoRestore EXCEPT !.at = "begin", !.idx = restore_selected, !.row =
                IF mixed \/ shown = << >> THEN << >>
                                          ELSE << ctx_title_id, shown[restore_selected + 1] >> ] ]
  /\ UNCHANGED << screen, ctx_title_id, panel, list, choice,
                  restore_in_progress, fetch, mixed >>

(* What the timer's function touches when it has something to write.       *)
Touches ==
  CASE timer = "status"  -> {"status"}
    [] timer = "force"   -> {"status", "force"}
    [] timer = "restore" -> {"restore"}
    [] timer = "none"    -> {}

(* force_on_key and restore_on_key restyle their buttons at every key.     *)
KeyTouches ==
  CASE section = "force" /\ label["force"] # "null"      -> {"status", "force"}
    [] section = "restore" /\ snapshot_count > 0         -> {"rows"}
    [] OTHER                                             -> {}

(* restore_poll_cb puts the list on the screen once it is there.           *)
ListDue ==
  /\ timer = "restore" /\ label["restore"] # "null" /\ ~restore_in_progress
  /\ restore_list_ready /\ ~restore_list_built /\ snapshot_count > 0

(* The timer or a key writes to an object that is deleted: the program may *)
(* end of it, or not.                                                      *)
TouchesDeleted ==
  /\ screen = "panel"
  /\ \E l \in KeyTouches \cup (IF ListDue THEN {} ELSE Touches) : label[l] = "gone"
  /\ Restart

(* dash_panel_rebuild_body, of the section that is open by now.            *)
PollBuilds ==
  /\ screen = "panel" /\ ListDue
  /\ restore_list_built' = TRUE
  /\ \/ section = "restore" /\ BuildRestore
     \/ section = "force" /\ BuildForce
  /\ UNCHANGED << screen, ctx_title_id, section, list, restore_in_progress, restore, mixed >>

(***************************************************************************)
(* fetch_snapshots_thread.                                                 *)
(***************************************************************************)

FetchBegin(k) ==
  /\ fetch[k].at = "begin"
  /\ fetch' = [ fetch EXCEPT ![k].at = "connect" ]
  /\ snapshot_count' = 0 /\ restore_list_ready' = FALSE
  /\ UNCHANGED << screen, ctx_title_id, panel, snapshots, choice,
                  restore_in_progress, restore, mixed >>

(* LIST, with the title of now.                                            *)
FetchAsk(k) ==
  /\ fetch[k].at = "connect"
  /\ fetch' = [ fetch EXCEPT ![k] =
                 [ at |-> "entries", of |-> ctx_title_id, next |-> 1 ] ]
  /\ UNCHANGED << screen, ctx_title_id, panel, list, choice,
                  restore_in_progress, restore, mixed >>

(* At most MAX_SNAPSHOTS lines are read.  Each goes where the shared count  *)
(* points.                                                                 *)
LastLine(t) == IF Len(ListOf(t)) > MaxSnapshots THEN MaxSnapshots ELSE Len(ListOf(t))

FetchEntry(k) ==
  /\ fetch[k].at = "entries" /\ fetch[k].next <= LastLine(fetch[k].of)
  /\ snapshot_count < MaxSnapshots
  /\ fetch' = [ fetch EXCEPT ![k].next = @ + 1 ]
  /\ snapshots' = [ snapshots EXCEPT ![snapshot_count + 1] = ListOf(fetch[k].of)[fetch[k].next] ]
  /\ snapshot_count' = snapshot_count + 1
  /\ UNCHANGED << screen, ctx_title_id, panel, restore_list_ready, choice,
                  restore_in_progress, restore, mixed >>

(* There is no check that it points into the array: what lies behind is    *)
(* overwritten, and the program ends of it (or goes on with anything).     *)
FetchOverruns(k) ==
  /\ fetch[k].at = "entries" /\ fetch[k].next <= LastLine(fetch[k].of)
  /\ snapshot_count = MaxSnapshots
  /\ Restart

(* Mutant: a server that cannot be reached leaves the list as it is.       *)
FetchEnd_Silent(k) ==
  /\ fetch[k].at \in {"connect", "entries"}
  /\ fetch' = [ fetch EXCEPT ![k] = NoFetch ]
  /\ restore_list_ready' = (fetch[k].at = "entries")
  /\ UNCHANGED << screen, ctx_title_id, panel, snapshots, snapshot_count, choice,
                  restore_in_progress, restore, mixed >>

(* The end of the list, no connection, or one that breaks.                 *)
FetchEnd(k) ==
  /\ fetch[k].at \in {"connect", "entries"}
  /\ fetch' = [ fetch EXCEPT ![k] = NoFetch ]
  /\ restore_list_ready' = TRUE
  /\ UNCHANGED << screen, ctx_title_id, panel, snapshots, snapshot_count, choice,
                  restore_in_progress, restore, mixed >>

(***************************************************************************)
(* restore_snapshot_thread.                                                *)
(***************************************************************************)

RestoreBegin(k) ==
  /\ restore[k].at = "begin"
  /\ restore' = [ restore EXCEPT ![k].at = "connect" ]
  /\ restore_in_progress' = TRUE
  /\ UNCHANGED << screen, ctx_title_id, panel, list, choice, fetch, mixed >>

(* Mutant: the row of now is sent, not the one that was chosen.            *)
RestoreAsk_RowOfNow(k) ==
  /\ restore[k].at = "connect"
  /\ LET i == restore_selected + 1 IN restore' = [ restore EXCEPT ![k] =
          [ at |-> "file", idx |-> 0, title |-> ctx_title_id, from |-> snapshots[i],
            left |-> RootsOf(snapshots[i], ctx_title_id), row |-> restore[k].row ] ]
  /\ UNCHANGED << screen, ctx_title_id, panel, list, choice,
                  restore_in_progress, fetch, mixed >>

(* RESTORE, with the name at the index and the title of now.               *)
RestoreAsk(k) ==
  /\ restore[k].at = "connect"
  /\ LET from == snapshots[restore[k].idx + 1]
     IN  restore' = [ restore EXCEPT ![k] =
           [ at |-> "file", idx |-> 0, title |-> ctx_title_id, from |-> from,
             left |-> RootsOf(from, ctx_title_id), row |-> restore[k].row ] ]
  /\ UNCHANGED << screen, ctx_title_id, panel, list, choice,
                  restore_in_progress, fetch, mixed >>

(* UDATA is sent before TDATA.                                             *)
NextRoot(k) == IF "UDATA" \in restore[k].left THEN "UDATA" ELSE "TDATA"

(* The files of a title, one of each root: fopen with "wb" empties the save *)
(* and what comes is written to it, or fails, and its bytes are skipped.    *)
RestoreFile(k) ==
  /\ restore[k].at = "file" /\ restore[k].left # {}
  /\ restore' = [ restore EXCEPT ![k].left = @ \ { NextRoot(k) } ]
  /\ UNCHANGED << screen, ctx_title_id, panel, list, choice,
                  restore_in_progress, fetch, mixed >>

(* Mutant: only the end of the transfer is reported.                       *)
RestoreEnd_Silent(k) ==
  /\ restore[k].at \in {"connect", "file"}
  /\ restore' = [ restore EXCEPT ![k] = NoRestore ]
  /\ restore_in_progress' = (restore[k].at # "file")
  /\ UNCHANGED << screen, ctx_title_id, panel, list, choice, fetch, mixed >>

(* All is written, there is no connection, the server refuses, or the      *)
(* connection breaks.                                                      *)
RestoreEnd(k) ==
  /\ restore[k].at \in {"connect", "file"}
  /\ restore' = [ restore EXCEPT ![k] = NoRestore ]
  /\ restore_in_progress' = FALSE
  /\ UNCHANGED << screen, ctx_title_id, panel, list, choice, fetch, mixed >>

(***************************************************************************)
(* Specification: the threads and the timer go on; the user need not.      *)
(***************************************************************************)

FetchStep(k) == FetchBegin(k) \/ FetchAsk(k) \/ FetchEntry(k) \/ FetchOverruns(k) \/ FetchEnd(k)

RestoreStep(k) ==
  RestoreBegin(k) \/ RestoreAsk(k) \/ RestoreFile(k) \/ RestoreEnd(k)

Next ==
  \/ \E t \in Titles : OpenMenu(t)
  \/ CloseMenu \/ OpenPanel \/ ClosePanel
  \/ \E s \in {"status", "force", "restore"} : Turn(s)
  \/ Select \/ Enter \/ TouchesDeleted \/ PollBuilds
  \/ \E k \in Fetches : FetchStep(k)
  \/ \E k \in Restores : RestoreStep(k)

Spec ==
  /\ Init /\ [][Next]_vars
  /\ WF_vars(PollBuilds)
  /\ \A k \in Fetches : WF_vars(FetchStep(k))
  /\ \A k \in Restores : WF_vars(RestoreStep(k))

(***************************************************************************)
(* Properties.                                                             *)
(***************************************************************************)

(* The list is within its array, a transfer has a title, a snapshot and    *)
(* roots that the snapshot has, and an index is one of the list.           *)
RestoreTypeOK ==
  /\ screen \in {"rails", "menu", "panel"} /\ ctx_title_id \in Titles \cup {NoTitle}
  /\ section \in {"status", "force", "restore"} /\ timer \in {"none", "status", "force", "restore"}
  /\ { placeholder, restore_list_ready, restore_list_built, restore_in_progress } \subseteq BOOLEAN
  /\ label \in [ DOMAIN NoLabels -> {"null", "live", "gone"} ]
  /\ snapshots \in [ 1..MaxSnapshots -> Names \cup {0} ] /\ shown \in Seq(Names)
  /\ snapshot_count \in 0..MaxSnapshots /\ restore_selected \in 0..MaxSnapshots - 1
  /\ \A k \in Fetches :
       /\ fetch[k].at \in {"none", "begin", "connect", "entries"}
       /\ fetch[k].next \in 1..MaxSnapshots + 1
  /\ \A k \in Restores :
       /\ restore[k].at \in {"none", "begin", "connect", "file"}
       /\ restore[k].at = "none" \/ restore[k].idx \in 0..MaxSnapshots - 1
       /\ restore[k].at = "file" =>
            /\ restore[k].title \in Titles /\ restore[k].from \in Names
            /\ restore[k].left \subseteq RootsOf(restore[k].from, restore[k].title)
  /\ mixed \in BOOLEAN

(* A line is written behind the end of the array only when two fetches     *)
(* overlapped: by itself each reads no more lines than there is room for.  *)
ListFits ==
  \A k \in Fetches :
    fetch[k].at = "entries" /\ fetch[k].next <= LastLine(fetch[k].of)
      => snapshot_count < MaxSnapshots \/ mixed

(* The rows on the screen are the newest snapshots of the title in whose   *)
(* menu they are shown, in the order that an index into the shared array   *)
(* means, and the selection is one of them, whenever menus and panels were *)
(* closed or sections turned: until fetches overlap.                       *)
ShownListIsTitles ==
  screen = "panel" /\ shown # << >> /\ ~mixed =>
    /\ Len(shown) <= Len(ListOf(ctx_title_id))
    /\ \A n \in 1..Len(shown) : shown[n] = ListOf(ctx_title_id)[n] /\ shown[n] = snapshots[n]
    /\ restore_selected < Len(shown)

(* The array and what is on the screen of it.                              *)
RestoreInv == RestoreTypeOK /\ ListFits /\ ShownListIsTitles

(* What is written over saves is the snapshot of the row that the user      *)
(* chose, to the saves of the title whose menu the row was in, whatever was *)
(* closed, turned to, fetched again or broken off since.  Excepted is a     *)
(* request without a row: chosen while none was shown or among mixed ones,  *)
(* or overtaken by another title or by fetches that overlap.               *)
OnlyChosenIsRestored ==
  \A k \in Restores :
    restore[k].at = "file" /\ restore[k].row # << >>
      => restore[k].row = << restore[k].title, restore[k].from >>

(* Whatever becomes of its connection, a restore comes to an end, and the  *)
(* next can be asked for.                                                  *)
RestoreEnds == []<>~restore_in_progress

(* A user who stays in the section and restores nothing more is shown the  *)
(* list, or that there is none, whatever becomes of the connection and     *)
(* whatever fetches overlapped before.                                     *)
Rests ==
  /\ screen = "panel" /\ section = "restore" /\ ~placeholder
  /\ \A k \in Restores : restore[k].at = "none"

ListIsShown ==
  <>[]Rests => <>[](restore_list_ready /\ (shown # << >> \/ snapshot_count = 0))
================================================================================
