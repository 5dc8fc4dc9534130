-------------------------------- MODULE Library --------------------------------
(***************************************************************************)
(* The library: the table of titles (src/src/dash_database.c), the rails   *)
(* that show it (dash_scroller.c), and what the menus and the launcher do  *)
(* to it (dash_mainmenu.c, dash_launcher.c).                               *)
(*                                                                         *)
(* The table is on disk, SQLite commits each statement, and a console is   *)
(* switched off at any time.  Rows have the ids the program gives them: a  *)
(* counter that starts at 0 with the program for the titles found on disk, *)
(* and numbers above 10000 for the titles started from the file browser.   *)
(* A rebuild runs on a thread of its own before the interface exists; a    *)
(* rescan runs on the UI thread, which keeps the LVGL lock; the tiles of a *)
(* page are added by a scan thread that needs the lock for each.           *)
(*                                                                         *)
(* A title stands for its folder, its launch path and its name.            *)
(***************************************************************************)
EXTENDS Naturals, FiniteSets, Sequences, FiniteSetsExt

CONSTANTS
  Pages,       \* the pages that have search paths, in the order of the file
  Titles,      \* the folders that may hold a title
  Home,        \* Home[t]: the page whose search path the folder is in
  Unreadable,  \* folders whose default.xbe cannot be parsed
  Null,        \* no title; the folder is not opened
  MaxThreads,  \* bound on the scan threads alive at a time
  LastIndex,   \* bound on item_index
  MaxBoots,    \* bound on the number of starts
  MaxChanges   \* bound on the folders that come or go

PageSet  == { Pages[i] : i \in 1..Len(Pages) }
Shown    == << "Recent" >> \o Pages   \* the rails: db_scan_thread_f's pages
Threads  == 1..MaxThreads

ASSUME LibraryAssumption ==
  /\ Pages \in Seq(PageSet)
  /\ PageSet \cap {"Recent", "__RECENT__"} = {}
  /\ Home \in [Titles -> PageSet]
  /\ Unreadable \subseteq Titles
  /\ Null \notin Titles /\ \A S \in SUBSET Titles : Null # S

ASSUME BoundsAssumption ==
  /\ LastIndex \in 0..10000 /\ MaxBoots \in Nat /\ MaxChanges \in Nat
  /\ MaxThreads \in Nat /\ MaxThreads > Len(Pages)

VARIABLES
  disk,        \* the folders that are there
  table,       \* xbox_titles: "none", "wrong" columns, or "ok"
  rows,        \* rows[id]: its title, page and last_launch
  boots, changes, \* counted for the bounds
  pc,          \* "off", "rebuild", "run", "rescan", or "aborted" by an assert
  item_index,
  todo,        \* the pages the rebuild or the rescan still has to parse
  left,        \* what FindNextFile still returns of the first of them
  tiles,       \* tiles[p]: the id and the title of each tile of a rail
  scan,        \* scan[k]: a thread in db_scan_thread_f
  mine,        \* mine[k]: whether the tiles it has added are "there", or some "gone"
  dash_launch_path,
  rebuilt,     \* history: this session began with a rebuild
  changed      \* history: pages whose folders or rows changed since parsed

stored  == << disk, table, rows, boots, changes >>
parsing == << item_index, todo, left, rebuilt, changed >>
rails   == << tiles, scan, mine, dash_launch_path >>
vars    == << stored, pc, parsing, rails >>

NoRow     == [ id \in {} |-> Null ]
NoScan    == [ page |-> "Recent", at |-> "done", items |-> {} ]
NoneMine  == [ k \in Threads |-> "none" ]
NoTiles   == [ p \in PageSet \cup {"Recent"} |-> {} ]
Launchable(t) == t \in disk \ Unreadable
Row(t, p, when) == [ title |-> t, page |-> p, last |-> when ]
Inserted(id, r) == [ i \in DOMAIN rows \cup {id} |-> IF i = id THEN r ELSE rows[i] ]
RowsOf(p) == { id \in DOMAIN rows : rows[id].page = p }
Starting(p)  == [ page |-> p, at |-> "query", items |-> {} ]

Init ==
  /\ disk \in SUBSET Titles /\ table \in {"none", "wrong"} /\ rows = NoRow
  /\ boots = 0 /\ changes = 0 /\ pc = "off"
  /\ item_index = 0 /\ todo = << >> /\ left = Null
  /\ tiles = NoTiles /\ scan = [ k \in Threads |-> NoScan ] /\ mine = NoneMine
  /\ dash_launch_path = Null /\ rebuilt = FALSE /\ changed = PageSet

(* The program is gone, and with it everything but what is stored.         *)
Off ==
  /\ pc' = "off"
  /\ item_index' = 0 /\ todo' = << >> /\ left' = Null
  /\ tiles' = NoTiles /\ scan' = [ k \in Threads |-> NoScan ] /\ mine' = NoneMine
  /\ dash_launch_path' = Null /\ rebuilt' = FALSE /\ changed' = PageSet

(***************************************************************************)
(* Start: db_open, db_init, dash_create or the rebuild thread.             *)
(***************************************************************************)

(* dash_scroller_scan_db: a scan thread for every page.                    *)
DashCreate ==
  /\ pc' = "run"
  /\ scan' = [ k \in Threads |-> IF k <= Len(Shown) THEN Starting(Shown[k]) ELSE NoScan ]

(* db_init finds the titles of an earlier session.                         *)
BootWithTitles ==
  /\ pc = "off" /\ boots < MaxBoots
  /\ table = "ok" /\ DOMAIN rows # {}
  /\ boots' = boots + 1
  /\ DashCreate
  /\ UNCHANGED << disk, table, rows, changes, parsing, tiles, mine, dash_launch_path >>

(* No table, one with other columns (it is dropped), or an empty one.      *)
BootRebuilds ==
  /\ pc = "off" /\ boots < MaxBoots
  /\ table # "ok" \/ DOMAIN rows = {}
  /\ boots' = boots + 1
  /\ table' = IF table = "wrong" THEN "none" ELSE table
  /\ pc' = "rebuild" /\ todo' = Pages /\ rebuilt' = TRUE
  /\ UNCHANGED << disk, rows, changes, item_index, left, changed, rails >>

CreateTable ==
  /\ pc = "rebuild" /\ table = "none"
  /\ table' = "ok"
  /\ UNCHANGED << disk, rows, boots, changes, pc, parsing, rails >>

RebuildPage ==
  /\ pc = "rebuild" /\ table = "ok" /\ todo # << >> /\ left = Null
  /\ left' = { t \in disk : Home[t] = Head(todo) }
  /\ changed' = changed \ {Head(todo)}
  /\ UNCHANGED << stored, pc, item_index, todo, rebuilt, rails >>

RebuildPageDone ==
  /\ pc = "rebuild" /\ left = {}
  /\ todo' = Tail(todo) /\ left' = Null
  /\ UNCHANGED << stored, pc, item_index, rebuilt, changed, rails >>

(* db_rebuild_thread_f takes the lock and creates the interface.           *)
RebuildDone ==
  /\ pc = "rebuild" /\ table = "ok" /\ todo = << >>
  /\ DashCreate
  /\ UNCHANGED << stored, parsing, tiles, mine, dash_launch_path >>

(***************************************************************************)
(* parse_folder, on the rebuild thread or on the UI thread: one folder.    *)
(***************************************************************************)

(* No default.xbe any more, or neither metadata nor a title.               *)
SkipFolder(t) ==
  /\ left # Null /\ t \in left
  /\ ~Launchable(t)
  /\ left' = left \ {t}
  /\ UNCHANGED << stored, pc, item_index, todo, rebuilt, changed, rails >>

(* db_insert with the next id.  id is the PRIMARY KEY: a row that has it    *)
(* makes the statement fail, and assert(rc == SQLITE_DONE) ends the program. *)
AddTitle(t) ==
  /\ left # Null /\ t \in left
  /\ Launchable(t) /\ item_index < LastIndex
  /\ IF item_index \in DOMAIN rows
     THEN pc' = "aborted" /\ UNCHANGED rows
     ELSE /\ rows' = Inserted(item_index, Row(t, Head(todo), "never"))
          /\ UNCHANGED pc
  /\ item_index' = item_index + 1
  /\ left' = left \ {t}
  /\ UNCHANGED << disk, table, boots, changes, todo, rebuilt, changed, rails >>

(***************************************************************************)
(* dash_scroller_rescan_page, for one page or (rescan_all_cb) for all.     *)
(***************************************************************************)

FreeThreads == { k \in Threads : scan[k].at = "done" }

Rescan(sel) ==
  /\ pc = "run" /\ sel # << >>
  /\ Cardinality(FreeThreads) >= Len(sel)
  /\ pc' = "rescan" /\ todo' = sel
  /\ UNCHANGED << stored, item_index, left, rebuilt, changed, rails >>

(* dash_scroller_clear_page deletes the tiles, those of a running thread too. *)
ClearPage(p) ==
  /\ tiles' = [ tiles EXCEPT ![p] = {} ]
  /\ mine'  = [ k \in Threads |-> IF scan[k].page = p /\ mine[k] = "there" THEN "gone" ELSE mine[k] ]

(* Mutant: the numbering of the rows begins again.                         *)
RescanPage_Renumbers ==
  /\ pc = "rescan" /\ todo # << >> /\ left = Null
  /\ LET p == Head(todo)
     IN  /\ ClearPage(p)
         /\ rows'  = [ id \in DOMAIN rows \ RowsOf(p) |-> rows[id] ]
         /\ left'  = { t \in disk : Home[t] = p }
         /\ changed' = changed \ {p}
  /\ item_index' = 0
  /\ UNCHANGED << disk, table, boots, changes, pc, todo, rebuilt, scan, dash_launch_path >>

(* Mutant: what the page listed before stays in the table.                 *)
RescanPage_Adds ==
  /\ pc = "rescan" /\ todo # << >> /\ left = Null
  /\ LET p == Head(todo)
     IN  /\ ClearPage(p)
         /\ left'  = { t \in disk : Home[t] = p }
         /\ changed' = changed \ {p}
  /\ UNCHANGED << stored, pc, item_index, todo, rebuilt, scan, dash_launch_path >>

(* The tiles are deleted, then the rows, then the folders are looked at.   *)
RescanPage ==
  /\ pc = "rescan" /\ todo # << >> /\ left = Null
  /\ LET p == Head(todo)
     IN  /\ ClearPage(p)
         /\ rows'  = [ id \in DOMAIN rows \ RowsOf(p) |-> rows[id] ]
         /\ left'  = { t \in disk : Home[t] = p }
         /\ changed' = changed \ {p}
  /\ UNCHANGED << disk, table, boots, changes, pc, item_index, todo, rebuilt, scan, dash_launch_path >>

(* Mutant: no scan thread shows the new rows while an older one still runs. *)
RescanPageDone_Reuses ==
  /\ pc = "rescan" /\ left = {}
  /\ scan' = IF \E k \in Threads : scan[k].at # "done" /\ scan[k].page = Head(todo)
             THEN scan
             ELSE [ scan EXCEPT ![Min(FreeThreads)] = Starting(Head(todo)) ]
  /\ todo' = Tail(todo) /\ left' = Null
  /\ pc' = IF Tail(todo) = << >> THEN "run" ELSE "rescan"
  /\ UNCHANGED << stored, item_index, rebuilt, changed, tiles, mine, dash_launch_path >>

(* The page is shown by a new scan thread.                                 *)
RescanPageDone ==
  /\ pc = "rescan" /\ left = {}
  /\ scan' = [ scan EXCEPT ![Min(FreeThreads)] = Starting(Head(todo)) ]
  /\ todo' = Tail(todo) /\ left' = Null
  /\ pc' = IF Tail(todo) = << >> THEN "run" ELSE "rescan"
  /\ UNCHANGED << stored, item_index, rebuilt, changed, tiles, mine, dash_launch_path >>

(***************************************************************************)
(* db_scan_thread_f: a query, then a tile at a time under the LVGL lock,   *)
(* then the thumbnails of those tiles.                                     *)
(***************************************************************************)

(* Recent lists what was launched since it was cleared, of every page.     *)
Selected(p) ==
  IF p = "Recent" THEN { id \in DOMAIN rows : rows[id].last = "since" } ELSE RowsOf(p)

Query(k) ==
  /\ pc \in {"run", "rescan"} /\ scan[k].at = "query"
  /\ scan' = [ scan EXCEPT ![k].at = "add",
                           ![k].items = { [ id |-> i, title |-> rows[i].title ] :
                                          i \in Selected(scan[k].page) } ]
  /\ UNCHANGED << stored, pc, parsing, tiles, mine, dash_launch_path >>

AddTile(k) ==
  /\ pc = "run" /\ scan[k].at = "add"
  /\ \E x \in scan[k].items :
       /\ tiles' = [ tiles EXCEPT ![scan[k].page] = @ \cup {x} ]
       /\ scan'  = [ scan EXCEPT ![k].items = @ \ {x} ]
  /\ mine' = [ mine EXCEPT ![k] = IF @ = "none" THEN "there" ELSE @ ]
  /\ UNCHANGED << stored, pc, parsing, dash_launch_path >>

(* item_scan_add's second pass goes over its tiles again, without the lock: *)
(* it may die of one that is deleted, whose user_data it reads and to which *)
(* it gives a callback.                                                    *)
DeadTile(k) ==
  /\ pc \in {"run", "rescan"} /\ scan[k].at = "add" /\ scan[k].items = {}
  /\ mine[k] = "gone"
  /\ Off
  /\ UNCHANGED stored

ScanEnds(k) ==
  /\ pc = "run" /\ scan[k].at = "add" /\ scan[k].items = {}
  /\ scan' = [ scan EXCEPT ![k] = NoScan ] /\ mine' = [ mine EXCEPT ![k] = "none" ]
  /\ UNCHANGED << stored, pc, parsing, tiles, dash_launch_path >>

(***************************************************************************)
(* The user, at the rails and in the menus.                                *)
(***************************************************************************)

(* The path read by the tile's id; without a row the buffer is unchanged.  *)
PathOf(x) == IF x.id \in DOMAIN rows THEN rows[x.id].title ELSE dash_launch_path

Played(id) == [ rows EXCEPT ![id].last = "since" ]

(* Enter on a tile starts its title, which ends the dashboard.             *)
LaunchTile ==
  /\ pc = "run"
  /\ \E p \in DOMAIN tiles : \E x \in tiles[p] :
       /\ Launchable(PathOf(x))
       /\ rows' = IF x.id \in DOMAIN rows THEN Played(x.id) ELSE rows
  /\ Off
  /\ UNCHANGED << disk, table, boots, changes >>

LaunchRefused ==
  /\ pc = "run"
  /\ \E p \in DOMAIN tiles : \E x \in tiles[p] :
       /\ ~Launchable(PathOf(x))
       /\ dash_launch_path' = PathOf(x)
  /\ UNCHANGED << stored, pc, parsing, tiles, scan, mine >>

RecentRows == RowsOf("__RECENT__")

(* The row gets the id after the highest that such a row ever got.         *)
InsertRecent(r) ==
  \E m \in RecentRows \cup {10000} :
    /\ \A j \in RecentRows \cup {10000} : j <= m
    /\ rows' = Inserted(m + 1, r)

(* Mutant: the title is looked up among those of the library.              *)
LaunchFile_LooksElsewhere(t) ==
  /\ pc = "run" /\ Launchable(t)
  /\ \/ \E id \in DOMAIN rows \ RecentRows : rows[id].title = t /\ rows' = Played(id)
     \/ /\ \A id \in DOMAIN rows \ RecentRows : rows[id].title # t
        /\ InsertRecent(Row(t, "__RECENT__", "since"))
  /\ Off
  /\ UNCHANGED << disk, table, boots, changes >>

(* dash_launcher_go, from the file browser: the title gets a row of its    *)
(* own, or the one it has is brought up to date.                           *)
LaunchFile(t) ==
  /\ pc = "run" /\ Launchable(t)
  /\ \/ \E id \in RecentRows : rows[id].title = t /\ rows' = Played(id)
     \/ /\ \A id \in RecentRows : rows[id].title # t
        /\ InsertRecent(Row(t, "__RECENT__", "since"))
  /\ Off
  /\ UNCHANGED << disk, table, boots, changes >>

(* dash_clear_recent: only later launches are recent.                      *)
ClearRecent ==
  /\ pc = "run"
  /\ rows' = [ id \in DOMAIN rows \ RecentRows |->
                 [ rows[id] EXCEPT !.last = IF @ = "since" THEN "before" ELSE @ ] ]
  /\ ClearPage("Recent")
  /\ UNCHANGED << disk, table, boots, changes, pc, parsing, scan, dash_launch_path >>

(* "Mark Database Reset at Reboot" deletes the entries.                    *)
RebuildDatabase ==
  /\ pc = "run"
  /\ rows' = NoRow
  /\ changed' = PageSet
  /\ UNCHANGED << disk, table, boots, changes, pc, item_index, todo, left, rebuilt, rails >>

(* Power is cut, the console is reset, or a failed assertion ended it all. *)
PowerCut ==
  /\ pc # "off" /\ Off
  /\ UNCHANGED stored

(* Files come and go: by FTP, or while the dashboard does not run.  What   *)
(* appears in a folder that is being listed may or may not be listed.      *)
Install(t) ==
  /\ t \notin disk /\ changes < MaxChanges
  /\ disk' = disk \cup {t}
  /\ changes' = changes + 1
  /\ changed' = changed \cup {Home[t]}
  /\ \/ left' = left
     \/ left # Null /\ Head(todo) = Home[t] /\ left' = left \cup {t}
  /\ UNCHANGED << table, rows, boots, pc, item_index, todo, rebuilt, rails >>

Remove(t) ==
  /\ t \in disk /\ changes < MaxChanges
  /\ disk' = disk \ {t}
  /\ changes' = changes + 1
  /\ changed' = changed \cup {Home[t]}
  /\ UNCHANGED << table, rows, boots, pc, item_index, todo, left, rebuilt, rails >>

(***************************************************************************)
(* The specification.                                                      *)
(***************************************************************************)

Parse   == \E t \in Titles : SkipFolder(t) \/ AddTitle(t)

Rebuild ==
  \/ BootWithTitles \/ BootRebuilds \/ CreateTable
  \/ RebuildPage \/ RebuildPageDone \/ RebuildDone

Menus   ==
  \/ \E p \in PageSet : Rescan(<< p >>)
  \/ Rescan(Pages) \/ RescanPage \/ RescanPageDone
  \/ ClearRecent \/ RebuildDatabase

Scans ==
  \E k \in Threads : Query(k) \/ AddTile(k) \/ DeadTile(k) \/ ScanEnds(k)

Launch  == LaunchTile \/ LaunchRefused \/ \E t \in Titles : LaunchFile(t)

World   == PowerCut \/ \E t \in Titles : Install(t) \/ Remove(t)

Next == Rebuild \/ Parse \/ Menus \/ Scans \/ Launch \/ World

Spec == Init /\ [][Next]_vars

(***************************************************************************)
(* Properties.                                                             *)
(***************************************************************************)

Rows == [ title : Titles, page : PageSet \cup {"__RECENT__"},
          last : {"never", "before", "since"} ]
Tile == [ id : Nat, title : Titles ]
ScanState == [ page : PageSet \cup {"Recent"}, at : {"query", "add", "done"},
               items : SUBSET Tile ]

(* Every variable has its type.                                            *)
TypeOK ==
  /\ disk \in SUBSET Titles /\ table \in {"none", "wrong", "ok"}
  /\ DOMAIN rows \subseteq Nat /\ rows \in [ DOMAIN rows -> Rows ]
  /\ boots \in 0..MaxBoots /\ changes \in 0..MaxChanges
  /\ pc \in {"off", "rebuild", "run", "rescan", "aborted"}
  /\ item_index \in 0..LastIndex
  /\ todo \in Seq(PageSet) /\ left \in {Null} \cup SUBSET Titles
  /\ tiles \in [ PageSet \cup {"Recent"} -> SUBSET Tile ]
  /\ scan \in [ Threads -> ScanState ] /\ mine \in [ Threads -> {"none", "there", "gone"} ]
  /\ dash_launch_path \in Titles \cup {Null}
  /\ rebuilt \in BOOLEAN /\ changed \in SUBSET PageSet

(* In a session that began with a rebuild no id is ever given to a row     *)
(* while another row has it, whatever is rescanned, launched or cleared:   *)
(* the assertion fails only in a session that found its titles in the      *)
(* database, where the counter begins below them.  There it does fail      *)
(* (assert(rc == SQLITE_DONE), dash_database.c:68).                        *)
InsertsSucceed == pc = "aborted" => ~rebuilt

(* A tile that still has a row is that row's: Enter (dash_scroller.c:782)  *)
(* looks up the path by the id the tile got from an older query, so that   *)
(* an id must never come back for another title while a tile holds it.     *)
(* Only in a session that began without a rebuild and has found titles by  *)
(* a rescan does one come back.                                            *)
TilesLaunchThemselves ==
  rebuilt \/ item_index = 0 =>
    \A p \in DOMAIN tiles : \A x \in tiles[p] :
      x.id \in DOMAIN rows => rows[x.id].title = x.title

(* When the scan threads are done every title of a page has its tile, also *)
(* when a rescan cleared the rail under an older scan thread and replaced  *)
(* the rows that this one had read.                                        *)
EveryTitleIsShown ==
  pc = "run" /\ (\A k \in Threads : scan[k].at = "done") =>
    \A p \in PageSet : \A id \in RowsOf(p) :
      [ id |-> id, title |-> rows[id].title ] \in tiles[p]

(* A page that was rebuilt or rescanned lists what is on disk, no less and *)
(* no more, as long as nothing has changed since its folders were opened.  *)
ParsedPagesAreComplete ==
  pc = "run" => \A p \in PageSet \ changed :
    { rows[id].title : id \in RowsOf(p) } = { t \in disk \ Unreadable : Home[t] = p }

(* However often a title is started from the file browser, and whatever    *)
(* the library has of it, it has one row on the page __RECENT__.           *)
RecentTitlesOnce ==
  \A i, j \in RecentRows : rows[i].title = rows[j].title => i = j

(* The types and, in the same run, that.                                   *)
LibraryInv == TypeOK /\ RecentTitlesOnce

(***************************************************************************)
(* The inductive invariant: what every session keeps ...                   *)
(***************************************************************************)

ParsingShape == left # Null => pc \in {"rebuild", "rescan", "aborted"} /\ todo # << >>

OffShape ==
  pc = "off" => /\ item_index = 0 /\ todo = << >> /\ left = Null /\ ~rebuilt
                /\ tiles = NoTiles /\ scan = [ k \in Threads |-> NoScan ] /\ mine = NoneMine
                /\ changed = PageSet

TableShape ==
  table # "ok" => rows = NoRow /\ left = Null /\ pc \in {"off", "rebuild"}

Shape == TypeOK /\ ParsingShape /\ OffShape /\ TableShape

(* A title of a page that is shown has its tile, or a scan thread will add *)
(* it, or the page is still to be parsed and then gets a thread of its own. *)
Item(id)     == [ id |-> id, title |-> rows[id].title ]
ToDo(p)      == \E i \in 1..Len(todo) : todo[i] = p
Coming(p, x) ==
  \E k \in Threads : /\ scan[k].page = p
                     /\ scan[k].at = "query" \/ (scan[k].at = "add" /\ x \in scan[k].items)

RailsShow ==
  pc \in {"run", "rescan"} => \A p \in PageSet : \A id \in RowsOf(p) :
    Item(id) \in tiles[p] \/ Coming(p, Item(id)) \/ (pc = "rescan" /\ ToDo(p))

ThreadsSuffice == pc = "rescan" => Cardinality(FreeThreads) >= Len(todo)

(* The rows of a page that was parsed, with what is left of it if it is     *)
(* being parsed, are the titles on disk; a rebuild finds no row of a page. *)
DistinctPages == \A i, j \in 1..Len(Pages) : Pages[i] = Pages[j] => i = j

TitlesOf(p) == { rows[id].title : id \in RowsOf(p) }
Expected(p) == IF left # Null /\ p = Head(todo) THEN { t \in left : Launchable(t) } ELSE {}

ParsedSoFar ==
  /\ pc \in {"run", "rescan", "rebuild"} => \A p \in PageSet \ changed :
       TitlesOf(p) \cup Expected(p) = { t \in disk \ Unreadable : Home[t] = p }
  /\ left # Null => \A t \in left : Home[t] = Head(todo)

RebuildShape ==
  pc = "rebuild" => /\ \A i, j \in 1..Len(todo) : todo[i] = todo[j] => i = j
                    /\ \A i \in 1..Len(todo) : i > 1 \/ left = Null => RowsOf(todo[i]) = {}

(***************************************************************************)
(* ... and how the rows are numbered.                                      *)
(***************************************************************************)

(* After a rebuild the counter is above every id in use ...                *)
RowsNumbered == rebuilt => \A id \in DOMAIN rows : id < item_index

(* ... and above every id that a tile or a scan thread remembers.          *)
TrueItem(x) ==
  /\ (rebuilt \/ item_index = 0) /\ x.id \in DOMAIN rows => rows[x.id].title = x.title
  /\ rebuilt => x.id < item_index

ItemsAreTrue ==
  /\ \A p \in DOMAIN tiles : \A x \in tiles[p] : TrueItem(x)
  /\ \A k \in Threads : \A x \in scan[k].items : TrueItem(x)

Numbering == InsertsSucceed /\ RowsNumbered /\ ItemsAreTrue

(* Together they are kept by every step.                                   *)
IInv == Shape /\ Numbering
================================================================================
