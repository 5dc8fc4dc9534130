----------------------------- MODULE LibraryProofs -----------------------------
(***************************************************************************)
(* Proofs about Library, for any pages, titles and number of scan threads: *)
(* what is shown, what a parsed page lists and what is recent, in every    *)
(* session; and in which sessions no id is given twice, and no tile starts *)
(* another title.                                                          *)
(***************************************************************************)
EXTENDS Library, FiniteSetTheorems, TLAPS

USE DEF Threads

(* What the bounds are.                                                   *)
LEMMA Bounds ==
  /\ 0 \in 0..LastIndex /\ LastIndex \in Nat
  /\ MaxBoots \in Nat /\ MaxChanges \in Nat /\ MaxThreads \in Nat
  BY BoundsAssumption

(* Every folder belongs to a page that is searched.                        *)
LEMMA Homes ==
  /\ Pages \in Seq(PageSet) /\ Home \in [ Titles -> PageSet ]
  /\ {} # Null
  BY LibraryAssumption

(* The pages that are shown have rails.                                    *)
LEMMA ShownAreRails == \A k \in Threads : k <= Len(Shown) => Shown[k] \in PageSet \cup {"Recent"}
<1>1. Pages \in Seq(PageSet \cup {"Recent"}) /\ << "Recent" >> \in Seq(PageSet \cup {"Recent"})
  BY Homes
<1>2. Shown \in Seq(PageSet \cup {"Recent"})
  BY <1>1 DEF Shown
<1>3. QED
  BY <1>2, Bounds

(* A console that is off shows nothing and scans nothing.                  *)
LEMMA NoneShown ==
  /\ NoTiles \in [ PageSet \cup {"Recent"} -> SUBSET Tile ]
  /\ \A p \in DOMAIN NoTiles : NoTiles[p] = {}
  /\ NoScan \in ScanState /\ NoScan.items = {}
  /\ [ k \in Threads |-> NoScan ] \in [ Threads -> ScanState ]
  /\ NoneMine \in [ Threads -> {"none", "there", "gone"} ]
  BY DEF NoTiles, NoScan, NoneMine, ScanState

(* The empty table is a table.                                             *)
LEMMA NoRows ==
  /\ DOMAIN NoRow = {} /\ DOMAIN NoRow \subseteq Nat
  /\ NoRow \in [ DOMAIN NoRow -> Rows ]
  BY DEF NoRow

(* The scan threads of a new interface know of no title yet.               *)
LEMMA CreateFacts ==
  ASSUME DashCreate
  PROVE  /\ scan' \in [ Threads -> ScanState ]
         /\ \A k \in Threads : scan'[k].items = {}
<1>1. \A k \in Threads : k <= Len(Shown) =>
         Starting(Shown[k]) \in ScanState /\ Starting(Shown[k]).items = {}
  BY ShownAreRails DEF Starting, ScanState
<1>2. QED
  BY <1>1, NoneShown DEF DashCreate

(***************************************************************************)
(* What every session keeps.                                               *)
(***************************************************************************)

(* Stopping forgets all that is not stored.                                *)
LEMMA OffKeepsShape ==
  ASSUME Shape, Off, rows' \in [ DOMAIN rows' -> Rows ], DOMAIN rows' \subseteq Nat,
         disk' \in SUBSET Titles, table' = table,
         boots' \in 0..MaxBoots, changes' \in 0..MaxChanges,
         table # "ok" => rows' = NoRow
  PROVE  Shape'
<1> USE DEF Off
<1>1. TypeOK'
  <2>1. table' \in {"none", "wrong", "ok"}
    BY DEF Shape, TypeOK
  <2>2. todo' \in Seq(PageSet) /\ changed' \in SUBSET PageSet
    OBVIOUS
  <2>3. item_index' \in 0..LastIndex
    BY Bounds
  <2>4. /\ tiles' \in [ PageSet \cup {"Recent"} -> SUBSET Tile ] /\ scan' \in [ Threads -> ScanState ]
        /\ mine' \in [ Threads -> {"none", "there", "gone"} ]
    BY NoneShown
  <2>5. QED
    BY <2>1, <2>2, <2>3, <2>4 DEF TypeOK
<1>2. (ParsingShape /\ OffShape)'
  BY DEF ParsingShape, OffShape
<1>3. TableShape'
  BY DEF TableShape
<1>4. QED
  BY <1>1, <1>2, <1>3 DEF Shape

(* The shape holds before the first start ...                              *)
LEMMA InitShape == Init => Shape
<1> SUFFICES ASSUME Init PROVE Shape
  OBVIOUS
<1> USE DEF Init
<1>1. TypeOK
  <2>1. boots \in 0..MaxBoots /\ changes \in 0..MaxChanges /\ item_index \in 0..LastIndex
    BY Bounds
  <2>2. DOMAIN rows \subseteq Nat /\ rows \in [ DOMAIN rows -> Rows ]
    BY NoRows
  <2>3. /\ tiles \in [ PageSet \cup {"Recent"} -> SUBSET Tile ] /\ scan \in [ Threads -> ScanState ]
        /\ mine \in [ Threads -> {"none", "there", "gone"} ]
    BY NoneShown
  <2>4. todo \in Seq(PageSet)
    OBVIOUS
  <2>5. QED
    BY <2>1, <2>2, <2>3, <2>4 DEF TypeOK
<1>2. ParsingShape /\ OffShape /\ TableShape
  BY DEF ParsingShape, OffShape, TableShape
<1>3. QED
  BY <1>1, <1>2 DEF Shape

(* ... a start and a rebuild keep it ...                                   *)
LEMMA RebuildKeepsShape ==
  ASSUME Shape, Rebuild
  PROVE  Shape'
<1> USE DEF Shape, stored, parsing, rails
<1>1. CASE BootWithTitles
  <2> USE <1>1 DEF BootWithTitles
  <2>0. boots' \in 0..MaxBoots
    BY Bounds DEF TypeOK
  <2>1. TypeOK'
    BY <2>0, CreateFacts DEF TypeOK, DashCreate
  <2>2. (ParsingShape /\ OffShape /\ TableShape)'
    BY DEF ParsingShape, OffShape, TableShape, DashCreate
  <2>3. QED
    BY <2>1, <2>2
<1>2. CASE BootRebuilds
  <2> USE <1>2 DEF BootRebuilds
  <2>0. boots' \in 0..MaxBoots
    BY Bounds DEF TypeOK
  <2>1. TypeOK'
    BY <2>0, Homes DEF TypeOK
  <2>2. (ParsingShape /\ OffShape /\ TableShape)'
    BY DEF ParsingShape, OffShape, TableShape
  <2>3. QED
    BY <2>1, <2>2
<1>3. CASE CreateTable
  <2> USE <1>3 DEF CreateTable
  <2>1. TypeOK' /\ (ParsingShape /\ OffShape /\ TableShape)'
    BY DEF TypeOK, ParsingShape, OffShape, TableShape
  <2>2. QED
    BY <2>1
<1>4. CASE RebuildPage
  <2> USE <1>4 DEF RebuildPage
  <2>1. TypeOK' /\ (ParsingShape /\ OffShape /\ TableShape)'
    BY DEF TypeOK, ParsingShape, OffShape, TableShape
  <2>2. QED
    BY <2>1
<1>5. CASE RebuildPageDone
  <2> USE <1>5 DEF RebuildPageDone
  <2>0. left # Null /\ todo # << >>
    BY Homes DEF ParsingShape
  <2>1. TypeOK' /\ (ParsingShape /\ OffShape /\ TableShape)'
    BY <2>0 DEF TypeOK, ParsingShape, OffShape, TableShape
  <2>2. QED
    BY <2>1
<1>6. CASE RebuildDone
  <2> USE <1>6 DEF RebuildDone
  <2>1. TypeOK'
    BY CreateFacts DEF TypeOK, DashCreate
  <2>2. (ParsingShape /\ OffShape /\ TableShape)'
    BY DEF ParsingShape, OffShape, TableShape, DashCreate
  <2>3. QED
    BY <2>1, <2>2
<1>7. QED
  BY <1>1, <1>2, <1>3, <1>4, <1>5, <1>6 DEF Rebuild

(* What parsing a readable folder does: the title gets a row of the page   *)
(* that is being parsed, or a row has that id already and all is over.     *)
LEMMA AddFacts ==
  ASSUME Shape, NEW t \in Titles, AddTitle(t)
  PROVE  /\ todo \in Seq(PageSet) /\ todo # << >> /\ Head(todo) \in PageSet
         /\ left # Null /\ table = "ok"
         /\ item_index \in Nat /\ item_index' = item_index + 1 /\ item_index' \in 0..LastIndex
         /\ \/ item_index \in DOMAIN rows /\ pc' = "aborted" /\ rows' = rows
            \/ /\ item_index \notin DOMAIN rows /\ pc' = pc
               /\ DOMAIN rows' = DOMAIN rows \cup {item_index}
               /\ rows'[item_index] = Row(t, Head(todo), "never")
               /\ rows' \in [ DOMAIN rows' -> Rows ]
               /\ \A id \in DOMAIN rows : rows'[id] = rows[id]
<1> USE DEF AddTitle, Shape
<1>1. /\ todo \in Seq(PageSet) /\ todo # << >> /\ table = "ok"
      /\ item_index \in Nat /\ left # Null
  BY DEF ParsingShape, TypeOK, TableShape
<1>2. Head(todo) \in PageSet
  BY <1>1
<1>3. item_index' = item_index + 1 /\ item_index' \in 0..LastIndex
  <2>1. item_index \in 0..LastIndex /\ item_index < LastIndex /\ LastIndex \in Nat
    BY Bounds DEF TypeOK
  <2>2. item_index' = item_index + 1
    OBVIOUS
  <2>3. QED
    BY <2>1, <2>2
<1>4. Row(t, Head(todo), "never") \in Rows
  BY <1>2 DEF Row, Rows
<1>5. CASE item_index \in DOMAIN rows
  BY <1>1, <1>2, <1>3, <1>5
<1>6. CASE item_index \notin DOMAIN rows
  <2>1. rows' = Inserted(item_index, Row(t, Head(todo), "never")) /\ pc' = pc
    BY <1>6
  <2>2. /\ DOMAIN rows' = DOMAIN rows \cup {item_index}
        /\ rows'[item_index] = Row(t, Head(todo), "never")
        /\ rows' \in [ DOMAIN rows' -> Rows ]
        /\ \A id \in DOMAIN rows : rows'[id] = rows[id]
    BY <1>6, <1>4, <2>1 DEF Inserted, TypeOK
  <2>3. QED
    BY <1>1, <1>2, <1>3, <1>6, <2>1, <2>2
<1>7. QED
  BY <1>5, <1>6

(* ... a folder that is parsed ...                                         *)
LEMMA ParseKeepsShape ==
  ASSUME Shape, Parse
  PROVE  Shape'
<1>1. ASSUME NEW t \in Titles, SkipFolder(t) PROVE Shape'
  <2> USE <1>1 DEF SkipFolder, Shape, stored, rails
  <2>1. TypeOK' /\ (ParsingShape /\ OffShape /\ TableShape)'
    BY DEF TypeOK, ParsingShape, OffShape, TableShape
  <2>2. QED
    BY <2>1
<1>2. ASSUME NEW t \in Titles, AddTitle(t) PROVE Shape'
  <2>1. /\ DOMAIN rows' \subseteq Nat /\ rows' \in [ DOMAIN rows' -> Rows ]
        /\ pc' \in {pc, "aborted"} /\ item_index' \in 0..LastIndex
        /\ left # Null /\ table = "ok" /\ todo # << >>
    BY <1>2, AddFacts DEF Shape, TypeOK
  <2>2. left' \in SUBSET Titles /\ UNCHANGED << disk, table, boots, changes, todo, rebuilt, changed, rails >>
    BY <1>2 DEF AddTitle, Shape, TypeOK
  <2>3. TypeOK'
    BY <2>1, <2>2 DEF TypeOK, Shape, rails
  <2>4. (ParsingShape /\ OffShape /\ TableShape)'
    BY <2>1, <2>2 DEF ParsingShape, OffShape, TableShape, Shape, rails
  <2>5. QED
    BY <2>3, <2>4 DEF Shape
<1>3. QED
  BY <1>1, <1>2 DEF Parse

(* What a rescan leaves of the rows, and what clearing the recent titles   *)
(* leaves of them.                                                         *)
LEMMA RescanFacts ==
  ASSUME Shape, RescanPage
  PROVE  /\ todo \in Seq(PageSet) /\ todo # << >> /\ Head(todo) \in PageSet
         /\ DOMAIN rows' = DOMAIN rows \ RowsOf(Head(todo))
         /\ rows' \in [ DOMAIN rows' -> Rows ]
         /\ \A id \in DOMAIN rows' : rows'[id] = rows[id]
         /\ tiles' \in [ PageSet \cup {"Recent"} -> SUBSET Tile ]
         /\ \A p \in PageSet \cup {"Recent"} :
              tiles'[p] = IF p = Head(todo) THEN {} ELSE tiles[p]
<1> USE DEF RescanPage, Shape
<1>1. todo \in Seq(PageSet) /\ todo # << >> /\ Head(todo) \in PageSet
  BY DEF TypeOK
<1>2. /\ DOMAIN rows' = DOMAIN rows \ RowsOf(Head(todo))
      /\ rows' \in [ DOMAIN rows' -> Rows ]
      /\ \A id \in DOMAIN rows' : rows'[id] = rows[id]
  BY DEF TypeOK
<1>3. /\ tiles' \in [ PageSet \cup {"Recent"} -> SUBSET Tile ]
      /\ \A p \in PageSet \cup {"Recent"} : tiles'[p] = IF p = Head(todo) THEN {} ELSE tiles[p]
  BY <1>1 DEF TypeOK, ClearPage
<1>4. QED
  BY <1>1, <1>2, <1>3

LEMMA ClearFacts ==
  ASSUME Shape, ClearRecent
  PROVE  /\ DOMAIN rows' = DOMAIN rows \ RecentRows
         /\ rows' \in [ DOMAIN rows' -> Rows ]
         /\ \A id \in DOMAIN rows' : rows'[id].title = rows[id].title /\ rows'[id].page = rows[id].page
         /\ tiles' \in [ PageSet \cup {"Recent"} -> SUBSET Tile ]
         /\ \A p \in PageSet \cup {"Recent"} : tiles'[p] = IF p = "Recent" THEN {} ELSE tiles[p]
<1> USE DEF ClearRecent, Shape
<1>1. \A id \in DOMAIN rows :
        LET r == [ rows[id] EXCEPT !.last = IF @ = "since" THEN "before" ELSE @ ]
        IN  r \in Rows /\ r.title = rows[id].title /\ r.page = rows[id].page
  BY DEF TypeOK, Rows
<1>2. /\ DOMAIN rows' = DOMAIN rows \ RecentRows
      /\ rows' \in [ DOMAIN rows' -> Rows ]
      /\ \A id \in DOMAIN rows' : rows'[id].title = rows[id].title /\ rows'[id].page = rows[id].page
  BY <1>1
<1>3. /\ tiles' \in [ PageSet \cup {"Recent"} -> SUBSET Tile ]
      /\ \A p \in PageSet \cup {"Recent"} : tiles'[p] = IF p = "Recent" THEN {} ELSE tiles[p]
  BY DEF TypeOK, ClearPage
<1>4. QED
  BY <1>2, <1>3

(* A free thread with the least number is a free thread.                   *)
LEMMA LeastFree == FreeThreads # {} => Min(FreeThreads) \in FreeThreads
<1> SUFFICES ASSUME FreeThreads # {} PROVE Min(FreeThreads) \in FreeThreads
  OBVIOUS
<1>1. FreeThreads \subseteq Nat
  BY Bounds DEF FreeThreads
<1>2. \E k \in FreeThreads : \A j \in FreeThreads : k <= j
  <2>1. PICK k \in FreeThreads : \A j \in FreeThreads : << j, k >> \notin OpToRel(<, Nat)
    BY <1>1, NatLessThanWellFounded, WFMin
  <2>2. \A j \in FreeThreads : ~(j < k)
    BY <1>1, <2>1, Zenon DEF OpToRel
  <2>3. QED
    BY <1>1, <2>2
<1>3. QED
  BY <1>2, Zenon DEF Min

(* When the parsed page is done its scan thread starts in a free place.    *)
LEMMA RescanDoneFacts ==
  ASSUME Shape, FreeThreads # {}, RescanPageDone
  PROVE  /\ todo \in Seq(PageSet) /\ todo # << >>
         /\ Head(todo) \in PageSet /\ Tail(todo) \in Seq(PageSet)
         /\ scan' \in [ Threads -> ScanState ]
         /\ \E f \in FreeThreads :
              \A k \in Threads : scan'[k] = IF k = f THEN Starting(Head(todo)) ELSE scan[k]
<1> USE DEF RescanPageDone, Shape
<1>1. todo \in Seq(PageSet) /\ todo # << >> /\ left # Null
  BY Homes DEF TypeOK, ParsingShape
<1>2. Head(todo) \in PageSet /\ Tail(todo) \in Seq(PageSet)
  BY <1>1
<1>3. Starting(Head(todo)) \in ScanState
  BY <1>2 DEF Starting, ScanState
<1>4. scan \in [ Threads -> ScanState ] /\ scan' \in [ Threads -> ScanState ]
  BY <1>3 DEF TypeOK
<1>5. \A k \in Threads : scan'[k] = IF k = Min(FreeThreads) THEN Starting(Head(todo)) ELSE scan[k]
  BY <1>4
<1>6. Min(FreeThreads) \in FreeThreads
  BY LeastFree
<1>7. QED
  BY <1>1, <1>2, <1>4, <1>5, <1>6

(* What a cleared page does to the threads that have shown it.             *)
LEMMA ClearedMine ==
  ASSUME TypeOK, NEW p, ClearPage(p)
  PROVE  mine' \in [ Threads -> {"none", "there", "gone"} ]
  BY DEF ClearPage, TypeOK

(* ... the menus ...                                                       *)
LEMMA MenusKeepShape ==
  ASSUME Shape, Menus
  PROVE  Shape'
<1> USE DEF Shape, stored, parsing, rails
<1>1. ASSUME NEW sel \in Seq(PageSet), Rescan(sel) PROVE Shape'
  <2> USE <1>1 DEF Rescan
  <2>1. TypeOK' /\ (ParsingShape /\ OffShape /\ TableShape)'
    BY DEF TypeOK, ParsingShape, OffShape, TableShape
  <2>2. QED
    BY <2>1
<1>2. CASE RescanPage
  <2>1. left' \in SUBSET Titles /\ changed' \in SUBSET PageSet /\ todo # << >> /\ table = "ok"
    BY <1>2 DEF RescanPage, TypeOK, TableShape
  <2>2. /\ DOMAIN rows' \subseteq Nat /\ rows' \in [ DOMAIN rows' -> Rows ]
        /\ tiles' \in [ PageSet \cup {"Recent"} -> SUBSET Tile ]
    BY <1>2, RescanFacts DEF TypeOK
  <2>3. TypeOK'
    <3>1. mine' \in [ Threads -> {"none", "there", "gone"} ]
      BY <1>2, ClearedMine DEF RescanPage
    <3>2. QED
      BY <1>2, <2>1, <2>2, <3>1 DEF TypeOK, RescanPage
  <2>4. (ParsingShape /\ OffShape /\ TableShape)'
    BY <1>2, <2>1 DEF ParsingShape, OffShape, TableShape, RescanPage
  <2>5. QED
    BY <2>3, <2>4
<1>3. CASE RescanPageDone
  <2> USE <1>3 DEF RescanPageDone
  <2>1. todo \in Seq(PageSet) /\ todo # << >> /\ left # Null
    BY Homes DEF TypeOK, ParsingShape
  <2>2. Head(todo) \in PageSet /\ Tail(todo) \in Seq(PageSet)
    BY <2>1
  <2>3. Starting(Head(todo)) \in ScanState
    BY <2>2 DEF Starting, ScanState
  <2>4. scan' \in [ Threads -> ScanState ]
    BY <2>3 DEF TypeOK
  <2>5. TypeOK'
    BY <2>2, <2>4 DEF TypeOK
  <2>6. (ParsingShape /\ OffShape /\ TableShape)'
    BY DEF ParsingShape, OffShape, TableShape
  <2>7. QED
    BY <2>5, <2>6
<1>4. CASE ClearRecent
  <2>1. /\ DOMAIN rows' \subseteq Nat /\ rows' \in [ DOMAIN rows' -> Rows ]
        /\ tiles' \in [ PageSet \cup {"Recent"} -> SUBSET Tile ]
    BY <1>4, ClearFacts DEF TypeOK
  <2>2. TypeOK'
    <3>1. mine' \in [ Threads -> {"none", "there", "gone"} ]
      BY <1>4, ClearedMine DEF ClearRecent
    <3>2. QED
      BY <1>4, <2>1, <3>1 DEF TypeOK, ClearRecent
  <2>3. table = "ok"
    BY <1>4 DEF ClearRecent, TableShape
  <2>4. (ParsingShape /\ OffShape /\ TableShape)'
    BY <1>4, <2>3 DEF ParsingShape, OffShape, TableShape, ClearRecent
  <2>5. QED
    BY <2>2, <2>4
<1>5. CASE RebuildDatabase
  <2> USE <1>5 DEF RebuildDatabase
  <2>1. TypeOK'
    BY DEF TypeOK, NoRow
  <2>2. (ParsingShape /\ OffShape /\ TableShape)'
    BY DEF ParsingShape, OffShape, TableShape, NoRow
  <2>3. QED
    BY <2>1, <2>2
<1>6. \A p \in PageSet : << p >> \in Seq(PageSet)
  OBVIOUS
<1>7. Pages \in Seq(PageSet)
  BY Homes
<1>8. QED
  BY <1>1, <1>2, <1>3, <1>4, <1>5, <1>6, <1>7 DEF Menus

(* What a query finds.                                                     *)
LEMMA QueryFacts ==
  ASSUME Shape, NEW k \in Threads, Query(k),
         NEW found, found = { [ id |-> i, title |-> rows[i].title ] : i \in Selected(scan[k].page) }
  PROVE  /\ found \subseteq Tile
         /\ \A x \in found : x.id \in DOMAIN rows /\ x.title = rows[x.id].title
         /\ scan' \in [ Threads -> ScanState ]
         /\ scan'[k] = [ page |-> scan[k].page, at |-> "add", items |-> found ]
         /\ \A j \in Threads \ {k} : scan'[j] = scan[j]
<1> USE DEF Query, Shape
<1>1. Selected(scan[k].page) \subseteq DOMAIN rows
  BY DEF Selected, RowsOf
<1>2. found \subseteq Tile
  BY <1>1 DEF TypeOK, Tile, Rows
<1>3. \A x \in found : x.id \in DOMAIN rows /\ x.title = rows[x.id].title
  BY <1>1
<1>4. scan' = [ scan EXCEPT ![k].at = "add", ![k].items = found ]
  OBVIOUS
<1> DEFINE asked == [ page |-> scan[k].page, at |-> "add", items |-> found ]
<1>5. asked \in ScanState /\ scan \in [ Threads -> ScanState ]
  BY <1>2 DEF TypeOK, ScanState
<1>6. scan' = [ scan EXCEPT ![k] = asked ]
  BY <1>4, <1>5 DEF ScanState
<1> HIDE DEF asked
<1>7. scan' \in [ Threads -> ScanState ] /\ scan'[k] = asked /\ \A j \in Threads \ {k} : scan'[j] = scan[j]
  BY <1>5, <1>6
<1>8. QED
  BY <1>2, <1>3, <1>7 DEF asked

(* What a scan thread does with one of its rows.                           *)
LEMMA AddTileFacts ==
  ASSUME Shape, NEW k \in Threads, AddTile(k)
  PROVE  \E x \in scan[k].items :
           /\ x \in Tile
           /\ tiles' \in [ PageSet \cup {"Recent"} -> SUBSET Tile ]
           /\ \A p \in PageSet \cup {"Recent"} :
                tiles'[p] = IF p = scan[k].page THEN tiles[p] \cup {x} ELSE tiles[p]
           /\ scan' \in [ Threads -> ScanState ]
           /\ scan'[k] = [ page |-> scan[k].page, at |-> "add", items |-> scan[k].items \ {x} ]
           /\ \A j \in Threads \ {k} : scan'[j] = scan[j]
<1>1. PICK x \in scan[k].items :
        /\ tiles' = [ tiles EXCEPT ![scan[k].page] = @ \cup {x} ]
        /\ scan'  = [ scan EXCEPT ![k].items = @ \ {x} ]
  BY DEF AddTile
<1>2. /\ scan \in [ Threads -> ScanState ] /\ scan[k] \in ScanState /\ scan[k].at = "add"
      /\ tiles \in [ PageSet \cup {"Recent"} -> SUBSET Tile ]
  BY DEF Shape, TypeOK, AddTile
<1>3. x \in Tile /\ scan[k].page \in PageSet \cup {"Recent"}
  BY <1>2 DEF ScanState
<1>4. tiles' \in [ PageSet \cup {"Recent"} -> SUBSET Tile ]
  BY <1>1, <1>2, <1>3
<1>5. \A p \in PageSet \cup {"Recent"} :
        tiles'[p] = IF p = scan[k].page THEN tiles[p] \cup {x} ELSE tiles[p]
  BY <1>1, <1>2
<1> DEFINE less == [ page |-> scan[k].page, at |-> "add", items |-> scan[k].items \ {x} ]
<1>6. less \in ScanState
  BY <1>2 DEF ScanState
<1>7. scan' = [ scan EXCEPT ![k] = less ]
  <2>1. [ scan[k] EXCEPT !.items = scan[k].items \ {x} ] = less
    <3>1. scan[k] = [ page |-> scan[k].page, at |-> "add", items |-> scan[k].items ]
      BY <1>2 DEF ScanState
    <3>2. QED
      BY <3>1
  <2> HIDE DEF less
  <2>2. QED
    BY <1>1, <2>1
<1> HIDE DEF less
<1>8. scan' \in [ Threads -> ScanState ] /\ scan'[k] = less /\ \A j \in Threads \ {k} : scan'[j] = scan[j]
  BY <1>2, <1>6, <1>7
<1>9. QED
  BY <1>3, <1>4, <1>5, <1>8 DEF less

(* ... the scan threads ...                                                *)
LEMMA ScansKeepShape ==
  ASSUME Shape, Scans
  PROVE  Shape'
<1>1. ASSUME NEW k \in Threads, Query(k) PROVE Shape'
  <2>1. scan' \in [ Threads -> ScanState ]
    BY <1>1, QueryFacts
  <2>2. TypeOK' /\ (ParsingShape /\ OffShape /\ TableShape)'
    BY <1>1, <2>1 DEF TypeOK, ParsingShape, OffShape, TableShape, Shape, Query, stored, parsing
  <2>3. QED
    BY <2>2 DEF Shape
<1>2. ASSUME NEW k \in Threads, AddTile(k) PROVE Shape'
  <2>1. /\ tiles' \in [ PageSet \cup {"Recent"} -> SUBSET Tile ]
        /\ scan' \in [ Threads -> ScanState ]
    BY <1>2, AddTileFacts
  <2>2. TypeOK' /\ (ParsingShape /\ OffShape /\ TableShape)'
    BY <1>2, <2>1 DEF TypeOK, ParsingShape, OffShape, TableShape, Shape, AddTile, stored, parsing
  <2>3. QED
    BY <2>2 DEF Shape
<1>3. ASSUME NEW k \in Threads, ScanEnds(k) PROVE Shape'
  <2>1. scan' \in [ Threads -> ScanState ]
    BY <1>3, NoneShown DEF ScanEnds, Shape, TypeOK
  <2>2. TypeOK' /\ (ParsingShape /\ OffShape /\ TableShape)'
    BY <1>3, <2>1 DEF TypeOK, ParsingShape, OffShape, TableShape, Shape, ScanEnds, stored, parsing
  <2>3. QED
    BY <2>2 DEF Shape
<1>4. ASSUME NEW k \in Threads, DeadTile(k) PROVE Shape'
  BY <1>4, OffKeepsShape DEF DeadTile, Shape, TypeOK, TableShape, stored
<1>5. QED
  BY <1>1, <1>2, <1>3, <1>4 DEF Scans

(* A title that is launched has its row marked ...                         *)
LEMMA PlayedFacts ==
  ASSUME TypeOK, NEW id \in DOMAIN rows
  PROVE  /\ DOMAIN Played(id) = DOMAIN rows /\ Played(id) \in [ DOMAIN rows -> Rows ]
         /\ \A i \in DOMAIN rows :
              Played(id)[i].title = rows[i].title /\ Played(id)[i].page = rows[i].page
  BY DEF Played, TypeOK, Rows

(* ... or gets one.                                                        *)
LEMMA InsertedFacts ==
  ASSUME TypeOK, NEW r \in Rows, InsertRecent(r)
  PROVE  \E n \in Nat :
           /\ n \notin RecentRows
           /\ DOMAIN rows' = DOMAIN rows \cup {n} /\ rows' \in [ DOMAIN rows' -> Rows ]
           /\ \A i \in DOMAIN rows' : rows'[i] = IF i = n THEN r ELSE rows[i]
<1>1. PICK m \in RecentRows \cup {10000} :
        /\ \A j \in RecentRows \cup {10000} : j <= m
        /\ rows' = Inserted(m + 1, r)
  BY DEF InsertRecent
<1>2. RecentRows \subseteq Nat /\ m \in Nat /\ m + 1 \in Nat
  BY DEF RecentRows, RowsOf, TypeOK
<1>3. m + 1 \notin RecentRows
  BY <1>1, <1>2
<1>4. /\ DOMAIN rows' = DOMAIN rows \cup {m + 1} /\ rows' \in [ DOMAIN rows' -> Rows ]
      /\ \A i \in DOMAIN rows' : rows'[i] = IF i = m + 1 THEN r ELSE rows[i]
  BY <1>1, <1>2 DEF Inserted, TypeOK
<1>5. QED
  BY <1>2, <1>3, <1>4

(* ... a launch, which ends the session unless it is refused ...           *)
LEMMA LaunchKeepsShape ==
  ASSUME Shape, Launch
  PROVE  Shape'
<1> USE DEF Shape
<1>1. CASE LaunchTile
  <2> USE <1>1 DEF LaunchTile
  <2>1. /\ rows' \in [ DOMAIN rows' -> Rows ] /\ DOMAIN rows' \subseteq Nat
        /\ table = "ok"
    BY PlayedFacts DEF TypeOK, TableShape
  <2>2. QED
    BY <2>1, OffKeepsShape DEF TypeOK
<1>2. CASE LaunchRefused
  <2> USE <1>2 DEF LaunchRefused, stored, parsing
  <2>1. dash_launch_path' \in Titles \cup {Null}
    BY DEF TypeOK, PathOf, Rows, Tile
  <2>2. TypeOK' /\ (ParsingShape /\ OffShape /\ TableShape)'
    BY <2>1 DEF TypeOK, ParsingShape, OffShape, TableShape
  <2>3. QED
    BY <2>2
<1>3. ASSUME NEW t \in Titles, LaunchFile(t) PROVE Shape'
  <2> USE <1>3 DEF LaunchFile
  <2>1. Row(t, "__RECENT__", "since") \in Rows
    BY DEF Row, Rows
  <2>2. ASSUME InsertRecent(Row(t, "__RECENT__", "since"))
        PROVE  rows' \in [ DOMAIN rows' -> Rows ] /\ DOMAIN rows' \subseteq Nat
    <3>1. PICK n \in Nat : DOMAIN rows' = DOMAIN rows \cup {n} /\ rows' \in [ DOMAIN rows' -> Rows ]
      BY <2>1, <2>2, InsertedFacts
    <3>2. QED
      BY <3>1 DEF TypeOK
  <2>3. ASSUME NEW id \in RecentRows, rows' = Played(id)
        PROVE  rows' \in [ DOMAIN rows' -> Rows ] /\ DOMAIN rows' \subseteq Nat
    BY PlayedFacts, <2>3 DEF RecentRows, RowsOf, TypeOK
  <2>4. /\ rows' \in [ DOMAIN rows' -> Rows ] /\ DOMAIN rows' \subseteq Nat
        /\ table = "ok"
    BY <2>2, <2>3 DEF TableShape
  <2>5. QED
    BY <2>4, OffKeepsShape DEF TypeOK
<1>4. QED
  BY <1>1, <1>2, <1>3 DEF Launch

(* ... and what the world does to the disk and to the power.               *)
LEMMA WorldKeepsShape ==
  ASSUME Shape, World
  PROVE  Shape'
<1> USE DEF Shape
<1>1. CASE PowerCut
  BY <1>1, OffKeepsShape DEF PowerCut, stored, TypeOK, TableShape
<1>2. ASSUME NEW t \in Titles, Install(t) \/ Remove(t) PROVE Shape'
  <2> USE <1>2 DEF Install, Remove, rails
  <2>1. changes' \in 0..MaxChanges
    BY Bounds DEF TypeOK
  <2>2. left' \in {Null} \cup SUBSET Titles /\ (left' # Null => left # Null)
    BY DEF TypeOK
  <2>3. changed' \in SUBSET PageSet /\ disk' \in SUBSET Titles /\ changed \subseteq changed'
    BY Homes DEF TypeOK
  <2>4. TypeOK'
    BY <2>1, <2>2, <2>3 DEF TypeOK
  <2>5. (ParsingShape /\ OffShape /\ TableShape)'
    BY <2>2, <2>3 DEF ParsingShape, OffShape, TableShape
  <2>6. QED
    BY <2>4, <2>5
<1>3. QED
  BY <1>1, <1>2 DEF World

(* So every step keeps it.                                                 *)
LEMMA NextKeepsShape == Shape /\ [Next]_vars => Shape'
<1>1. ASSUME Shape, UNCHANGED vars PROVE Shape'
  BY <1>1 DEF Shape, TypeOK, ParsingShape, OffShape, TableShape, vars, stored, parsing, rails
<1>2. QED
  BY <1>1, RebuildKeepsShape, ParseKeepsShape, MenusKeepShape, ScansKeepShape, LaunchKeepsShape,
     WorldKeepsShape DEF Next

THEOREM ShapeHolds == Spec => []Shape
  BY InitShape, NextKeepsShape, PTL DEF Spec

(***************************************************************************)
(* One row on __RECENT__ for a title.                                      *)
(***************************************************************************)

(* Rows that come to be without a title of __RECENT__ disturb nothing.     *)
LEMMA FewerRecent ==
  ASSUME RecentTitlesOnce,
         \A id \in RecentRows' : id \in RecentRows /\ rows'[id].title = rows[id].title
  PROVE  RecentTitlesOnce'
  BY DEF RecentTitlesOnce

(* Only a launch from the file browser adds such a row, when the title has *)
(* none.                                                                   *)
LEMMA RecentStaysOnce == Shape /\ RecentTitlesOnce /\ [Next]_vars => RecentTitlesOnce'
<1> SUFFICES ASSUME Shape, RecentTitlesOnce, [Next]_vars PROVE RecentTitlesOnce'
  OBVIOUS
<1> USE DEF RecentRows, RowsOf
<1>1. ASSUME rows' = rows PROVE RecentTitlesOnce'
  BY <1>1 DEF RecentTitlesOnce
<1>2. ASSUME NEW t \in Titles, AddTitle(t) PROVE RecentTitlesOnce'
  <2>1. Row(t, Head(todo), "never").page # "__RECENT__"
    BY <1>2, AddFacts, LibraryAssumption DEF Row
  <2>2. \A id \in RecentRows' : id \in RecentRows /\ rows'[id].title = rows[id].title
    BY <1>2, <2>1, AddFacts
  <2>3. QED
    BY <2>2, FewerRecent
<1>3. CASE RescanPage
  BY <1>3, RescanFacts, FewerRecent
<1>4. CASE ClearRecent
  BY <1>4, ClearFacts, FewerRecent
<1>5. CASE RebuildDatabase
  BY <1>5, FewerRecent DEF RebuildDatabase, NoRow
<1>6. ASSUME NEW id \in DOMAIN rows, rows' = Played(id) PROVE RecentTitlesOnce'
  BY <1>6, PlayedFacts, FewerRecent DEF Shape
<1>7. ASSUME NEW t \in Titles, LaunchFile(t) PROVE RecentTitlesOnce'
  <2>1. CASE \E id \in RecentRows : rows' = Played(id)
    BY <1>6, <2>1
  <2>2. CASE /\ \A id \in RecentRows : rows[id].title # t
             /\ InsertRecent(Row(t, "__RECENT__", "since"))
    <3>1. Row(t, "__RECENT__", "since") \in Rows /\ Row(t, "__RECENT__", "since").title = t
      BY DEF Row, Rows
    <3>2. PICK n \in Nat :
            /\ n \notin RecentRows
            /\ DOMAIN rows' = DOMAIN rows \cup {n}
            /\ \A i \in DOMAIN rows' : rows'[i] = IF i = n THEN Row(t, "__RECENT__", "since") ELSE rows[i]
      BY <2>2, <3>1, InsertedFacts DEF Shape
    <3>3. \A i \in RecentRows' : i = n \/ (i \in RecentRows /\ rows'[i].title = rows[i].title)
      BY <3>2
    <3>4. rows'[n].title = t
      BY <3>1, <3>2
    <3>5. \A i \in RecentRows' : rows'[i].title = t => i = n
      BY <2>2, <3>3
    <3>6. QED
      BY <3>3, <3>4, <3>5 DEF RecentTitlesOnce
  <2>3. QED
    BY <1>7, <2>1, <2>2 DEF LaunchFile
<1>8. CASE Rebuild
  BY <1>1, <1>8 DEF Rebuild, BootWithTitles, BootRebuilds, CreateTable, RebuildPage,
     RebuildPageDone, RebuildDone, stored
<1>9. CASE Parse
  BY <1>1, <1>2, <1>9 DEF Parse, SkipFolder, stored
<1>10. CASE Menus
  BY <1>1, <1>3, <1>4, <1>5, <1>10 DEF Menus, Rescan, RescanPageDone, stored
<1>11. CASE Scans
  BY <1>1, <1>11 DEF Scans, Query, AddTile, DeadTile, ScanEnds, stored
<1>12. CASE Launch
  BY <1>1, <1>6, <1>7, <1>12 DEF Launch, LaunchTile, LaunchRefused, stored
<1>13. CASE World
  BY <1>1, <1>13 DEF World, PowerCut, Install, Remove, stored
<1>14. CASE UNCHANGED vars
  BY <1>1, <1>14 DEF vars, stored
<1>15. QED
  BY <1>8, <1>9, <1>10, <1>11, <1>12, <1>13, <1>14 DEF Next

(* The types, and the page __RECENT__ (dash_launcher.c), in every session. *)
THEOREM LibraryIsSound == Spec => []LibraryInv
<1>1. Init => Shape /\ RecentTitlesOnce
  BY InitShape DEF Init, RecentTitlesOnce, RecentRows, RowsOf, NoRow
<1>2. Shape /\ RecentTitlesOnce => LibraryInv
  BY DEF Shape, LibraryInv
<1>3. QED
  BY <1>1, <1>2, NextKeepsShape, RecentStaysOnce, PTL DEF Spec

(***************************************************************************)
(* The rails show every title.                                             *)
(***************************************************************************)

(* The scan threads are finitely many.                                     *)
LEMMA FiniteThreads == IsFiniteSet(FreeThreads) /\ Cardinality(FreeThreads) \in Nat
<1>1. IsFiniteSet(Threads)
  BY Bounds, FS_Interval
<1>2. FreeThreads \subseteq Threads
  BY DEF FreeThreads
<1>3. QED
  BY <1>1, <1>2, FS_Subset, FS_CardinalityType

(* A new interface has a scan thread for every page.                       *)
LEMMA CreateShowsAll ==
  ASSUME DashCreate
  PROVE  RailsShow'
<1>1. ASSUME NEW p \in PageSet PROVE \E k \in Threads : scan'[k].page = p /\ scan'[k].at = "query"
  <2>1. PICK i \in 1..Len(Pages) : p = Pages[i]
    BY DEF PageSet
  <2>2. Len(Shown) = Len(Pages) + 1 /\ Shown[i + 1] = p
    BY <2>1, Homes DEF Shown
  <2>3. i + 1 \in Threads /\ i + 1 <= Len(Shown)
    BY <2>2, Homes, BoundsAssumption
  <2>4. scan'[i + 1] = Starting(p)
    BY <2>2, <2>3 DEF DashCreate
  <2>5. QED
    BY <2>3, <2>4 DEF Starting
<1>2. QED
  BY <1>1 DEF RailsShow, Coming

(* Where only the rows or the rails of __RECENT__ or of the page that is   *)
(* being parsed change, or rows go, the others stay shown.                 *)
LEMMA StaysShown ==
  ASSUME RailsShow, pc \in {"run", "rescan"}, pc' \in {pc, "rescan"},
         \A p : ToDo(p) => ToDo(p)',
         scan' = scan,
         \A p \in PageSet : \A id \in RowsOf(p)' :
            \/ /\ id \in RowsOf(p) /\ rows'[id].title = rows[id].title
               /\ tiles'[p] = tiles[p]
            \/ pc' = "rescan" /\ ToDo(p)'
  PROVE  RailsShow'
<1> SUFFICES ASSUME NEW p \in PageSet, NEW id \in RowsOf(p)'
             PROVE  \/ Item(id)' \in tiles'[p] \/ Coming(p, Item(id))'
                    \/ pc' = "rescan" /\ ToDo(p)'
  BY DEF RailsShow
<1>1. CASE pc' = "rescan" /\ ToDo(p)'
  BY <1>1
<1>2. CASE id \in RowsOf(p) /\ rows'[id].title = rows[id].title /\ tiles'[p] = tiles[p]
  <2>1. Item(id)' = Item(id)
    BY <1>2 DEF Item
  <2>2. Coming(p, Item(id)) => Coming(p, Item(id))'
    BY <2>1 DEF Coming
  <2>3. Item(id) \in tiles[p] \/ Coming(p, Item(id)) \/ (pc = "rescan" /\ ToDo(p))
    BY <1>2 DEF RailsShow
  <2>4. QED
    BY <1>2, <2>1, <2>2, <2>3
<1>3. QED
  BY <1>1, <1>2

(* The last steps of a rescan: the new thread takes the place of none that *)
(* still has something to show.                                            *)
LEMMA RescanDoneShows ==
  ASSUME Shape, RailsShow, ThreadsSuffice, RescanPageDone
  PROVE  RailsShow' /\ ThreadsSuffice'
<1>1. todo \in Seq(PageSet) /\ todo # << >> /\ Len(todo) \in Nat /\ Len(todo) > 0
  <2>1. todo \in Seq(PageSet) /\ todo # << >>
    BY Homes DEF Shape, TypeOK, ParsingShape, RescanPageDone
  <2>2. QED
    BY <2>1
<1>2. Cardinality(FreeThreads) >= Len(todo)
  BY DEF ThreadsSuffice, RescanPageDone
<1>3. FreeThreads # {}
  BY <1>1, <1>2, FiniteThreads, FS_EmptySet
<1>4. PICK f \in FreeThreads :
        \A k \in Threads : scan'[k] = IF k = f THEN Starting(Head(todo)) ELSE scan[k]
  BY <1>3, RescanDoneFacts
<1>5. f \in Threads /\ scan[f].at = "done" /\ scan'[f].at = "query" /\ scan'[f].page = Head(todo)
  BY <1>4 DEF FreeThreads, Starting
<1>6. ThreadsSuffice'
  <2>1. FreeThreads' = FreeThreads \ {f}
    BY <1>4, <1>5 DEF FreeThreads
  <2>2. Cardinality(FreeThreads') = Cardinality(FreeThreads) - 1
    BY <2>1, <1>4, FiniteThreads, FS_RemoveElement
  <2>3. Len(todo') = Len(todo) - 1
    BY <1>1 DEF RescanPageDone
  <2>4. Cardinality(FreeThreads') >= Len(todo')
    BY <1>1, <1>2, <2>2, <2>3, FiniteThreads
  <2>5. QED
    BY <2>4 DEF ThreadsSuffice
<1>7. ASSUME NEW p \in PageSet, NEW id \in RowsOf(p)'
      PROVE  Item(id)' \in tiles'[p] \/ Coming(p, Item(id))' \/ (pc' = "rescan" /\ ToDo(p)')
  <2>1. id \in RowsOf(p) /\ Item(id)' = Item(id) /\ tiles' = tiles
    BY DEF RescanPageDone, stored, RowsOf, Item
  <2>2. Item(id) \in tiles[p] \/ Coming(p, Item(id)) \/ ToDo(p)
    BY <2>1 DEF RailsShow, RescanPageDone
  <2>3. CASE Item(id) \in tiles[p]
    BY <2>1, <2>3
  <2>4. CASE Coming(p, Item(id))
    <3>1. PICK k \in Threads :
            /\ scan[k].page = p
            /\ scan[k].at = "query" \/ (scan[k].at = "add" /\ Item(id) \in scan[k].items)
      BY <2>4 DEF Coming
    <3>2. k # f
      BY <1>5, <3>1
    <3>3. scan'[k] = scan[k]
      BY <1>4, <3>2
    <3>4. QED
      BY <2>1, <3>1, <3>3 DEF Coming
  <2>5. CASE ToDo(p)
    <3>1. PICK i \in 1..Len(todo) : todo[i] = p
      BY <2>5 DEF ToDo
    <3>2. CASE i = 1
      <4>1. scan'[f].page = p
        BY <1>1, <1>5, <3>1, <3>2
      <4>2. QED
        BY <1>5, <4>1 DEF Coming
    <3>3. CASE i # 1
      <4>1. todo' = Tail(todo) /\ Len(todo') = Len(todo) - 1
        BY <1>1 DEF RescanPageDone
      <4>2. i - 1 \in 1..Len(todo') /\ todo'[i - 1] = p
        BY <1>1, <3>1, <3>3, <4>1
      <4>3. pc' = "rescan"
        <5>1. Len(todo') # 0
          BY <4>2
        <5>2. todo' # << >>
          BY <5>1
        <5>3. QED
          BY <4>1, <5>2 DEF RescanPageDone
      <4>4. QED
        BY <4>2, <4>3 DEF ToDo
    <3>4. QED
      BY <3>2, <3>3
  <2>6. QED
    BY <2>2, <2>3, <2>4, <2>5
<1>8. QED
  BY <1>6, <1>7 DEF RailsShow

(* The menus keep what is shown ...                                        *)
LEMMA MenusShow ==
  ASSUME Shape, RailsShow, ThreadsSuffice, Menus
  PROVE  RailsShow' /\ ThreadsSuffice'
<1> USE DEF stored, parsing, rails
<1>1. ASSUME NEW sel, Rescan(sel) PROVE RailsShow' /\ ThreadsSuffice'
  <2>1. pc = "run" /\ scan' = scan /\ rows' = rows /\ tiles' = tiles /\ pc' = "rescan"
    BY <1>1 DEF Rescan
  <2>2. ThreadsSuffice'
    BY <1>1, <2>1 DEF Rescan, ThreadsSuffice, FreeThreads
  <2>3. RailsShow'
    BY <2>1 DEF RailsShow, Coming, Item, RowsOf
  <2>4. QED
    BY <2>2, <2>3
<1>2. CASE RescanPage
  <2>1. pc = "rescan" /\ pc' = pc /\ scan' = scan /\ todo' = todo
    BY <1>2 DEF RescanPage
  <2>2. \A p \in PageSet : \A id \in RowsOf(p)' :
           id \in RowsOf(p) /\ rows'[id].title = rows[id].title /\ tiles'[p] = tiles[p]
    BY <1>2, RescanFacts DEF RowsOf
  <2>3. RailsShow'
    BY <2>1, <2>2, StaysShown DEF ToDo
  <2>4. QED
    BY <2>1, <2>3 DEF ThreadsSuffice, FreeThreads
<1>3. CASE RescanPageDone
  BY <1>3, RescanDoneShows
<1>4. CASE ClearRecent
  <2>1. pc = "run" /\ pc' = pc /\ scan' = scan /\ todo' = todo
    BY <1>4 DEF ClearRecent
  <2>2. \A p \in PageSet : p # "Recent"
    BY LibraryAssumption
  <2>3. \A p \in PageSet : \A id \in RowsOf(p)' :
           id \in RowsOf(p) /\ rows'[id].title = rows[id].title /\ tiles'[p] = tiles[p]
    BY <1>4, <2>2, ClearFacts DEF RowsOf
  <2>4. RailsShow'
    BY <2>1, <2>3, StaysShown DEF ToDo
  <2>5. QED
    BY <2>1, <2>4 DEF ThreadsSuffice, FreeThreads
<1>5. CASE RebuildDatabase
  BY <1>5 DEF RebuildDatabase, NoRow, RailsShow, RowsOf, ThreadsSuffice
<1>6. QED
  BY <1>1, <1>2, <1>3, <1>4, <1>5 DEF Menus

(* ... the scan threads turn what they will show into what is shown ...    *)
LEMMA ScansShow ==
  ASSUME Shape, RailsShow, ThreadsSuffice, Scans
  PROVE  RailsShow' /\ ThreadsSuffice'
<1> USE DEF stored, parsing
<1>d. ASSUME NEW k \in Threads, DeadTile(k) PROVE RailsShow' /\ ThreadsSuffice'
  BY <1>d DEF DeadTile, Off, RailsShow, ThreadsSuffice
<1>e. SUFFICES ASSUME \E k \in Threads : Query(k) \/ AddTile(k) \/ ScanEnds(k)
               PROVE  RailsShow' /\ ThreadsSuffice'
  BY <1>d DEF Scans
<1>0. scan \in [ Threads -> ScanState ] /\ pc' = pc /\ todo' = todo /\ rows' = rows
  BY <1>e DEF Query, AddTile, ScanEnds, Shape, TypeOK
<1>1. \A p : ToDo(p)' = ToDo(p)
  BY <1>0 DEF ToDo
<1>2. \A p, id : RowsOf(p)' = RowsOf(p) /\ Item(id)' = Item(id)
  BY <1>0 DEF RowsOf, Item
<1>4. ASSUME NEW k \in Threads, Query(k) PROVE RailsShow' /\ ThreadsSuffice'
  <2> DEFINE found == { [ id |-> i, title |-> rows[i].title ] : i \in Selected(scan[k].page) }
  <2>1. /\ scan'[k] = [ page |-> scan[k].page, at |-> "add", items |-> found ]
        /\ \A j \in Threads \ {k} : scan'[j] = scan[j]
    BY <1>4, QueryFacts
  <2>2. tiles' = tiles /\ scan[k].at = "query"
    BY <1>4 DEF Query
  <2>3. FreeThreads' = FreeThreads
    BY <2>1, <2>2 DEF FreeThreads
  <2>4. ASSUME NEW p \in PageSet, NEW id \in RowsOf(p), Coming(p, Item(id))
        PROVE  Coming(p, Item(id))'
    <3>1. PICK j \in Threads :
            /\ scan[j].page = p
            /\ scan[j].at = "query" \/ (scan[j].at = "add" /\ Item(id) \in scan[j].items)
      BY <2>4 DEF Coming
    <3>2. CASE j = k
      <4>1. Selected(p) = RowsOf(p)
        BY LibraryAssumption DEF Selected
      <4>2. Item(id) \in found
        BY <3>1, <3>2, <4>1 DEF Item
      <4>3. scan'[k].page = p /\ scan'[k].at = "add" /\ scan'[k].items = found
        BY <2>1, <3>1, <3>2
      <4>4. QED
        BY <1>2, <4>2, <4>3 DEF Coming
    <3>3. CASE j # k
      BY <1>2, <2>1, <3>1, <3>3 DEF Coming
    <3>4. QED
      BY <3>2, <3>3
  <2> HIDE DEF found
  <2>5. RailsShow'
    BY <1>0, <1>1, <1>2, <2>2, <2>4 DEF RailsShow
  <2>6. QED
    BY <1>0, <2>3, <2>5 DEF ThreadsSuffice
<1>5. ASSUME NEW k \in Threads, AddTile(k) PROVE RailsShow' /\ ThreadsSuffice'
  <2>1. PICK x \in scan[k].items :
           /\ \A p \in PageSet \cup {"Recent"} :
                tiles'[p] = IF p = scan[k].page THEN tiles[p] \cup {x} ELSE tiles[p]
           /\ scan'[k] = [ page |-> scan[k].page, at |-> "add", items |-> scan[k].items \ {x} ]
           /\ \A j \in Threads \ {k} : scan'[j] = scan[j]
    BY <1>5, AddTileFacts
  <2>2. pc = "run" /\ scan[k].at = "add"
    BY <1>5 DEF AddTile
  <2>3. ASSUME NEW p \in PageSet, NEW id \in RowsOf(p), Coming(p, Item(id))
        PROVE  Coming(p, Item(id))' \/ Item(id) \in tiles'[p]
    <3>1. PICK j \in Threads :
            /\ scan[j].page = p
            /\ scan[j].at = "query" \/ (scan[j].at = "add" /\ Item(id) \in scan[j].items)
      BY <2>3 DEF Coming
    <3>2. CASE j = k /\ Item(id) = x
      BY <2>1, <3>1, <3>2
    <3>3. CASE j = k /\ Item(id) # x
      <4>1. scan'[k].page = p /\ scan'[k].at = "add" /\ Item(id) \in scan'[k].items
        BY <2>1, <2>2, <3>1, <3>3
      <4>2. QED
        BY <1>2, <4>1 DEF Coming
    <3>4. CASE j # k
      BY <1>2, <2>1, <3>1, <3>4 DEF Coming
    <3>5. QED
      BY <3>2, <3>3, <3>4
  <2>4. \A p \in PageSet : tiles[p] \subseteq tiles'[p]
    BY <2>1
  <2>5. RailsShow'
    BY <1>0, <1>1, <1>2, <2>3, <2>4 DEF RailsShow
  <2>6. QED
    BY <1>0, <2>2, <2>5 DEF ThreadsSuffice
<1>6. ASSUME NEW k \in Threads, ScanEnds(k) PROVE RailsShow' /\ ThreadsSuffice'
  <2>1. /\ pc = "run" /\ scan[k].at = "add" /\ scan[k].items = {} /\ tiles' = tiles
        /\ \A j \in Threads \ {k} : scan'[j] = scan[j]
    BY <1>0, <1>6 DEF ScanEnds
  <2>2. ASSUME NEW p \in PageSet, NEW id \in RowsOf(p), Coming(p, Item(id))
        PROVE  Coming(p, Item(id))'
    BY <1>2, <2>1, <2>2 DEF Coming
  <2>3. RailsShow'
    BY <1>0, <1>1, <1>2, <2>1, <2>2 DEF RailsShow
  <2>4. QED
    BY <1>0, <2>1, <2>3 DEF ThreadsSuffice
<1>7. QED
  BY <1>e, <1>4, <1>5, <1>6

(* ... and so does every other step.                                       *)
LEMMA NextShows ==
  Shape /\ RailsShow /\ ThreadsSuffice /\ [Next]_vars => RailsShow' /\ ThreadsSuffice'
<1> SUFFICES ASSUME Shape, RailsShow, ThreadsSuffice, [Next]_vars
             PROVE  RailsShow' /\ ThreadsSuffice'
  OBVIOUS
<1> USE DEF stored, parsing, rails
<1>1. ASSUME rows' = rows, tiles' = tiles, scan' = scan, todo' = todo, pc' = pc
      PROVE  RailsShow' /\ ThreadsSuffice'
  BY <1>1 DEF RailsShow, ThreadsSuffice, RowsOf, Item, Coming, ToDo, FreeThreads
<1>2. ASSUME pc' \notin {"run", "rescan"} PROVE RailsShow' /\ ThreadsSuffice'
  BY <1>2 DEF RailsShow, ThreadsSuffice
<1>3. ASSUME DashCreate PROVE RailsShow' /\ ThreadsSuffice'
  BY <1>3, CreateShowsAll DEF ThreadsSuffice, DashCreate
<1>4. ASSUME NEW t \in Titles, AddTitle(t) PROVE RailsShow' /\ ThreadsSuffice'
  <2>1. CASE pc = "rescan" /\ pc' = pc
    <3>1. scan' = scan /\ tiles' = tiles /\ todo' = todo
      BY <1>4 DEF AddTitle
    <3>2. /\ todo # << >> /\ todo \in Seq(PageSet)
          /\ rows'[item_index] = Row(t, Head(todo), "never")
          /\ DOMAIN rows' = DOMAIN rows \cup {item_index}
          /\ \A id \in DOMAIN rows : rows'[id] = rows[id]
      BY <1>4, <2>1, AddFacts
    <3>3. ToDo(Head(todo))'
      BY <3>1, <3>2 DEF ToDo
    <3>4. ASSUME NEW p \in PageSet, NEW id \in RowsOf(p)'
          PROVE  \/ id \in RowsOf(p) /\ rows'[id].title = rows[id].title /\ tiles'[p] = tiles[p]
                 \/ pc' = "rescan" /\ ToDo(p)'
      <4>1. CASE id \in DOMAIN rows
        BY <3>1, <3>2, <4>1 DEF RowsOf
      <4>2. CASE id = item_index
        <5>1. p = Head(todo)
          BY <3>2, <4>2 DEF RowsOf, Row
        <5>2. QED
          BY <2>1, <3>1, <3>3, <5>1 DEF ToDo
      <4>3. QED
        BY <3>2, <4>1, <4>2 DEF RowsOf
    <3>5. RailsShow'
      BY <2>1, <3>1, <3>4, StaysShown DEF ToDo
    <3>6. QED
      BY <2>1, <3>1, <3>5 DEF ThreadsSuffice, FreeThreads
  <2>2. CASE pc' \notin {"run", "rescan"}
    BY <1>2, <2>2
  <2>3. QED
    BY <1>4, <2>1, <2>2, AddFacts DEF AddTitle, Shape, ParsingShape
<1>5. CASE Rebuild
  BY <1>1, <1>2, <1>3, <1>5 DEF Rebuild, BootWithTitles, BootRebuilds, CreateTable, RebuildPage,
     RebuildPageDone, RebuildDone
<1>6. CASE Parse
  BY <1>1, <1>4, <1>6 DEF Parse, SkipFolder
<1>7. CASE Menus
  BY <1>7, MenusShow
<1>8. CASE Scans
  BY <1>8, ScansShow
<1>9. CASE Launch
  BY <1>1, <1>2, <1>9 DEF Launch, LaunchTile, LaunchRefused, LaunchFile, Off
<1>10. CASE World
  BY <1>1, <1>2, <1>10 DEF World, PowerCut, Install, Remove, Off
<1>11. CASE UNCHANGED vars
  BY <1>1, <1>11 DEF vars
<1>12. QED
  BY <1>5, <1>6, <1>7, <1>8, <1>9, <1>10, <1>11 DEF Next

(* When the scan threads are done every title has its tile, however pages  *)
(* were rescanned while the rails were being filled.                       *)
THEOREM EveryTitleIsAlwaysShown == Spec => []EveryTitleIsShown
<1>1. Init => Shape /\ RailsShow /\ ThreadsSuffice
  BY InitShape DEF Init, RailsShow, ThreadsSuffice
<1>2. RailsShow => EveryTitleIsShown
  <2> SUFFICES ASSUME RailsShow, pc = "run", \A k \in Threads : scan[k].at = "done",
                      NEW p \in PageSet, NEW id \in RowsOf(p)
               PROVE  [ id |-> id, title |-> rows[id].title ] \in tiles[p]
    BY DEF EveryTitleIsShown
  <2>1. Item(id) \in tiles[p] \/ Coming(p, Item(id))
    BY DEF RailsShow
  <2>2. ~Coming(p, Item(id))
    BY DEF Coming
  <2>3. QED
    BY <2>1, <2>2 DEF Item
<1>3. QED
  BY <1>1, <1>2, NextKeepsShape, NextShows, PTL DEF Spec

(***************************************************************************)
(* A page that was parsed lists what is on disk.                           *)
(***************************************************************************)

(* Rows that stay have the titles they had.                                *)
LEMMA SameTitles ==
  ASSUME NEW p, RowsOf(p)' = RowsOf(p), \A id \in RowsOf(p) : rows'[id].title = rows[id].title
  PROVE  TitlesOf(p)' = TitlesOf(p)
  BY DEF TitlesOf

(* A title that was read of the page that is parsed now has its row.       *)
LEMMA AddKeepsParsed ==
  ASSUME Shape, ParsedSoFar, RebuildShape, NEW t \in Titles, AddTitle(t)
  PROVE  ParsedSoFar' /\ RebuildShape'
<1>1. /\ t \in left /\ Launchable(t) /\ left' = left \ {t}
      /\ todo' = todo /\ changed' = changed /\ disk' = disk
  BY DEF AddTitle
<1>2. /\ todo \in Seq(PageSet) /\ todo # << >> /\ left # Null
      /\ pc' = "aborted" \/ (pc' = pc /\ item_index \notin DOMAIN rows)
  BY AddFacts
<1>3. left' # Null /\ \A u \in left' : Home[u] = Head(todo')
  BY <1>1, <1>2, LibraryAssumption DEF ParsedSoFar, Shape, TypeOK
<1>4. CASE pc' = "aborted"
  BY <1>3, <1>4 DEF ParsedSoFar, RebuildShape
<1>5. CASE pc' = pc /\ item_index \notin DOMAIN rows
  <2>1. /\ DOMAIN rows' = DOMAIN rows \cup {item_index}
        /\ rows'[item_index].title = t /\ rows'[item_index].page = Head(todo)
        /\ \A id \in DOMAIN rows : rows'[id] = rows[id]
    <3>1. /\ DOMAIN rows' = DOMAIN rows \cup {item_index}
          /\ rows'[item_index] = Row(t, Head(todo), "never")
          /\ \A id \in DOMAIN rows : rows'[id] = rows[id]
      BY <1>5, AddFacts
    <3>2. QED
      BY <3>1 DEF Row
  <2>2. ASSUME NEW p, p # Head(todo)
        PROVE  RowsOf(p)' = RowsOf(p) /\ TitlesOf(p)' = TitlesOf(p)
    <3>1. RowsOf(p)' = RowsOf(p)
      BY <1>5, <2>1, <2>2 DEF RowsOf
    <3>2. \A id \in RowsOf(p) : rows'[id].title = rows[id].title
      BY <2>1 DEF RowsOf
    <3>3. QED
      BY <3>1, <3>2, SameTitles
  <2>3. ASSUME NEW p, p = Head(todo)
        PROVE  TitlesOf(p)' = TitlesOf(p) \cup {t}
    <3>1. RowsOf(p)' = RowsOf(p) \cup {item_index}
      BY <1>5, <2>1, <2>3 DEF RowsOf
    <3>2. RowsOf(p) \subseteq DOMAIN rows
      BY DEF RowsOf
    <3>3. QED
      BY <2>1, <3>1, <3>2 DEF TitlesOf
  <2>4. ASSUME NEW p PROVE TitlesOf(p)' \cup Expected(p)' = TitlesOf(p) \cup Expected(p)
    <3>1. CASE p = Head(todo)
      <4>1. Expected(p) = { u \in left : Launchable(u) } /\ Expected(p)' = { u \in left' : Launchable(u) }
        BY <1>1, <1>2, <1>3, <3>1 DEF Expected, Launchable
      <4>2. QED
        BY <1>1, <2>3, <3>1, <4>1
    <3>2. CASE p # Head(todo)
      BY <1>1, <2>2, <3>2 DEF Expected
    <3>3. QED
      BY <3>1, <3>2
  <2>5. ParsedSoFar'
    BY <1>1, <1>3, <1>5, <2>4 DEF ParsedSoFar
  <2>6. RebuildShape'
    <3> SUFFICES ASSUME pc = "rebuild"
                 PROVE  /\ \A i, j \in 1..Len(todo) : todo[i] = todo[j] => i = j
                        /\ \A i \in 1..Len(todo) : i > 1 => RowsOf(todo[i])' = {}
      BY <1>1, <1>3, <1>5 DEF RebuildShape
    <3>1. /\ \A i, j \in 1..Len(todo) : todo[i] = todo[j] => i = j
          /\ \A i \in 1..Len(todo) : i > 1 => RowsOf(todo[i]) = {}
      BY DEF RebuildShape
    <3>2. \A i \in 1..Len(todo) : i > 1 => todo[i] # Head(todo)
      BY <1>2, <3>1
    <3>3. QED
      BY <1>1, <2>2, <3>1, <3>2
  <2>7. QED
    BY <2>5, <2>6
<1>6. QED
  BY <1>2, <1>4, <1>5

(* Opening a page: none of its titles has a row yet, or none any more, and *)
(* all that are there are expected.                                        *)
LEMMA OpenedIsExpected ==
  ASSUME Shape, ParsedSoFar, NEW p \in PageSet, p = Head(todo), left = Null,
         RowsOf(p)' = {}, \A q \in PageSet \ {p} : TitlesOf(q)' = TitlesOf(q),
         left' = { t \in disk : Home[t] = p }, changed' = changed \ {p},
         disk' = disk, todo' = todo, pc \in {"rescan", "rebuild"}
  PROVE  ParsedSoFar'
<1>1. left' # Null
  BY LibraryAssumption DEF Shape, TypeOK
<1>2. \A q : Expected(q) = {}
  BY DEF Expected
<1>3. \A q : Expected(q)' = IF q = p THEN { t \in disk \ Unreadable : Home[t] = p } ELSE {}
  BY <1>1 DEF Expected, Launchable
<1>4. TitlesOf(p)' = {}
  BY DEF TitlesOf
<1>5. \A q \in PageSet \ changed' :
        TitlesOf(q)' \cup Expected(q)' = { t \in disk \ Unreadable : Home[t] = q }
  <2> TAKE q \in PageSet \ changed'
  <2>1. CASE q = p
    BY <1>3, <1>4, <2>1
  <2>2. CASE q # p
    <3>1. TitlesOf(q) = { t \in disk \ Unreadable : Home[t] = q }
      BY <1>2, <2>2 DEF ParsedSoFar
    <3>2. QED
      BY <1>3, <2>2, <3>1
  <2>3. QED
    BY <2>1, <2>2
<1>6. QED
  BY <1>5 DEF ParsedSoFar

(* When nothing is left of a page, nothing is expected of it any more.     *)
LEMMA DoneIsParsed ==
  ASSUME ParsedSoFar, pc \in {"rescan", "rebuild"}, left = {}, left' = Null,
         rows' = rows, changed' = changed, disk' = disk
  PROVE  ParsedSoFar'
<1>1. \A q : Expected(q) = {} /\ Expected(q)' = {}
  BY DEF Expected
<1>2. \A q : TitlesOf(q)' = TitlesOf(q)
  BY DEF TitlesOf, RowsOf
<1>3. QED
  BY <1>1, <1>2 DEF ParsedSoFar

(* A rebuild begins without rows and parses each page once ...             *)
LEMMA RebuildParses ==
  ASSUME DistinctPages, Shape, ParsedSoFar, RebuildShape, Rebuild
  PROVE  ParsedSoFar' /\ RebuildShape'
<1> USE DEF stored, parsing, rails
<1>1. CASE BootWithTitles
  BY <1>1 DEF BootWithTitles, DashCreate, Shape, OffShape, ParsedSoFar, RebuildShape
<1>2. CASE BootRebuilds
  <2>1. left' = Null /\ changed' = PageSet /\ pc' = "rebuild" /\ todo' = Pages
    BY <1>2 DEF BootRebuilds, Shape, OffShape
  <2>2. ParsedSoFar'
    BY <2>1 DEF ParsedSoFar
  <2>3. rows' = rows /\ DOMAIN rows = {}
    BY <1>2, NoRows DEF BootRebuilds, Shape, TableShape
  <2>4. \A p : RowsOf(p)' = {}
    BY <2>3 DEF RowsOf
  <2>5. RebuildShape'
    BY <2>1, <2>4 DEF RebuildShape, DistinctPages
  <2>6. QED
    BY <2>2, <2>5
<1>3. CASE CreateTable
  BY <1>3 DEF CreateTable, ParsedSoFar, RebuildShape, TitlesOf, Expected, RowsOf, Launchable
<1>4. CASE RebuildPage
  <2> DEFINE p == Head(todo)
  <2>1. /\ todo \in Seq(PageSet) /\ todo # << >> /\ p \in PageSet /\ p = todo[1]
        /\ 1 \in 1..Len(todo)
    BY <1>4 DEF RebuildPage, Shape, TypeOK
  <2>2. /\ left = Null /\ pc = "rebuild" /\ pc' = pc /\ rows' = rows /\ todo' = todo /\ disk' = disk
        /\ left' = { t \in disk : Home[t] = p } /\ changed' = changed \ {p}
    BY <1>4 DEF RebuildPage
  <2>3. RowsOf(p) = {} /\ \A q : RowsOf(q)' = RowsOf(q) /\ TitlesOf(q)' = TitlesOf(q)
    BY <2>1, <2>2 DEF RebuildShape, RowsOf, TitlesOf
  <2>4. RebuildShape'
    BY <2>2, <2>3 DEF RebuildShape
  <2>5. RowsOf(p)' = {}
    BY <2>2, <2>3 DEF RowsOf
  <2> HIDE DEF p
  <2>6. ParsedSoFar'
    <3>1. p = Head(todo)
      BY DEF p
    <3>2. \E q \in PageSet : q = Head(todo) /\ q = p
      BY <2>1, <3>1
    <3>3. PICK q \in PageSet : q = Head(todo) /\ q = p
      BY <3>2
    <3>4. RowsOf(q)' = {}
      BY <2>2, <2>3, <3>3 DEF RowsOf
    <3>5. QED
      BY <2>2, <2>3, <3>3, <3>4, OpenedIsExpected
  <2>7. QED
    BY <2>4, <2>6
<1>5. CASE RebuildPageDone
  <2>1. /\ todo \in Seq(PageSet) /\ todo # << >> /\ pc = "rebuild" /\ left = {} /\ left' = Null
        /\ todo' = Tail(todo) /\ rows' = rows /\ changed' = changed /\ disk' = disk
    BY <1>5, Homes DEF RebuildPageDone, Shape, TypeOK, ParsingShape
  <2>2. ParsedSoFar'
    BY <2>1, DoneIsParsed
  <2>3. \A i \in 1..Len(todo') : i + 1 \in 1..Len(todo) /\ i + 1 > 1 /\ todo'[i] = todo[i + 1]
    BY <2>1
  <2>4. ASSUME NEW i \in 1..Len(todo'), NEW j \in 1..Len(todo'), todo'[i] = todo'[j] PROVE i = j
    <3>1. i + 1 = j + 1
      BY <2>1, <2>3, <2>4 DEF RebuildShape
    <3>2. QED
      BY <3>1
  <2>5. \A i \in 1..Len(todo') : RowsOf(todo[i + 1])= {}
    BY <2>1, <2>3 DEF RebuildShape
  <2>6. \A i \in 1..Len(todo') : RowsOf(todo[i])' = {}
    BY <2>1, <2>3, <2>5 DEF RowsOf
  <2>7. RebuildShape'
    BY <2>4, <2>6 DEF RebuildShape
  <2>8. QED
    BY <2>2, <2>7
<1>6. CASE RebuildDone
  BY <1>6 DEF RebuildDone, DashCreate, ParsedSoFar, RebuildShape, TitlesOf, Expected, RowsOf, Launchable
<1>7. QED
  BY <1>1, <1>2, <1>3, <1>4, <1>5, <1>6 DEF Rebuild

(* ... a rescan deletes the rows of its page first ...                     *)
LEMMA MenusParse ==
  ASSUME Shape, ParsedSoFar, RebuildShape, Menus
  PROVE  ParsedSoFar' /\ RebuildShape'
<1> USE DEF stored, parsing, rails
<1>0. RebuildShape'
  BY DEF Menus, Rescan, RescanPage, RescanPageDone, ClearRecent, RebuildDatabase, RebuildShape
<1>1. ASSUME NEW sel, Rescan(sel) PROVE ParsedSoFar'
  <2>1. left = Null /\ left' = Null /\ pc = "run" /\ rows' = rows /\ changed' = changed /\ disk' = disk
    BY <1>1 DEF Rescan, Shape, ParsingShape
  <2>2. \A q : Expected(q) = {} /\ Expected(q)' = {}
    BY <2>1 DEF Expected
  <2>3. \A q : TitlesOf(q)' = TitlesOf(q)
    BY <2>1 DEF TitlesOf, RowsOf
  <2>4. QED
    BY <2>1, <2>2, <2>3 DEF ParsedSoFar
<1>2. CASE RescanPage
  <2>1. PICK p \in PageSet : p = Head(todo)
    BY <1>2, RescanFacts
  <2>2. /\ DOMAIN rows' = DOMAIN rows \ RowsOf(p)
        /\ \A id \in DOMAIN rows' : rows'[id] = rows[id]
    BY <1>2, <2>1, RescanFacts
  <2>3. RowsOf(p)' = {}
    BY <2>2 DEF RowsOf
  <2>4. \A q \in PageSet \ {p} : TitlesOf(q)' = TitlesOf(q)
    <3> TAKE q \in PageSet \ {p}
    <3>1. RowsOf(q)' = RowsOf(q)
      BY <2>2 DEF RowsOf
    <3>2. \A id \in RowsOf(q) : rows'[id].title = rows[id].title
      BY <2>2, <3>1 DEF RowsOf
    <3>3. QED
      BY <3>1, <3>2, SameTitles
  <2>5. /\ left = Null /\ pc = "rescan" /\ todo' = todo /\ disk' = disk
        /\ left' = { t \in disk : Home[t] = p } /\ changed' = changed \ {p}
    BY <1>2, <2>1 DEF RescanPage
  <2>6. QED
    BY <1>0, <2>1, <2>3, <2>4, <2>5, OpenedIsExpected
<1>3. CASE RescanPageDone
  BY <1>0, <1>3, DoneIsParsed DEF RescanPageDone
<1>4. CASE ClearRecent
  <2>1. /\ pc = "run" /\ pc' = pc /\ changed' = changed /\ disk' = disk /\ left' = left /\ todo' = todo
    BY <1>4 DEF ClearRecent
  <2>2. /\ DOMAIN rows' = DOMAIN rows \ RecentRows
        /\ \A id \in DOMAIN rows' : rows'[id].title = rows[id].title /\ rows'[id].page = rows[id].page
    BY <1>4, ClearFacts
  <2>3. \A q \in PageSet : TitlesOf(q)' = TitlesOf(q)
    <3> TAKE q \in PageSet
    <3>0. q # "__RECENT__"
      BY LibraryAssumption
    <3>1. RowsOf(q)' = RowsOf(q)
      BY <2>2, <3>0 DEF RowsOf, RecentRows
    <3>2. \A id \in RowsOf(q) : rows'[id].title = rows[id].title
      BY <2>2, <3>1 DEF RowsOf
    <3>3. QED
      BY <3>1, <3>2, SameTitles
  <2>4. \A q : Expected(q)' = Expected(q)
    BY <2>1 DEF Expected, Launchable
  <2>5. QED
    BY <1>0, <2>1, <2>3, <2>4 DEF ParsedSoFar
<1>5. CASE RebuildDatabase
  BY <1>0, <1>5 DEF RebuildDatabase, ParsedSoFar
<1>6. QED
  BY <1>0, <1>1, <1>2, <1>3, <1>4, <1>5 DEF Menus

(* ... and what comes and goes meanwhile concerns its own page only.       *)
LEMMA WorldParses ==
  ASSUME Shape, ParsedSoFar, RebuildShape, NEW t \in Titles, Install(t) \/ Remove(t)
  PROVE  ParsedSoFar' /\ RebuildShape'
<1> USE DEF Install, Remove
<1>1. /\ rows' = rows /\ todo' = todo /\ pc' = pc /\ changed' = changed \cup {Home[t]}
      /\ disk' \ {t} = disk \ {t}
  OBVIOUS
<1>2. \/ left' = left
      \/ left # Null /\ Head(todo) = Home[t] /\ left' = left \cup {t}
  OBVIOUS
<1>3. left' = Null <=> left = Null
  BY <1>2, LibraryAssumption DEF Shape, TypeOK
<1>4. left' # Null => \A u \in left' : Home[u] = Head(todo')
  BY <1>1, <1>2, <1>3 DEF ParsedSoFar
<1>5. ASSUME NEW p \in PageSet, p # Home[t] PROVE Expected(p)' = Expected(p)
  <2>1. CASE left # Null /\ p = Head(todo)
    <3>1. left' = left /\ t \notin left
      BY <1>2, <1>5, <2>1 DEF ParsedSoFar
    <3>2. \A u \in left : Launchable(u)' = Launchable(u)
      BY <1>1, <3>1 DEF Launchable
    <3>3. Expected(p) = { u \in left : Launchable(u) } /\ Expected(p)' = { u \in left : Launchable(u)' }
      BY <1>1, <2>1, <3>1 DEF Expected
    <3>4. QED
      BY <3>2, <3>3
  <2>2. CASE left = Null \/ p # Head(todo)
    BY <1>1, <1>3, <2>2 DEF Expected
  <2>3. QED
    BY <2>1, <2>2
<1>6. \A p : TitlesOf(p)' = TitlesOf(p)
  BY <1>1 DEF TitlesOf, RowsOf
<1>7. ASSUME NEW p \in PageSet, p # Home[t]
      PROVE  { u \in disk' \ Unreadable : Home[u] = p } = { u \in disk \ Unreadable : Home[u] = p }
  BY <1>1, <1>7
<1>8. ParsedSoFar'
  BY <1>1, <1>4, <1>5, <1>6, <1>7 DEF ParsedSoFar
<1>9. RebuildShape'
  BY <1>1, <1>3 DEF RebuildShape, RowsOf
<1>10. QED
  BY <1>8, <1>9

(* So it is after every step, when no two pages have the same name.        *)
LEMMA NextParses ==
  ASSUME DistinctPages
  PROVE  Shape /\ ParsedSoFar /\ RebuildShape /\ [Next]_vars => ParsedSoFar' /\ RebuildShape'
<1> SUFFICES ASSUME Shape, ParsedSoFar, RebuildShape, [Next]_vars
             PROVE  ParsedSoFar' /\ RebuildShape'
  OBVIOUS
<1> USE DEF stored, parsing, rails
<1>1. ASSUME rows' = rows, disk' = disk, changed' = changed, todo' = todo, left' = left, pc' = pc
      PROVE  ParsedSoFar' /\ RebuildShape'
  BY <1>1 DEF ParsedSoFar, RebuildShape, TitlesOf, RowsOf, Expected, Launchable
<1>2. ASSUME Off PROVE ParsedSoFar' /\ RebuildShape'
  BY <1>2 DEF Off, ParsedSoFar, RebuildShape
<1>3. ASSUME NEW t \in Titles, SkipFolder(t) PROVE ParsedSoFar' /\ RebuildShape'
  <2>1. /\ left # Null /\ t \in left /\ ~Launchable(t) /\ left' = left \ {t}
        /\ rows' = rows /\ disk' = disk /\ changed' = changed /\ todo' = todo /\ pc' = pc
    BY <1>3 DEF SkipFolder
  <2>2. left' # Null
    BY <2>1, LibraryAssumption DEF Shape, TypeOK
  <2>3. \A p : Expected(p)' = Expected(p)
    BY <2>1, <2>2 DEF Expected, Launchable
  <2>4. \A p : TitlesOf(p)' = TitlesOf(p)
    BY <2>1 DEF TitlesOf, RowsOf
  <2>5. ParsedSoFar'
    BY <2>1, <2>3, <2>4 DEF ParsedSoFar
  <2>6. RebuildShape'
    BY <2>1, <2>2 DEF RebuildShape, RowsOf
  <2>7. QED
    BY <2>5, <2>6
<1>4. CASE Rebuild
  BY <1>4, RebuildParses
<1>5. CASE Parse
  BY <1>3, <1>5, AddKeepsParsed DEF Parse
<1>6. CASE Menus
  BY <1>6, MenusParse
<1>7. CASE Scans
  BY <1>1, <1>2, <1>7 DEF Scans, Query, AddTile, DeadTile, ScanEnds
<1>8. CASE Launch
  BY <1>1, <1>2, <1>8 DEF Launch, LaunchTile, LaunchRefused, LaunchFile
<1>9. CASE World
  BY <1>2, <1>9, WorldParses DEF World, PowerCut
<1>10. CASE UNCHANGED vars
  BY <1>1, <1>10 DEF vars
<1>11. QED
  BY <1>4, <1>5, <1>6, <1>7, <1>8, <1>9, <1>10 DEF Next

(* What a rebuild or a rescan leaves in the table (dash_database.c) is what *)
(* is on disk, as long as nothing changed since the page was opened.       *)
THEOREM ParsedPagesAreAlwaysComplete ==
  ASSUME DistinctPages
  PROVE  Spec => []ParsedPagesAreComplete
<1>1. Init => Shape /\ ParsedSoFar /\ RebuildShape
  BY InitShape DEF Init, ParsedSoFar, RebuildShape
<1>2. Shape /\ ParsedSoFar => ParsedPagesAreComplete
  <2> SUFFICES ASSUME Shape, ParsedSoFar, pc = "run", NEW p \in PageSet \ changed
               PROVE  { rows[id].title : id \in RowsOf(p) } = { t \in disk \ Unreadable : Home[t] = p }
    BY DEF ParsedPagesAreComplete
  <2>1. Expected(p) = {}
    BY DEF Expected, Shape, ParsingShape
  <2>2. QED
    BY <2>1 DEF ParsedSoFar, TitlesOf
<1>3. QED
  BY <1>1, <1>2, NextKeepsShape, NextParses, PTL DEF Spec

(***************************************************************************)
(* How the rows are numbered.                                              *)
(***************************************************************************)

(* An item stays true when the rows it may have are among those there were, *)
(* or are new and have a new id.                                           *)
LEMMA ItemsStayTrue ==
  ASSUME Shape, ItemsAreTrue,
         \A x \in Tile : TrueItem(x) => TrueItem(x)',
         DOMAIN tiles' = DOMAIN tiles, \A p \in DOMAIN tiles : tiles'[p] \subseteq tiles[p],
         \A k \in Threads : scan'[k].items \subseteq scan[k].items
  PROVE  ItemsAreTrue'
<1>1. \A p \in DOMAIN tiles : tiles[p] \subseteq Tile
  BY DEF Shape, TypeOK
<1>2. \A k \in Threads : scan[k].items \subseteq Tile
  BY DEF Shape, TypeOK, ScanState
<1>3. QED
  BY <1>1, <1>2 DEF ItemsAreTrue

(* Where no row appears, every item stays true.                            *)
LEMMA FewerRows ==
  ASSUME rebuilt' = rebuilt, item_index' = item_index,
         \A id \in DOMAIN rows' : id \in DOMAIN rows /\ rows'[id].title = rows[id].title,
         NEW x \in Tile, TrueItem(x)
  PROVE  TrueItem(x)'
  BY DEF TrueItem

(* A session that is over has nothing to keep.                             *)
LEMMA OffNumbers ==
  ASSUME Off
  PROVE  Numbering'
<1>1. (InsertsSucceed /\ RowsNumbered)'
  BY DEF Off, InsertsSucceed, RowsNumbered
<1>2. ItemsAreTrue'
  BY NoneShown DEF Off, ItemsAreTrue
<1>3. QED
  BY <1>1, <1>2 DEF Numbering

(* A session starts with no tile, and, if it rebuilds, with no row.        *)
LEMMA RebuildNumbers ==
  ASSUME Shape, Numbering, Rebuild
  PROVE  Numbering'
<1> USE DEF stored, parsing, rails
<1>1. CASE BootWithTitles
  <2> USE <1>1 DEF BootWithTitles
  <2>1. (InsertsSucceed /\ RowsNumbered)'
    BY DEF InsertsSucceed, RowsNumbered, DashCreate, Shape, OffShape
  <2>2. tiles' = NoTiles /\ \A k \in Threads : scan'[k].items = {}
    BY CreateFacts DEF Shape, OffShape
  <2>3. ItemsAreTrue'
    BY <2>2, NoneShown DEF ItemsAreTrue
  <2>4. QED
    BY <2>1, <2>3 DEF Numbering
<1>2. CASE BootRebuilds
  <2> USE <1>2 DEF BootRebuilds
  <2>1. DOMAIN rows' = {}
    BY NoRows DEF Shape, TableShape
  <2>2. (InsertsSucceed /\ RowsNumbered)'
    BY <2>1 DEF InsertsSucceed, RowsNumbered
  <2>3. tiles' = NoTiles /\ scan' = [ k \in Threads |-> NoScan ]
    BY DEF Shape, OffShape
  <2>4. ItemsAreTrue'
    BY <2>3, NoneShown DEF ItemsAreTrue
  <2>5. QED
    BY <2>2, <2>4 DEF Numbering
<1>3. CASE CreateTable \/ RebuildPage \/ RebuildPageDone
  BY <1>3 DEF CreateTable, RebuildPage, RebuildPageDone, Numbering, InsertsSucceed, RowsNumbered, ItemsAreTrue, TrueItem
<1>4. CASE RebuildDone
  <2> USE <1>4 DEF RebuildDone
  <2>1. (InsertsSucceed /\ RowsNumbered)'
    BY DEF InsertsSucceed, RowsNumbered, DashCreate, Numbering
  <2>2. \A k \in Threads : scan'[k].items = {}
    BY CreateFacts
  <2>3. \A p \in DOMAIN tiles : \A x \in tiles[p] : TrueItem(x)'
    BY DEF Numbering, ItemsAreTrue, TrueItem
  <2>4. QED
    BY <2>1, <2>2, <2>3 DEF Numbering, ItemsAreTrue
<1>5. QED
  BY <1>1, <1>2, <1>3, <1>4 DEF Rebuild

(* After a rebuild a new id is unused, because every id in use is below    *)
(* the counter; in another session nothing is promised from then on ...    *)
LEMMA ParseNumbers ==
  ASSUME Shape, Numbering, Parse
  PROVE  Numbering'
<1>1. ASSUME NEW t \in Titles, SkipFolder(t) PROVE Numbering'
  BY <1>1 DEF SkipFolder, Numbering, InsertsSucceed, RowsNumbered, ItemsAreTrue,
     TrueItem, stored, rails
<1>2. ASSUME NEW t \in Titles, AddTitle(t) PROVE Numbering'
  <2>1. /\ rebuilt' = rebuilt /\ tiles' = tiles /\ scan' = scan
        /\ item_index \in Nat /\ item_index' = item_index + 1
    BY <1>2, AddFacts DEF AddTitle, rails
  <2>2. CASE rebuilt
    <3>1. item_index \notin DOMAIN rows
      BY <1>2, <2>1, <2>2 DEF Numbering, RowsNumbered
    <3>2. /\ pc' = pc /\ DOMAIN rows' = DOMAIN rows \cup {item_index}
          /\ \A id \in DOMAIN rows : rows'[id] = rows[id]
      BY <1>2, <3>1, AddFacts
    <3>3. InsertsSucceed'
      BY <2>1, <3>2 DEF Numbering, InsertsSucceed
    <3>4. RowsNumbered'
      BY <2>1, <2>2, <3>2 DEF Numbering, RowsNumbered, Shape, TypeOK
    <3>5. \A x \in Tile : TrueItem(x) => TrueItem(x)'
      BY <2>1, <2>2, <3>2 DEF TrueItem, Tile
    <3>6. ItemsAreTrue'
      BY <2>1, <3>5, ItemsStayTrue DEF Numbering
    <3>7. QED
      BY <3>3, <3>4, <3>6 DEF Numbering
  <2>3. CASE ~rebuilt
    BY <2>1, <2>3 DEF Numbering, InsertsSucceed, RowsNumbered, ItemsAreTrue, TrueItem
  <2>4. QED
    BY <2>2, <2>3
<1>3. QED
  BY <1>1, <1>2 DEF Parse

(* ... the menus' rescans delete rows but never ids ...                    *)
LEMMA MenusNumber ==
  ASSUME Shape, Numbering, Menus
  PROVE  Numbering'
<1> USE DEF stored, parsing, rails
<1>1. ASSUME NEW sel, Rescan(sel) PROVE Numbering'
  BY <1>1 DEF Rescan, Numbering, InsertsSucceed, RowsNumbered, ItemsAreTrue, TrueItem
<1>2. ASSUME rebuilt' = rebuilt, item_index' = item_index, pc' \in {pc, "run"},
             \A id \in DOMAIN rows' : id \in DOMAIN rows /\ rows'[id].title = rows[id].title,
             DOMAIN tiles' = DOMAIN tiles, \A p \in DOMAIN tiles : tiles'[p] \subseteq tiles[p],
             \A k \in Threads : scan'[k].items \subseteq scan[k].items
      PROVE  Numbering'
  <2>1. (InsertsSucceed /\ RowsNumbered)'
    BY <1>2 DEF Numbering, InsertsSucceed, RowsNumbered
  <2>2. \A x \in Tile : TrueItem(x) => TrueItem(x)'
    BY <1>2, FewerRows
  <2>3. ItemsAreTrue'
    BY <1>2, <2>2, ItemsStayTrue DEF Numbering
  <2>4. QED
    BY <2>1, <2>3 DEF Numbering
<1>3. DOMAIN tiles = PageSet \cup {"Recent"}
  BY DEF Shape, TypeOK
<1>4. CASE RescanPage
  <2>1. /\ rebuilt' = rebuilt /\ item_index' = item_index /\ pc' = pc /\ scan' = scan
    BY <1>4 DEF RescanPage
  <2>2. \A id \in DOMAIN rows' : id \in DOMAIN rows /\ rows'[id].title = rows[id].title
    BY <1>4, RescanFacts
  <2>3. DOMAIN tiles' = DOMAIN tiles /\ \A p \in DOMAIN tiles : tiles'[p] \subseteq tiles[p]
    BY <1>3, <1>4, RescanFacts
  <2>4. QED
    BY <1>2, <2>1, <2>2, <2>3
<1>5. CASE RescanPageDone
  <2>1. /\ rebuilt' = rebuilt /\ item_index' = item_index /\ pc' \in {pc, "run"}
        /\ rows' = rows /\ tiles' = tiles
        /\ scan' = [ scan EXCEPT ![Min(FreeThreads)] = Starting(Head(todo)) ]
    BY <1>5 DEF RescanPageDone
  <2>2. Starting(Head(todo)).items = {} /\ scan \in [ Threads -> ScanState ]
    BY DEF Starting, Shape, TypeOK
  <2>3. \A k \in Threads : scan'[k].items \subseteq scan[k].items
    BY <2>1, <2>2
  <2>4. QED
    BY <1>2, <2>1, <2>3
<1>6. CASE ClearRecent
  <2>1. /\ rebuilt' = rebuilt /\ item_index' = item_index /\ pc' = pc /\ scan' = scan
    BY <1>6 DEF ClearRecent
  <2>2. \A id \in DOMAIN rows' : id \in DOMAIN rows /\ rows'[id].title = rows[id].title
    BY <1>6, ClearFacts
  <2>3. DOMAIN tiles' = DOMAIN tiles /\ \A p \in DOMAIN tiles : tiles'[p] \subseteq tiles[p]
    BY <1>3, <1>6, ClearFacts
  <2>4. QED
    BY <1>2, <2>1, <2>2, <2>3
<1>7. CASE RebuildDatabase
  BY <1>2, <1>7, NoRows DEF RebuildDatabase
<1>8. QED
  BY <1>1, <1>4, <1>5, <1>6, <1>7 DEF Menus

(* ... and the scan threads remember only rows that are there.             *)
LEMMA ScansNumber ==
  ASSUME Shape, Numbering, Scans
  PROVE  Numbering'
<1>e. SUFFICES ASSUME \E k \in Threads : Query(k) \/ AddTile(k) \/ ScanEnds(k)
               PROVE  Numbering'
  BY OffNumbers DEF Scans, DeadTile
<1>0. rows' = rows /\ pc' = pc /\ rebuilt' = rebuilt /\ item_index' = item_index
  BY <1>e DEF Query, AddTile, ScanEnds, stored, parsing
<1>1. (InsertsSucceed /\ RowsNumbered)'
  BY <1>0 DEF Numbering, InsertsSucceed, RowsNumbered
<1>2. \A x : TrueItem(x)' = TrueItem(x)
  BY <1>0 DEF TrueItem
<1>3. DOMAIN tiles = PageSet \cup {"Recent"}
  BY DEF Shape, TypeOK
<1>4. ASSUME NEW k \in Threads, Query(k) PROVE ItemsAreTrue'
  <2> DEFINE found == { [ id |-> i, title |-> rows[i].title ] : i \in Selected(scan[k].page) }
  <2>1. /\ \A x \in found : x.id \in DOMAIN rows /\ x.title = rows[x.id].title
        /\ scan'[k] = [ page |-> scan[k].page, at |-> "add", items |-> found ]
        /\ \A j \in Threads \ {k} : scan'[j] = scan[j]
    BY <1>4, QueryFacts
  <2>2. tiles' = tiles
    BY <1>4 DEF Query
  <2> HIDE DEF found
  <2>3. \A x \in found : TrueItem(x)
    BY <2>1 DEF TrueItem, Numbering, RowsNumbered
  <2>4. \A j \in Threads : scan'[j].items = scan[j].items \/ scan'[j].items = found
    BY <2>1
  <2>5. QED
    BY <1>2, <2>2, <2>3, <2>4 DEF Numbering, ItemsAreTrue
<1>5. ASSUME NEW k \in Threads, AddTile(k) PROVE ItemsAreTrue'
  <2>1. PICK x \in scan[k].items :
           /\ tiles' \in [ PageSet \cup {"Recent"} -> SUBSET Tile ]
           /\ \A p \in PageSet \cup {"Recent"} :
                tiles'[p] = IF p = scan[k].page THEN tiles[p] \cup {x} ELSE tiles[p]
           /\ scan'[k] = [ page |-> scan[k].page, at |-> "add", items |-> scan[k].items \ {x} ]
           /\ \A j \in Threads \ {k} : scan'[j] = scan[j]
    BY <1>5, AddTileFacts
  <2>2. TrueItem(x)
    BY DEF Numbering, ItemsAreTrue
  <2>3. \A j \in Threads : scan'[j].items \subseteq scan[j].items
    BY <2>1
  <2>4. DOMAIN tiles' = DOMAIN tiles /\ \A p \in DOMAIN tiles : tiles'[p] \subseteq tiles[p] \cup {x}
    BY <1>3, <2>1
  <2>5. QED
    BY <1>2, <2>2, <2>3, <2>4 DEF Numbering, ItemsAreTrue
<1>6. ASSUME NEW k \in Threads, ScanEnds(k) PROVE ItemsAreTrue'
  <2>1. tiles' = tiles /\ \A j \in Threads : scan'[j].items \subseteq scan[j].items
    BY <1>6, NoneShown DEF ScanEnds, Shape, TypeOK
  <2>2. QED
    BY <1>2, <2>1 DEF Numbering, ItemsAreTrue
<1>7. QED
  BY <1>e, <1>1, <1>4, <1>5, <1>6 DEF Numbering

(* So does every step.                                                     *)
LEMMA NextKeepsIInv == IInv /\ [Next]_vars => IInv'
<1> SUFFICES ASSUME Shape, Numbering, [Next]_vars PROVE Numbering'
  BY NextKeepsShape DEF IInv
<1>1. CASE Launch
  BY <1>1, OffNumbers DEF Launch, LaunchTile, LaunchFile, LaunchRefused, stored, parsing,
     Numbering, InsertsSucceed, RowsNumbered, ItemsAreTrue, TrueItem
<1>2. CASE World
  BY <1>2, OffNumbers DEF World, PowerCut, Install, Remove, rails,
     Numbering, InsertsSucceed, RowsNumbered, ItemsAreTrue, TrueItem
<1>3. CASE UNCHANGED vars
  BY <1>3 DEF vars, stored, parsing, rails,
     Numbering, InsertsSucceed, RowsNumbered, ItemsAreTrue, TrueItem
<1>4. QED
  BY <1>1, <1>2, <1>3, RebuildNumbers, ParseNumbers, MenusNumber, ScansNumber DEF Next

(* The counter that numbers the rows (item_index of dash_database.c) stays *)
(* above every id in use and above every id a tile or a thread remembers.  *)
THEOREM LibraryInvariant == Spec => []IInv
<1>1. Init => IInv
  BY InitShape, NoneShown DEF Init, IInv, Numbering, InsertsSucceed, RowsNumbered,
     ItemsAreTrue
<1>2. QED
  BY <1>1, NextKeepsIInv, PTL DEF Spec

(* db_insert's assertion holds in every session that began with a rebuild. *)
THEOREM InsertsAlwaysSucceed == Spec => []InsertsSucceed
<1>1. IInv => InsertsSucceed
  BY DEF IInv, Numbering
<1>2. QED
  BY <1>1, LibraryInvariant, PTL

(* A tile never starts another title than its own, however the pages were  *)
(* rescanned since its scan thread read the row (dash_scroller.c:782).     *)
THEOREM TilesAlwaysLaunchThemselves == Spec => []TilesLaunchThemselves
<1>1. IInv => TilesLaunchThemselves
  BY DEF IInv, Numbering, ItemsAreTrue, TrueItem, TilesLaunchThemselves
<1>2. QED
  BY <1>1, LibraryInvariant, PTL

================================================================================
