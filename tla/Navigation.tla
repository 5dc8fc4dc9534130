------------------------------- MODULE Navigation -------------------------------
(***************************************************************************)
(* What has the focus: the rails and tabs of the main screen, the windows  *)
(* over it, and the stack of what to go back to (src/src/dash_main.c,      *)
(* dash_scroller.c, dash_overlay_menu.c, dash_panel.c, dash_keyboard.c,    *)
(* lvgl_widgets/).  Every handler and every step of a scan thread runs     *)
(* under the LVGL lock and is one action.                                  *)
(*                                                                         *)
(* A key goes to the object that has the focus, whatever is on the screen. *)
(* Objects are [k |-> kind, p |-> page, n |-> place, g |-> incarnation]:   *)
(* the hidden item that every rail begins with ("null"), tiles, cards of   *)
(* the overlay menu, panels, menus (and boxes, which are menus without     *)
(* rows), the keyboard and the hidden object of the tab bar ("nav").       *)
(***************************************************************************)
EXTENDS Integers, Sequences, FiniteSets, SequencesExt, FiniteSetsExt

CONSTANTS
  NumPages,    \* the pages of the configuration
  TabOf,       \* TabOf[p]: the tab a page belongs to
  TabCount,    \* tabs are 0..TabCount-1; some have no page
  Rows,        \* bound on the titles a scan of a page finds
  Junk,        \* the indices that memory nobody has written may hold, by page
  MaxLayers,   \* bound on the windows over each other
  MaxDying,    \* bound on the closed windows that are still to be seen
  MaxRescans,  \* bound on the pages emptied after the start
  Patient,     \* scans end only while no window is open
  None

Pages == 1..NumPages
Tabs  == 0..(TabCount - 1)

ASSUME NavigationAssumption ==
  /\ NumPages \in Nat \ {0} /\ TabCount \in Nat \ {0}
  /\ TabOf \in [Pages -> Tabs] /\ Rows \in [Pages -> Nat]
  /\ Junk \subseteq [Pages -> Int] /\ Junk # {}
  /\ MaxLayers \in Nat \ {0} /\ MaxDying \in Nat \ {0} /\ MaxRescans \in Nat /\ Patient \in BOOLEAN

VARIABLES
  tiles,    \* tiles[p]: the tiles of a rail, from left to right
  scan,     \* scan[p]: the tiles its scan thread has yet to add, -1 without one
  page,     \* page_current; the rail on the screen is that page's
  sel,      \* selected_index
  tab,      \* current_tab
  nav,      \* tab_nav_active
  origin,   \* tab_nav_origin_tab and tab_nav_origin_sel, while tab_nav_active
  layers,   \* what was opened over the rails and is not closed, from below
  dying,    \* closed, and to be deleted when the animation has ended
  focus,    \* the focused object of the LVGL group
  final,    \* focus_stack[0]
  stack,    \* focus_stack from 1 to focus_stack_index
  junk,     \* junk[p]: rail_index of the null item, which nothing sets
  rescans,  \* how many pages have been emptied
  ran,      \* the tile whose title has been started, None before
  tripped   \* whether an assertion on the depth has failed

railVars == << tiles, scan, rescans >>
viewVars == << page, tab, nav, origin >>
vars == << tiles, scan, page, sel, tab, nav, origin, layers, dying, focus, final,
           stack, junk, rescans, ran, tripped >>

Obj(k, p, n, g) == [k |-> k, p |-> p, n |-> n, g |-> g]
Null(p) == Obj("null", p, 0, 0)
Windows == {"card", "panel", "menu", "kb", "nav"}

Live(ts, ls, ds) ==
  {Null(p) : p \in Pages} \cup (UNION {ToSet(ts[p]) : p \in Pages}) \cup ToSet(ls) \cup ds

(* A new object: none that is alive or remembered is the same.             *)
New(k, p, n) ==
  LET taken == {o \in Live(tiles, layers, dying) \cup ToSet(stack) :
                  o.k = k /\ o.p = p /\ o.n = n}
  IN  Obj(k, p, n, CHOOSE g \in 0..Cardinality(taken) : \A o \in taken : o.g # g)

IsOpen(k) == \E i \in 1..Len(layers) : layers[i].k = k
Clamp(lo, x, hi) == Max({lo, Min({x, hi})})

(***************************************************************************)
(* The focus.                                                              *)
(***************************************************************************)

(* A bug: the handler has no case for LV_EVENT_FOCUSED.                    *)
FocusedSel_Ignored(o, s, p, ts, active) == s

(* What selected_index is when o got the focus: outside of the tab bar it  *)
(* becomes the index o has, and if the rail has tiles, one of theirs.      *)
FocusedSel(o, s, p, ts, active) ==
  LET n == Len(ts[p])
      i == IF o.k = "tile" THEN o.n ELSE junk[o.p]
  IN  IF active \/ o.k \notin {"tile", "null"} THEN s
      ELSE IF n > 0 THEN Clamp(1, i, n) ELSE i

(* LVGL moves the focus of an object it deletes to one that can be seen.   *)
Refocus(o, ts, ls, ds) ==
  LET seen == (ToSet(ts[page]) \cup {x \in ToSet(ls) \cup ds : x.k \in {"card", "panel", "menu"}})
                \ {o}
  IN  IF focus # o THEN {focus} ELSE IF seen = {} THEN {None} ELSE seen

(* dash_focus_change_depth.                                                *)
Push(o) ==
  /\ Len(layers) < MaxLayers
  /\ layers' = Append(layers, o)
  /\ stack'  = Append(stack, focus)
  /\ focus'  = o

(* A bug: nobody asks whether the object on the stack is still there.      *)
Pop_Unchecked(there, s, ts) ==
  LET o == IF stack = << >> THEN final ELSE Last(stack) IN
  /\ focus'   = o
  /\ stack'   = SubSeq(stack, 1, Len(stack) - 1)
  /\ sel'     = FocusedSel(o, s, page, ts, nav)
  /\ tripped' = (tripped \/ stack = << >>)

(* dash_focus_pop_depth: the last that is still there, with s selected and *)
(* the objects of `there` alive.  Entry 0 can be popped any number of      *)
(* times.                                                                  *)
Pop(there, s, ts) ==
  LET Entry(i) == IF i = 0 THEN final ELSE stack[i]
      top == Max({j \in 0..Len(stack) : Entry(j) \in there})
  IN  /\ focus'   = Entry(top)
      /\ stack'   = SubSeq(stack, 1, top - 1)
      /\ sel'     = FocusedSel(Entry(top), s, page, ts, nav)
      /\ tripped' = (tripped \/ stack = << >>)

(* dash_scroller_set_page with selected_index = 1.                         *)
SetPage(p, ts, active) ==
  LET first == IF ts[p] = << >> THEN Null(p) ELSE ts[p][1]
      s     == IF ts[p] = << >> THEN 0 ELSE 1
  IN  /\ page' = p
      /\ sel'  = FocusedSel(first, s, p, ts, active)
      /\ final' = IF active THEN final ELSE Null(p)
      /\ focus' = IF active THEN focus ELSE first

Init ==
  /\ tiles = [p \in Pages |-> << >>]
  /\ scan \in [Pages -> 0..Max({Rows[p] : p \in Pages})]
  /\ \A p \in Pages : scan[p] <= Rows[p]
  /\ junk \in Junk
  /\ \E start \in 1..(NumPages + 1), warned \in BOOLEAN :
       /\ page = Min({start, NumPages})
       /\ tab  = IF start \in Pages THEN TabOf[start] ELSE 0
       /\ final = Null(page) /\ sel = junk[page]
       /\ layers = IF warned THEN << Obj("menu", 0, 0, 0) >> ELSE << >>
       /\ stack  = IF warned THEN << Null(page) >> ELSE << >>
       /\ focus  = IF warned THEN Obj("menu", 0, 0, 0) ELSE Null(page)
  /\ nav = FALSE /\ origin = None
  /\ dying = {} /\ rescans = 0 /\ ran = None /\ tripped = FALSE

(***************************************************************************)
(* The scan threads.                                                       *)
(***************************************************************************)

(* item_scan_add: one tile at a time.                                      *)
ScanAdd(p) ==
  /\ ran = None /\ scan[p] > 0
  /\ tiles' = [tiles EXCEPT ![p] = Append(@, New("tile", p, Len(@) + 1))]
  /\ scan'  = [scan EXCEPT ![p] = @ - 1]
  /\ UNCHANGED << viewVars, sel, layers, dying, focus, final, stack, junk, ran, rescans, tripped >>

(* The end of db_scan_thread_f: the page on the screen gets the focus,     *)
(* whatever has it, and one without tiles makes place for one with tiles.  *)
ScanEnd(p) ==
  /\ ran = None /\ scan[p] = 0
  /\ scan' = [scan EXCEPT ![p] = -1]
  /\ \/ /\ p = page /\ tiles[p] # << >>
        /\ Patient => layers = << >>
        /\ sel' = 1
        /\ final' = Null(p) /\ focus' = tiles[p][1]
        /\ UNCHANGED viewVars
     \/ /\ tiles[p] # << >> /\ tiles[page] = << >>
        /\ Patient => layers = << >> \/ nav
        /\ SetPage(p, tiles, nav)
        /\ tab' = TabOf[p]
        /\ UNCHANGED << nav, origin >>
     \/ /\ tiles[p] = << >> \/ (p # page /\ tiles[page] # << >>)
        /\ UNCHANGED << viewVars, sel, final, focus >>
  /\ UNCHANGED << tiles, layers, dying, stack, junk, ran, rescans, tripped >>

(***************************************************************************)
(* Keys on an item of a rail: item_selection_callback.                     *)
(***************************************************************************)
On(k)  == ran = None /\ focus # None /\ focus.k = k
OnItem == On("null") \/ On("tile")

(* The focus follows, if there is an item at s.                            *)
Select(s) ==
  LET rail == tiles[page]
      i == IF s < 0 THEN Len(rail) + 1 + s ELSE s  \* LVGL counts from the end
      o == IF i = 0 THEN Null(page) ELSE IF i \in 1..Len(rail) THEN rail[i] ELSE focus
  IN  /\ focus' = o
      /\ sel' = IF i \in 0..Len(rail) THEN FocusedSel(o, s, page, tiles, nav) ELSE s

Move ==
  /\ OnItem
  /\ LET last == Len(tiles[page]) IN
     \E s \in { IF sel < last THEN sel + 1 ELSE sel, IF sel > 1 THEN sel - 1 ELSE sel,
                Clamp(1, sel + 6, last), Clamp(1, sel - 6, last) } : Select(s)
  /\ UNCHANGED << railVars, viewVars, layers, dying, final, stack, junk, ran, tripped >>

TurnPage ==
  /\ OnItem
  /\ \E p \in { IF page = NumPages THEN 1 ELSE page + 1, IF page = 1 THEN NumPages ELSE page - 1 } :
       SetPage(p, tiles, nav) /\ tab' = TabOf[p]
  /\ UNCHANGED << railVars, nav, origin, layers, dying, stack, junk, ran, tripped >>

(* dash_overlay_menu_close.                                                *)
CloseCard ==
  /\ Cardinality(dying) < MaxDying
  /\ \E i \in 1..Len(layers) :
       layers[i].k = "card" /\ layers' = RemoveAt(layers, i) /\ dying' = dying \cup {layers[i]}
  /\ Pop(Live(tiles, layers, dying), sel, tiles)

(* START and X: dash_mainmenu_open and dash_context_menu_open open a card, *)
(* or close the one that is open.                                          *)
OpenCard ==
  /\ OnItem
  /\ \/ CloseCard
     \/ /\ ~IsOpen("card")
        /\ Push(New("card", 0, 0))
        /\ UNCHANGED << dying, sel, tripped >>
  /\ UNCHANGED << railVars, viewVars, final, junk, ran >>

(* Y opens the synopsis; A starts a title that can be started, or says why *)
(* it cannot be (dash_launcher_is_launchable).                             *)
OpenBox ==
  /\ OnItem /\ sel > 0
  /\ Push(New("menu", 0, 0))
  /\ UNCHANGED << railVars, viewVars, sel, dying, final, junk, ran, tripped >>

Launch ==
  /\ OnItem /\ sel > 0 /\ focus.k = "tile"
  /\ ran' = focus
  /\ UNCHANGED << railVars, viewVars, sel, layers, dying, focus, final, stack, junk, tripped >>

(* UP: dash_tab_bar_enter_nav.                                             *)
EnterNav ==
  /\ OnItem
  /\ nav' = TRUE /\ origin' = [tab |-> tab, sel |-> sel]
  /\ Push(New("nav", 0, 0))
  /\ UNCHANGED << railVars, page, tab, sel, dying, final, junk, ran, tripped >>

(***************************************************************************)
(* Keys on the tab bar: tab_nav_key_handler.                               *)
(***************************************************************************)
PagesOf(t) == {p \in Pages : TabOf[p] = t}

(* tab_nav_activate_tab.                                                   *)
NavMove ==
  /\ On("nav")
  /\ \E t \in {tab - 1, tab + 1} \cap Tabs :
       /\ tab' = t
       /\ IF PagesOf(t) = {} THEN UNCHANGED << page, sel, final, focus >>
          ELSE SetPage(Min(PagesOf(t)), tiles, nav)
  /\ UNCHANGED << railVars, nav, origin, layers, dying, stack, junk, ran, tripped >>

(* dash_scroller_restore_focus: s is tab_nav_origin_sel, f has the focus   *)
(* and keeps it when the rail is empty.                                    *)
RestoreFocus(s, f) ==
  LET rail == tiles[page] IN
  IF rail = << >> THEN sel' = sel /\ final' = final /\ focus' = f
  ELSE LET i == Clamp(1, s, Len(rail)) IN
       sel' = i /\ final' = Null(page) /\ focus' = rail[i]

(* A bug: the object of the tab bar goes, its entry on the stack stays.    *)
Dropped_Not == stack
Dropped == SubSeq(stack, 1, Len(stack) - 1)

(* dash_tab_bar_exit_nav, for A or DOWN and, cancel, for B: the tab comes  *)
(* back, and with it what has been shown since for another tab.            *)
ExitNav(cancel) ==
  LET t     == IF cancel THEN origin.tab ELSE tab
      moved == t # origin.tab
      s     == IF moved THEN 1 ELSE origin.sel
  IN  /\ On("nav") /\ nav
      /\ nav' = FALSE /\ tab' = t /\ origin' = None
      /\ \E i \in 1..Len(layers) : layers[i] = focus /\ layers' = RemoveAt(layers, i)
      /\ stack'  = Dropped
      /\ IF moved /\ PagesOf(t) # {} THEN SetPage(Min(PagesOf(t)), tiles, FALSE)
         ELSE /\ \E f \in Refocus(focus, tiles, layers, dying) : RestoreFocus(s, f)
              /\ UNCHANGED page
      /\ UNCHANGED << railVars, dying, junk, ran, tripped >>

(***************************************************************************)
(* Keys on the windows.                                                    *)
(***************************************************************************)
CardBack ==
  /\ On("card") /\ CloseCard
  /\ UNCHANGED << railVars, viewVars, final, junk, ran >>

(* dash_panel_open, from an item of a card.                                *)
OpenPanel ==
  /\ On("card") /\ ~IsOpen("panel")
  /\ Push(New("panel", 0, 0))
  /\ UNCHANGED << railVars, viewVars, sel, dying, final, junk, ran, tripped >>

(* dash_panel_close, which dash_panel_open does instead while one is open. *)
ClosePanel ==
  /\ On("panel") \/ On("card")
  /\ Cardinality(dying) < MaxDying
  /\ \E i \in 1..Len(layers) :
       layers[i].k = "panel" /\ layers' = RemoveAt(layers, i) /\ dying' = dying \cup {layers[i]}
  /\ Pop(Live(tiles, layers, dying), sel, tiles)
  /\ UNCHANGED << railVars, viewVars, final, junk, ran >>

OpenKeyboard ==
  /\ On("panel") /\ ~IsOpen("kb")
  /\ Push(New("kb", 0, 0))
  /\ UNCHANGED << railVars, viewVars, sel, dying, final, junk, ran, tripped >>

(* dash_keyboard_close: the focus is given back before the object goes.    *)
CloseKeyboard ==
  /\ On("kb")
  /\ \E i \in 1..Len(layers) : layers[i].k = "kb" /\ layers' = RemoveAt(layers, i)
  /\ Pop(Live(tiles, layers, dying), sel, tiles)
  /\ UNCHANGED << railVars, viewVars, dying, final, junk, ran >>

(* menu_open_static, from an item of a card or menu, or a section of a     *)
(* panel: menus and boxes over each other.                                 *)
OpenMenu ==
  /\ On("card") \/ On("panel") \/ On("menu")
  /\ Push(New("menu", 0, 0))
  /\ UNCHANGED << railVars, viewVars, sel, dying, final, junk, ran, tripped >>

(* menu_close, with the rails as ts: the menu goes first, so that LVGL     *)
(* lets something else have the focus, and the selection, in between.      *)
CloseMenu(ts) ==
  \E i \in 1..Len(layers), f \in Refocus(focus, ts, layers, dying) :
    /\ layers[i] = focus /\ layers' = RemoveAt(layers, i)
    /\ Pop(Live(ts, RemoveAt(layers, i), dying),
           IF f = None THEN sel ELSE FocusedSel(f, sel, page, ts, nav), ts)

MenuBack ==
  /\ On("menu") /\ CloseMenu(tiles)
  /\ UNCHANGED << railVars, viewVars, dying, final, junk, ran >>

(* dash_scroller_rescan_page: the tiles go, and another scan thread reads  *)
(* what the rebuild has found.  The menu stays open.                       *)
Rescan(p) ==
  /\ On("menu") /\ rescans < MaxRescans /\ scan[p] = -1 /\ TabOf[p] # 0
  /\ rescans' = rescans + 1
  /\ tiles' = [tiles EXCEPT ![p] = << >>]
  /\ \E n \in 0..Rows[p] : scan' = [scan EXCEPT ![p] = n]
  /\ UNCHANGED << viewVars, sel, layers, dying, focus, final, stack, junk, ran, tripped >>

(* dash_clear_recent, from the box that asks for it: that closes.          *)
ClearRecent(p) ==
  LET ts == [tiles EXCEPT ![p] = << >>] IN
  /\ On("menu") /\ rescans < MaxRescans /\ scan[p] = -1 /\ TabOf[p] = 0
  /\ rescans' = rescans + 1
  /\ tiles' = ts
  /\ CloseMenu(ts)
  /\ UNCHANGED << scan, viewVars, dying, final, junk, ran >>

(* lv_obj_del_delayed, when the animation of a closed window has ended.    *)
Delete(o) ==
  /\ ran = None
  /\ dying' = dying \ {o}
  /\ \E f \in Refocus(o, tiles, layers, dying) :
       /\ focus' = f
       /\ sel' = IF f \in {focus, None} THEN sel ELSE FocusedSel(f, sel, page, tiles, nav)
  /\ UNCHANGED << railVars, viewVars, layers, final, stack, junk, ran, tripped >>

Next ==
  \/ \E p \in Pages : ScanAdd(p) \/ ScanEnd(p) \/ Rescan(p) \/ ClearRecent(p)
  \/ \E o \in dying : Delete(o)
  \/ Move \/ TurnPage \/ OpenCard \/ OpenBox \/ Launch \/ EnterNav
  \/ NavMove \/ \E cancel \in BOOLEAN : ExitNav(cancel)
  \/ CardBack \/ OpenPanel \/ ClosePanel \/ OpenKeyboard \/ CloseKeyboard
  \/ OpenMenu \/ MenuBack

Spec == Init /\ [][Next]_vars

(***************************************************************************)
(* Properties.                                                             *)
(***************************************************************************)

(* Every variable holds a value of its type: what has the focus is still   *)
(* there, and what is started is a tile of the page on the screen.         *)
NavTypeOK ==
  /\ \A p \in Pages : scan[p] \in -1..Rows[p] /\ Len(tiles[p]) + Max({0, scan[p]}) <= Rows[p]
  /\ \A p \in Pages : \A i \in 1..Len(tiles[p]) : tiles[p][i].p = p /\ tiles[p][i].n = i
  /\ page \in Pages /\ tab \in Tabs /\ final \in {Null(p) : p \in Pages}
  /\ nav \in BOOLEAN /\ tripped \in BOOLEAN /\ rescans \in 0..MaxRescans
  /\ focus \in Live(tiles, layers, dying) \cup {None}
  /\ ran \in ToSet(tiles[page]) \cup {None}

(* The focus is pushed when a window or the tab bar opens and popped, or   *)
(* its entry dropped, when that closes, although tiles under it go in the  *)
(* meantime: what comes back has its own entry left, the assertion of      *)
(* dash_focus_pop_depth (dash_main.c:128) holds, and the keys go to the    *)
(* window on top (dash_scroller.c:1122, dash_main.c:113).                  *)
WindowsNest ==
  /\ ~tripped /\ Len(stack) = Len(layers)
  /\ layers # << >> => focus = Last(layers)

(* With no window open the keys go to an item of the page on the screen,   *)
(* once that is read and has tiles (dash_scroller.c:1124, 1320, 1470).     *)
RailHasFocus ==
  layers = << >> /\ scan[page] = -1 /\ tiles[page] # << >> =>
    focus \in ToSet(tiles[page]) \cup {Null(page)}

(* The types and, in the same run, that.                                   *)
NavInv == NavTypeOK /\ RailHasFocus

(* A starts the title that is drawn as selected: the focus, which decides  *)
(* what starts, and selected_index, which decides what is drawn, follow    *)
(* one another through pages, tabs, windows, scans and rescans             *)
(* (dash_scroller.c:720, 778 and 1462).                                    *)
LaunchesTheSelected ==
  ran # None => sel \in 1..Len(tiles[page]) /\ ran = tiles[page][sel]

================================================================================
