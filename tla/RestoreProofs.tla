----------------------------- MODULE RestoreProofs -----------------------------
(***************************************************************************)
(* Proofs about Restore, for any titles, snapshots and sizes and for any   *)
(* number of threads: although no thread is told which title it works for, *)
(* and nothing that is shared is locked, a request that kept its row is    *)
(* for the snapshot that was shown in that row, and the rows are the       *)
(* title's as long as no fetches are mixed; and, mixed or not, no thread   *)
(* asks for what is not there.                                             *)
(***************************************************************************)
EXTENDS Restore, FiniteSetTheorems, WellFoundedInduction, TLAPS

(***************************************************************************)
(* The inductive invariant.                                                *)
(***************************************************************************)

FetchRecords ==
  [ at : {"none", "begin", "connect", "entries"}, of : Titles \cup {NoTitle},
    next : 1..MaxSnapshots + 1 ]

RestoreRecords ==
  [ at : {"none", "begin", "connect", "file"}, idx : 0..MaxSnapshots - 1,
    title : Titles \cup {NoTitle}, from : Names \cup {0}, left : SUBSET Roots,
    row : {<< >>} \cup (Titles \X Names) ]

ThreadsOK == fetch \in [ Fetches -> FetchRecords ] /\ restore \in [ Restores -> RestoreRecords ]

Labels == [ {"status", "restore", "force", "rows"} -> {"null", "live", "gone"} ]

InterfaceOK ==
  /\ section \in {"status", "force", "restore"} /\ timer \in {"none", "status", "force", "restore"}
  /\ placeholder \in BOOLEAN /\ restore_list_ready \in BOOLEAN
  /\ restore_list_built \in BOOLEAN /\ restore_in_progress \in BOOLEAN
  /\ label \in Labels

(* Whatever was mixed, what lies in front of the count, and where the      *)
(* selection is, has been written; a menu has a title.                     *)
Shapes ==
  /\ screen \in {"rails", "menu", "panel"} /\ ctx_title_id \in Titles \cup {NoTitle}
  /\ screen # "rails" => ctx_title_id \in Titles
  /\ snapshots \in [ 1..MaxSnapshots -> Names \cup {0} ] /\ shown \in Seq(Names)
  /\ snapshot_count \in 0..MaxSnapshots /\ restore_selected \in 0..MaxSnapshots - 1
  /\ \A n \in 1..snapshot_count : snapshots[n] # 0
  /\ restore_selected # 0 => snapshots[restore_selected + 1] # 0
  /\ mixed \in BOOLEAN

(* A thread works for a title, and sends the name of a snapshot.           *)
FetchHasTitle(k) ==
  /\ fetch[k].at # "none" => ctx_title_id \in Titles
  /\ fetch[k].at = "entries" => fetch[k].of \in Titles

RestoreHasTitle(k) ==
  /\ restore[k].at \in {"begin", "connect"} =>
       ctx_title_id \in Titles /\ snapshots[restore[k].idx + 1] # 0
  /\ restore[k].at = "file" =>
       /\ restore[k].title \in Titles /\ restore[k].from \in Names
       /\ restore[k].left \subseteq RootsOf(restore[k].from, restore[k].title)

WorkHasTitle ==
  /\ \A k \in Fetches : FetchHasTitle(k)
  /\ \A k \in Restores : RestoreHasTitle(k)

(* Until fetches are mixed, one thread fetches the list, for the title     *)
(* whose panel is open if there is one, and writes where its list says.    *)
OneFetch ==
  /\ \A j, k \in Fetches : fetch[j].at # "none" /\ fetch[k].at # "none" => j = k
  /\ \A k \in Fetches : fetch[k].at # "none" => ~restore_list_ready
  /\ \A k \in Fetches : fetch[k].at \in {"begin", "connect"} => snapshot_count = 0
  /\ \A k \in Fetches : fetch[k].at = "entries" =>
       /\ fetch[k].next = snapshot_count + 1
       /\ screen = "panel" => fetch[k].of = ctx_title_id
       /\ snapshot_count <= Len(ListOf(fetch[k].of))
       /\ \A n \in 1..snapshot_count : snapshots[n] = ListOf(fetch[k].of)[n]
  /\ ~restore_list_ready /\ (\A k \in Fetches : fetch[k].at = "none") => snapshot_count = 0

(* In the panel, the array has the title's list, as far as it is filled.   *)
ListIsTitles ==
  screen = "panel" =>
    /\ snapshot_count <= Len(ListOf(ctx_title_id))
    /\ \A n \in 1..snapshot_count : snapshots[n] = ListOf(ctx_title_id)[n]

(* The rows are all of the array that is filled.                           *)
RowsAreList ==
  screen = "panel" /\ shown # << >> =>
    /\ restore_list_ready /\ Len(shown) = snapshot_count
    /\ \A n \in 1..Len(shown) : shown[n] = snapshots[n]
    /\ restore_selected < Len(shown)

ListsInv == OneFetch /\ ListIsTitles /\ RowsAreList

(* A request that kept its row will find it where its index points, even   *)
(* if the list is fetched again meanwhile; then it keeps to it.            *)
Finds(k) ==
  /\ ~mixed /\ ctx_title_id \in Titles
  /\ restore[k].idx < Len(ListOf(ctx_title_id))
  /\ snapshots[restore[k].idx + 1] = ListOf(ctx_title_id)[restore[k].idx + 1]
  /\ restore[k].row = << ctx_title_id, snapshots[restore[k].idx + 1] >>
  /\ \A j \in Fetches : fetch[j].at = "entries" => fetch[j].of = ctx_title_id

RequestOK(k) ==
  /\ Unsent(k) /\ restore[k].row # << >> => Finds(k)
  /\ restore[k].at = "file" /\ restore[k].row # << >> =>
       restore[k].row = << restore[k].title, restore[k].from >>

RequestsInv == \A k \in Restores : RequestOK(k)

ChoiceInv ==
  InterfaceOK /\ ThreadsOK /\ Shapes /\ WorkHasTitle /\ (mixed \/ ListsInv) /\ RequestsInv

(***************************************************************************)
(* The server's answers.  That their lines are snapshots rests on what the *)
(* n-th element of a finite set is.                                        *)
(***************************************************************************)

(* The answer to LIST has a length.                                        *)
LEMMA ListLength == \A t \in Titles : Len(ListOf(t)) \in Nat
<1> SUFFICES ASSUME NEW t \in Titles PROVE Len(ListOf(t)) \in Nat
  OBVIOUS
<1>1. IsFiniteSet(Names)
  BY RestoreAssumption, FS_Interval DEF Names
<1>2. Listed(t) \subseteq Names
  BY DEF Listed, Keeps
<1>3. Cardinality(Listed(t)) \in Nat
  BY <1>1, <1>2, FS_Subset, FS_CardinalityType
<1>4. Len(ListOf(t)) = Cardinality(Listed(t))
  BY <1>3 DEF ListOf, Answers
<1>5. QED
  BY <1>3, <1>4

(* Every non-empty set of naturals has a least element.                    *)
LEMMA LeastNatural ==
  ASSUME NEW T, T \subseteq Nat, T # {}
  PROVE  \E n \in T : \A m \in T : ~(m < n)
<1>1. PICK n \in T : \A m \in T : ~(<< m, n >> \in OpToRel(<, Nat))
  BY NatLessThanWellFounded, WFMin, Zenon
<1>2. \A m \in T : m < n => << m, n >> \in OpToRel(<, Nat)
  <2> TAKE m \in T
  <2>1. m \in Nat /\ n \in Nat
    OBVIOUS
  <2>2. QED
    BY <2>1, Zenon DEF OpToRel
<1>3. QED
  BY <1>1, <1>2

(* A finite set of positive numbers has an n-th element, for every n up to *)
(* its size: counting upwards, the count grows by one at its elements.     *)
LEMMA NthElement ==
  ASSUME NEW S, NEW m \in Nat, S \subseteq 1..m, NEW n \in 1..Cardinality(S)
  PROVE  \E i \in S : Cardinality({ j \in S : j <= i }) = n
<1> DEFINE below(i) == { j \in S : j <= i }
           reached  == { i \in 0..m : n <= Cardinality(below(i)) }
<1>0. \A j \in S : j \in Nat /\ 1 <= j /\ j <= m
  OBVIOUS
<1>1. IsFiniteSet(S) /\ Cardinality(S) \in Nat
  <2>1. IsFiniteSet(1..m)
    BY FS_Interval
  <2>2. QED
    BY <2>1, FS_Subset, FS_CardinalityType
<1>2. \A i \in 0..m : IsFiniteSet(below(i)) /\ Cardinality(below(i)) \in Nat
  <2> TAKE i \in 0..m
  <2>1. below(i) \in SUBSET S
    OBVIOUS
  <2> HIDE DEF below
  <2>2. QED
    BY <1>1, <2>1, FS_Subset, FS_CardinalityType
<1>3. m \in reached
  <2>1. below(m) = S
    BY <1>0
  <2>2. QED
    BY <1>1, <2>1
<1>4. PICK i \in reached : \A k \in reached : ~(k < i)
  <2>1. reached \subseteq Nat /\ reached # {}
    BY <1>3
  <2> HIDE DEF reached
  <2>2. QED
    BY <2>1, LeastNatural
<1>5. i \in 0..m /\ n <= Cardinality(below(i)) /\ i # 0
  <2>1. \A j \in S : ~(j <= 0)
    BY <1>0
  <2>a. below(0) = {}
    BY <2>1
  <2>2. Cardinality(below(0)) = 0
    BY <2>a, FS_EmptySet
  <2>3. QED
    BY <1>1, <2>2
<1>6. i - 1 \in 0..m /\ Cardinality(below(i - 1)) < n
  <2>1. i - 1 \in 0..m /\ i - 1 < i
    BY <1>5
  <2>2. i - 1 \notin reached
    BY <1>4, <2>1
  <2>3. Cardinality(below(i - 1)) \in Nat
    BY <1>2, <2>1
  <2>4. ~(n <= Cardinality(below(i - 1)))
    BY <2>1, <2>2
  <2> HIDE DEF below
  <2>5. QED
    BY <1>1, <2>1, <2>3, <2>4
<1>7. \A j \in S : j <= i <=> j <= i - 1 \/ j = i
  BY <1>0, <1>5
<1>8. i \in S /\ Cardinality(below(i)) = Cardinality(below(i - 1)) + 1
  <2>1. i \notin below(i - 1)
    BY <1>5
  <2>2. i \in S
    <3>1. SUFFICES ASSUME i \notin S PROVE FALSE
      OBVIOUS
    <3>2. below(i) = below(i - 1)
      BY <1>7, <3>1
    <3>3. QED
      BY <1>1, <1>2, <1>5, <1>6, <3>2
  <2>3. below(i) = below(i - 1) \cup {i}
    BY <1>7, <2>2
  <2> HIDE DEF below
  <2>4. Cardinality(below(i - 1) \cup {i}) = Cardinality(below(i - 1)) + 1
    BY <1>2, <1>6, <2>1, FS_AddElement
  <2>5. QED
    BY <2>2, <2>3, <2>4
<1>9. Cardinality(below(i)) = n
  <2>1. Cardinality(below(i - 1)) \in Nat
    BY <1>2, <1>6
  <2> HIDE DEF below
  <2>2. QED
    BY <1>1, <1>5, <1>6, <1>8, <2>1
<1>10. QED
  BY <1>8, <1>9

(* So every line of the server's answer names a snapshot that it lists.    *)
LEMMA LinesAreListed ==
  \A t \in Titles : \A n \in 1..Len(ListOf(t)) : ListOf(t)[n] \in Names
<1> SUFFICES ASSUME NEW t \in Titles, NEW n \in 1..Len(ListOf(t))
             PROVE  ListOf(t)[n] \in Names
  OBVIOUS
<1>1. Listed(t) \subseteq Names /\ Len(Snaps) \in Nat
  BY RestoreAssumption DEF Listed, Keeps
<1>2. IsFiniteSet(Names)
  BY <1>1, FS_Interval DEF Names
<1>3. Cardinality(Listed(t)) \in Nat
  BY <1>1, <1>2, FS_Subset, FS_CardinalityType
<1>4. n \in 1..Cardinality(Listed(t))
  BY <1>3 DEF ListOf, Answers
<1>5. \E i \in Listed(t) : Cardinality({ j \in Listed(t) : j <= i }) = n
  BY <1>1, <1>4, NthElement DEF Names
<1>6. ListOf(t)[n] = CHOOSE i \in Listed(t) : Cardinality({ j \in Listed(t) : j <= i }) = n
  BY <1>4 DEF ListOf, Answers
<1>7. ListOf(t)[n] \in Listed(t)
  BY <1>5, <1>6
<1>8. QED
  BY <1>1, <1>7

(* The labels and the flags.                                               *)
LEMMA LabelsStay ==
  ASSUME label \in Labels, NEW l \in Labels
  PROVE  /\ Deleted \in Labels /\ NoLabels \in Labels
         /\ \A s \in {"null", "live"} : \A i \in {"status", "restore", "force", "rows"} :
              [ l EXCEPT ![i] = s ] \in Labels
BY DEF Labels, Deleted, NoLabels

LEMMA BuildsKeepTypes ==
  ASSUME InterfaceOK, BuildStatus \/ BuildForce \/ BuildRestore
  PROVE  /\ timer' \in {"none", "status", "force", "restore"}
         /\ placeholder' \in BOOLEAN
         /\ label' \in Labels
<1>1. label \in Labels /\ Deleted \in Labels
  BY LabelsStay DEF InterfaceOK
<1>2. timer' \in {"none", "status", "force", "restore"}
  BY DEF InterfaceOK, BuildStatus, BuildForce, BuildRestore
<1>3. placeholder' \in BOOLEAN
  BY Zenon DEF InterfaceOK, BuildStatus, BuildForce, BuildRestore
<1>4. \/ label' = Deleted
      \/ label' = [ Deleted EXCEPT !["status"] = "live" ]
      \/ label' = [ Deleted EXCEPT !["status"] = "live", !["force"] = "live" ]
      \/ label' = [ Deleted EXCEPT !["restore"] = "live", !["rows"] = "live" ]
      \/ label' = [ Deleted EXCEPT !["restore"] = "live", !["rows"] = "null" ]
  BY Zenon DEF BuildStatus, BuildForce, BuildRestore, BuildRows, BuildNoRows
<1>5. label' \in Labels
  BY <1>1, <1>4 DEF Labels
<1>6. QED
  BY <1>2, <1>3, <1>5

(* What is the interface's own keeps its type.                             *)
LEMMA InterfaceStays == ASSUME InterfaceOK, [Next]_vars PROVE InterfaceOK'
<1>1. label' \in Labels
  <2>0. label \in Labels
    BY DEF InterfaceOK
  <2>1. CASE BuildStatus \/ BuildForce \/ BuildRestore
    BY <2>1, BuildsKeepTypes
  <2>2. CASE UNCHANGED label
    BY <2>0, <2>2
  <2>3. CASE OpenPanel
    BY <2>0, <2>3, LabelsStay DEF OpenPanel
  <2>4. CASE ClosePanel
    BY <2>0, <2>4, LabelsStay DEF ClosePanel, Labels
  <2>5. CASE Restart
    BY <2>0, <2>5, LabelsStay DEF Restart
  <2>6. \/ BuildStatus \/ BuildForce \/ BuildRestore \/ UNCHANGED label
        \/ OpenPanel \/ ClosePanel \/ Restart
    BY Zenon DEF Next, vars, panel, list, choice, OpenMenu, CloseMenu, Turn, Select,
         Enter, TouchesDeleted, PollBuilds, FetchStep, FetchBegin, FetchAsk, FetchEntry,
         FetchOverruns, FetchEnd, RestoreStep, RestoreBegin, RestoreAsk, RestoreFile, RestoreEnd
  <2>7. QED
    BY <2>1, <2>2, <2>3, <2>4, <2>5, <2>6
<1>2. timer' \in {"none", "status", "force", "restore"}
  <2>1. CASE BuildStatus \/ BuildForce \/ BuildRestore
    BY <2>1, BuildsKeepTypes
  <2>2. CASE timer' \in {timer, "none", "status"}
    BY <2>2 DEF InterfaceOK
  <2>3. \/ BuildStatus \/ BuildForce \/ BuildRestore \/ timer' \in {timer, "none", "status"}
    BY DEF Next, vars, panel, list, choice, OpenMenu, CloseMenu, OpenPanel, ClosePanel, Turn, Select,
         Enter, TouchesDeleted, PollBuilds, Restart, FetchStep, FetchBegin, FetchAsk, FetchEntry,
         FetchOverruns, FetchEnd, RestoreStep, RestoreBegin, RestoreAsk, RestoreFile, RestoreEnd
  <2>4. QED
    BY <2>1, <2>2, <2>3
<1>3. placeholder' \in BOOLEAN
  <2>1. CASE BuildStatus \/ BuildForce \/ BuildRestore
    BY <2>1, BuildsKeepTypes
  <2>2. CASE placeholder' = placeholder \/ placeholder' = FALSE
    BY <2>2, Zenon DEF InterfaceOK
  <2>3. \/ BuildStatus \/ BuildForce \/ BuildRestore
        \/ placeholder' = placeholder \/ placeholder' = FALSE
    BY Zenon DEF Next, vars, panel, list, choice, OpenMenu, CloseMenu, OpenPanel, ClosePanel, Turn, Select,
         Enter, TouchesDeleted, PollBuilds, Restart, FetchStep, FetchBegin, FetchAsk, FetchEntry,
         FetchOverruns, FetchEnd, RestoreStep, RestoreBegin, RestoreAsk, RestoreFile, RestoreEnd
  <2>4. QED
    BY <2>1, <2>2, <2>3
<1>4. restore_list_ready' \in BOOLEAN
  BY Zenon DEF InterfaceOK, Next, vars, panel, list, choice, OpenMenu, CloseMenu, OpenPanel, ClosePanel, Turn, Select,
         Enter, TouchesDeleted, PollBuilds, Restart, FetchStep, FetchBegin, FetchAsk, FetchEntry,
         FetchOverruns, FetchEnd, RestoreStep, RestoreBegin, RestoreAsk, RestoreFile, RestoreEnd
<1>5. restore_list_built' \in BOOLEAN
  BY Zenon DEF InterfaceOK, Next, vars, panel, list, choice, OpenMenu, CloseMenu, OpenPanel, ClosePanel, Turn, Select,
         Enter, TouchesDeleted, PollBuilds, Restart, FetchStep, FetchBegin, FetchAsk, FetchEntry,
         FetchOverruns, FetchEnd, RestoreStep, RestoreBegin, RestoreAsk, RestoreFile, RestoreEnd
<1>6. restore_in_progress' \in BOOLEAN
  BY Zenon DEF InterfaceOK, Next, vars, panel, list, choice, OpenMenu, CloseMenu, OpenPanel, ClosePanel, Turn, Select,
         Enter, TouchesDeleted, PollBuilds, Restart, FetchStep, FetchBegin, FetchAsk, FetchEntry,
         FetchOverruns, FetchEnd, RestoreStep, RestoreBegin, RestoreAsk, RestoreFile, RestoreEnd
<1>7. section' \in {"status", "force", "restore"}
  BY DEF InterfaceOK, Next, vars, panel, list, choice, OpenMenu, CloseMenu, OpenPanel, ClosePanel, Turn, Select,
         Enter, TouchesDeleted, PollBuilds, Restart, FetchStep, FetchBegin, FetchAsk, FetchEntry,
         FetchOverruns, FetchEnd, RestoreStep, RestoreBegin, RestoreAsk, RestoreFile, RestoreEnd
<1>8. QED
  BY <1>1, <1>2, <1>3, <1>4, <1>5, <1>6, <1>7, Zenon DEF InterfaceOK

(***************************************************************************)
(* The builders of sections, and what is forgotten.                        *)
(***************************************************************************)

(* A builder of sections leaves the list alone, and shows all of it or     *)
(* nothing; it starts a thread only where none is, and only for no list.   *)
LEMMA Builders ==
  ASSUME BuildStatus \/ BuildForce \/ BuildRestore
  PROVE  /\ \/ shown' = << >> /\ restore_selected' = restore_selected
            \/ /\ restore_list_ready /\ snapshot_count > 0
               /\ shown' = SubSeq(snapshots, 1, snapshot_count) /\ restore_selected' = 0
         /\ \/ fetch' = fetch
            \/ ~restore_list_ready /\ \E k \in Fetches :
                 fetch[k].at = "none" /\ fetch' = [ fetch EXCEPT ![k].at = "begin" ]
<1>1. CASE BuildStatus
  BY <1>1, Zenon DEF BuildStatus
<1>2. CASE BuildForce
  BY <1>2, Zenon DEF BuildForce
<1>3. CASE BuildRestore
  <2>1. CASE shown' = << >> /\ UNCHANGED << fetch, restore_selected >>
    BY <2>1, Zenon
  <2>2. CASE BuildRows /\ restore_list_ready /\ UNCHANGED fetch
    BY <2>2, Zenon DEF BuildRows
  <2>3. CASE BuildNoRows /\ restore_list_ready /\ UNCHANGED fetch
    BY <2>3, Zenon DEF BuildNoRows
  <2>4. CASE BuildNoRows /\ ~restore_list_ready
             /\ \E k \in FreeFetch : fetch' = [ fetch EXCEPT ![k].at = "begin" ]
    BY <2>4, Zenon DEF BuildNoRows, FreeFetch
  <2>5. QED
    BY <1>3, <2>1, <2>2, <2>3, <2>4, Zenon DEF BuildRestore, BuildRows
<1>4. QED
  BY <1>1, <1>2, <1>3

(* A request that is forgotten goes on as before.                          *)
LEMMA Forgetting ==
  ASSUME ThreadsOK, NEW b \in BOOLEAN, Forgets(b)
  PROVE  /\ restore' \in [ Restores -> RestoreRecords ]
         /\ \A k \in Restores :
              /\ restore'[k].at = restore[k].at /\ restore'[k].idx = restore[k].idx
              /\ restore'[k].title = restore[k].title /\ restore'[k].from = restore[k].from
              /\ restore'[k].left = restore[k].left
              /\ restore'[k].row = restore[k].row \/ (Unsent(k) /\ restore'[k].row = << >>)
              /\ b /\ Unsent(k) => restore'[k].row = << >>
<1>1. \A k \in Restores : restore[k] \in RestoreRecords
  BY DEF ThreadsOK
<1>2. \A k \in Restores : [ restore[k] EXCEPT !.row = << >> ] \in RestoreRecords
  BY <1>1 DEF RestoreRecords
<1>3. \A k \in Restores :
        /\ b /\ Unsent(k) => restore'[k] = [ restore[k] EXCEPT !.row = << >> ]
        /\ ~(b /\ Unsent(k)) => restore'[k] = restore[k]
  BY DEF Forgets
<1>4. DOMAIN restore' = Restores /\ restore' = [ k \in Restores |-> restore'[k] ]
  BY DEF Forgets
<1>5. restore' \in [ Restores -> RestoreRecords ]
  BY <1>1, <1>2, <1>3, <1>4
<1>6. ASSUME NEW k \in Restores
      PROVE  /\ restore'[k].at = restore[k].at /\ restore'[k].idx = restore[k].idx
             /\ restore'[k].title = restore[k].title /\ restore'[k].from = restore[k].from
             /\ restore'[k].left = restore[k].left
             /\ restore'[k].row = restore[k].row \/ (Unsent(k) /\ restore'[k].row = << >>)
             /\ b /\ Unsent(k) => restore'[k].row = << >>
  <2>1. CASE b /\ Unsent(k)
    BY <1>1, <1>3, <2>1 DEF RestoreRecords
  <2>2. CASE ~(b /\ Unsent(k))
    <3>1. restore'[k] = restore[k]
      BY <1>3, <2>2, Zenon
    <3>2. QED
      BY <2>2, <3>1, Zenon
  <2>3. QED
    BY <2>1, <2>2
<1>7. QED
  BY <1>5, <1>6

(***************************************************************************)
(* The shapes of what is shared, whether fetches are mixed or not.         *)
(***************************************************************************)

(* A line that is read is a snapshot's, and there is room to count it.     *)
LEMMA EntryIsListed ==
  ASSUME ThreadsOK, WorkHasTitle, NEW k \in Fetches,
         fetch[k].at = "entries", fetch[k].next <= LastLine(fetch[k].of)
  PROVE  /\ fetch[k].of \in Titles /\ fetch[k].next \in 1..MaxSnapshots
         /\ fetch[k].next \in 1..Len(ListOf(fetch[k].of))
         /\ ListOf(fetch[k].of)[fetch[k].next] \in Names
<1>1. fetch[k].of \in Titles
  BY DEF WorkHasTitle, FetchHasTitle
<1>2. Len(ListOf(fetch[k].of)) \in Nat
  BY <1>1, ListLength
<1>3. fetch[k].next \in 1..MaxSnapshots + 1
  BY DEF ThreadsOK, FetchRecords
<1>4. fetch[k].next \in 1..MaxSnapshots /\ fetch[k].next \in 1..Len(ListOf(fetch[k].of))
  BY <1>2, <1>3, RestoreAssumption DEF LastLine
<1>5. QED
  BY <1>1, <1>4, LinesAreListed

LEMMA NoRecords == NoFetch \in FetchRecords /\ NoRestore \in RestoreRecords
BY RestoreAssumption DEF FetchRecords, RestoreRecords, NoFetch, NoRestore

LEMMA FetchesStay == ASSUME ChoiceInv, [Next]_vars PROVE fetch' \in [ Fetches -> FetchRecords ]
<1>0. fetch \in [ Fetches -> FetchRecords ] /\ \A k \in Fetches : fetch[k] \in FetchRecords
  BY DEF ChoiceInv, ThreadsOK
<1>1. CASE UNCHANGED fetch
  BY <1>0, <1>1
<1>2. ASSUME NEW k \in Fetches, NEW f \in FetchRecords, fetch' = [ fetch EXCEPT ![k] = f ]
      PROVE  fetch' \in [ Fetches -> FetchRecords ]
  BY <1>0, <1>2
<1>3. CASE BuildStatus \/ BuildForce \/ BuildRestore
  <2>1. CASE \E k \in Fetches : fetch' = [ fetch EXCEPT ![k].at = "begin" ]
    <3>1. PICK k \in Fetches : fetch' = [ fetch EXCEPT ![k] = [ fetch[k] EXCEPT !.at = "begin" ] ]
      BY <2>1
    <3>2. [ fetch[k] EXCEPT !.at = "begin" ] \in FetchRecords
      BY <1>0 DEF FetchRecords
    <3>3. QED
      BY <1>2, <3>1, <3>2
  <2>2. QED
    BY <1>1, <1>3, <2>1, Builders
<1>4. ASSUME NEW k \in Fetches, FetchBegin(k) PROVE fetch' \in [ Fetches -> FetchRecords ]
  <2>1. [ fetch[k] EXCEPT !.at = "connect" ] \in FetchRecords
    BY <1>0 DEF FetchRecords
  <2>2. fetch' = [ fetch EXCEPT ![k] = [ fetch[k] EXCEPT !.at = "connect" ] ]
    BY <1>4 DEF FetchBegin
  <2>3. QED
    BY <1>2, <2>1, <2>2
<1>5. ASSUME NEW k \in Fetches, FetchAsk(k) PROVE fetch' \in [ Fetches -> FetchRecords ]
  <2>1. [ at |-> "entries", of |-> ctx_title_id, next |-> 1 ] \in FetchRecords
    BY RestoreAssumption DEF FetchRecords, ChoiceInv, Shapes
  <2>2. QED
    BY <1>2, <1>5, <2>1 DEF FetchAsk
<1>6. ASSUME NEW k \in Fetches, FetchEntry(k) PROVE fetch' \in [ Fetches -> FetchRecords ]
  <2>1. fetch[k].next \in 1..MaxSnapshots
    BY <1>6, EntryIsListed DEF FetchEntry, ChoiceInv
  <2>2. [ fetch[k] EXCEPT !.next = @ + 1 ] \in FetchRecords
    BY <1>0, <2>1, RestoreAssumption DEF FetchRecords
  <2>3. fetch' = [ fetch EXCEPT ![k] = [ fetch[k] EXCEPT !.next = @ + 1 ] ]
    BY <1>6 DEF FetchEntry
  <2>4. QED
    BY <1>2, <2>2, <2>3
<1>7. ASSUME NEW k \in Fetches, FetchEnd(k) PROVE fetch' \in [ Fetches -> FetchRecords ]
  BY <1>2, <1>7, NoRecords DEF FetchEnd
<1>8. CASE Restart
  BY <1>8, NoRecords DEF Restart
<1>9. \/ UNCHANGED fetch \/ BuildStatus \/ BuildForce \/ BuildRestore \/ Restart
      \/ \E k \in Fetches : FetchBegin(k) \/ FetchAsk(k) \/ FetchEntry(k) \/ FetchEnd(k)
  BY Zenon DEF Next, vars, panel, list, choice, OpenMenu, CloseMenu, OpenPanel, ClosePanel, Turn, Select,
         Enter, TouchesDeleted, PollBuilds, FetchStep, 
         FetchOverruns, RestoreStep, RestoreBegin, RestoreAsk, RestoreFile, RestoreEnd
<1>10. QED
  BY <1>1, <1>3, <1>4, <1>5, <1>6, <1>7, <1>8, <1>9

(* The selection is one of the rows that are shown, until lists are mixed. *)
LEMMA ChosenRow ==
  ASSUME ChoiceInv, screen = "panel", ~mixed, shown # << >>
  PROVE  /\ ctx_title_id \in Titles /\ restore_selected + 1 \in 1..Len(shown)
         /\ shown[restore_selected + 1] \in Names
         /\ restore_selected < Len(ListOf(ctx_title_id))
         /\ shown[restore_selected + 1] = snapshots[restore_selected + 1]
         /\ snapshots[restore_selected + 1] = ListOf(ctx_title_id)[restore_selected + 1]
         /\ restore_list_ready
<1>1. ListsInv /\ Shapes
  BY DEF ChoiceInv
<1>2. ctx_title_id \in Titles /\ Len(ListOf(ctx_title_id)) \in Nat
  BY <1>1, ListLength DEF Shapes
<1>3. /\ Len(shown) = snapshot_count /\ restore_selected < Len(shown)
      /\ \A n \in 1..Len(shown) : shown[n] = snapshots[n]
      /\ snapshot_count <= Len(ListOf(ctx_title_id))
      /\ \A n \in 1..snapshot_count : snapshots[n] = ListOf(ctx_title_id)[n]
      /\ restore_selected \in Nat /\ snapshot_count \in Nat /\ shown \in Seq(Names)
      /\ restore_list_ready
  BY <1>1, RestoreAssumption DEF ListsInv, RowsAreList, ListIsTitles, Shapes
<1>4. restore_selected + 1 \in 1..Len(shown)
  BY <1>3
<1>5. QED
  BY <1>2, <1>3, <1>4

(* A record as RestoreAsk fills it in.                                     *)
LEMMA FilledRecords ==
  ASSUME NEW f \in RestoreRecords, NEW t \in Titles \cup {NoTitle}, NEW i \in Names \cup {0},
         NEW l \in SUBSET Roots
  PROVE  [ at |-> "file", idx |-> 0, title |-> t, from |-> i, left |-> l, row |-> f.row ] \in RestoreRecords
BY RestoreAssumption DEF RestoreRecords

(* The request that the user makes.                                        *)
Row == IF mixed \/ shown = << >> THEN << >> ELSE << ctx_title_id, shown[restore_selected + 1] >>

Request == [ NoRestore EXCEPT !.at = "begin", !.idx = restore_selected, !.row = Row ]

LEMMA NewRequest ==
  ASSUME ChoiceInv, screen = "panel"
  PROVE  /\ Request \in RestoreRecords
         /\ Request.at = "begin" /\ Request.idx = restore_selected /\ Request.row = Row
<1>1. Row \in {<< >>} \cup (Titles \X Names)
  BY ChosenRow DEF Row
<1>2. restore_selected \in 0..MaxSnapshots - 1
  BY DEF ChoiceInv, Shapes
<1> DEFINE i == restore_selected
           q == Row
           new == [ NoRestore EXCEPT !.at = "begin", !.idx = i, !.row = q ]
<1>3. i \in 0..MaxSnapshots - 1 /\ q \in {<< >>} \cup (Titles \X Names)
  BY <1>1, <1>2
<1>4. Request = new
  BY Zenon DEF Request
<1> HIDE DEF i, q
<1>5. new \in RestoreRecords /\ new.at = "begin" /\ new.idx = i /\ new.row = q
  BY <1>3, NoRecords DEF RestoreRecords, NoRestore
<1> HIDE DEF new
<1>6. QED
  BY <1>4, <1>5, Zenon DEF i, q

LEMMA EnterRequests ==
  ASSUME Enter
  PROVE  /\ screen = "panel"
         /\ \E k \in Restores : restore[k].at = "none" /\ restore' = [ restore EXCEPT ![k] = Request ]
BY Zenon DEF Enter, Request, Row

LEMMA RestoresStay == ASSUME ChoiceInv, [Next]_vars PROVE restore' \in [ Restores -> RestoreRecords ]
<1>0. restore \in [ Restores -> RestoreRecords ] /\ \A k \in Restores : restore[k] \in RestoreRecords
  BY DEF ChoiceInv, ThreadsOK
<1>1. CASE UNCHANGED restore
  BY <1>0, <1>1
<1>2. ASSUME NEW k \in Restores, NEW f \in RestoreRecords, restore' = [ restore EXCEPT ![k] = f ]
      PROVE  restore' \in [ Restores -> RestoreRecords ]
  BY <1>0, <1>2
<1>3. CASE \E b \in BOOLEAN : Forgets(b)
  BY <1>3, Forgetting DEF ChoiceInv
<1>4. CASE Enter
  BY <1>2, <1>4, EnterRequests, NewRequest
<1>5. ASSUME NEW k \in Restores, RestoreBegin(k) PROVE restore' \in [ Restores -> RestoreRecords ]
  <2>1. [ restore[k] EXCEPT !.at = "connect" ] \in RestoreRecords
    BY <1>0 DEF RestoreRecords
  <2>2. restore' = [ restore EXCEPT ![k] = [ restore[k] EXCEPT !.at = "connect" ] ]
    BY <1>5 DEF RestoreBegin
  <2>3. QED
    BY <1>2, <2>1, <2>2
<1>6. ASSUME NEW k \in Restores, RestoreAsk(k) PROVE restore' \in [ Restores -> RestoreRecords ]
  <2> DEFINE from == snapshots[restore[k].idx + 1]
             left == RootsOf(from, ctx_title_id)
             new  == [ at |-> "file", idx |-> 0, title |-> ctx_title_id, from |-> from,
                       left |-> left, row |-> restore[k].row ]
  <2>1. from \in Names \cup {0}
    BY <1>0, RestoreAssumption DEF RestoreRecords, ChoiceInv, Shapes
  <2>2. left \in SUBSET Roots /\ ctx_title_id \in Titles \cup {NoTitle}
    BY DEF RootsOf, ChoiceInv, Shapes
  <2>3. restore' = [ restore EXCEPT ![k] = new ]
    BY <1>6 DEF RestoreAsk
  <2> HIDE DEF from, left
  <2>4. new \in RestoreRecords
    BY <1>0, <2>1, <2>2, FilledRecords
  <2> HIDE DEF new
  <2>5. QED
    BY <1>2, <2>3, <2>4
<1>7. ASSUME NEW k \in Restores, RestoreFile(k) PROVE restore' \in [ Restores -> RestoreRecords ]
  <2>1. \A r : [ restore[k] EXCEPT !.left = @ \ {r} ] \in RestoreRecords
    BY <1>0 DEF RestoreRecords
  <2>2. restore' = [ restore EXCEPT ![k] = [ restore[k] EXCEPT !.left = @ \ { NextRoot(k) } ] ]
    BY <1>7 DEF RestoreFile
  <2>3. QED
    BY <1>2, <2>1, <2>2
<1>8. ASSUME NEW k \in Restores, RestoreEnd(k) PROVE restore' \in [ Restores -> RestoreRecords ]
  BY <1>2, <1>8, NoRecords DEF RestoreEnd
<1>9. CASE Restart
  BY <1>9, NoRecords DEF Restart
<1>10. \/ UNCHANGED restore \/ Enter \/ Restart \/ (\E b \in BOOLEAN : Forgets(b))
       \/ \E k \in Restores : RestoreBegin(k) \/ RestoreAsk(k) \/ RestoreFile(k) \/ RestoreEnd(k)
  <2>1. (\E t \in Titles : OpenMenu(t)) => \E b \in BOOLEAN : Forgets(b)
    BY Zenon DEF OpenMenu
  <2>2. OpenPanel => \E b \in BOOLEAN : Forgets(b)
    BY Zenon DEF OpenPanel, Fetching
  <2>3. (\E q \in {"status", "force", "restore"} : Turn(q)) => \E b \in BOOLEAN : Forgets(b)
    BY Zenon DEF Turn
  <2>4. QED
    BY <2>1, <2>2, <2>3, Zenon DEF Next, vars, panel, list, choice, CloseMenu, ClosePanel, Select,
         TouchesDeleted, PollBuilds, FetchStep, FetchBegin, FetchAsk, FetchEntry,
         FetchOverruns, FetchEnd, RestoreStep
<1>11. QED
  BY <1>1, <1>3, <1>4, <1>5, <1>6, <1>7, <1>8, <1>9, <1>10

(* What a step does to the array, the count and the selection.             *)
LEMMA ShapesStay == ASSUME ChoiceInv, [Next]_vars PROVE Shapes'
<1>0. Shapes
  BY DEF ChoiceInv
<1>1. /\ screen' \in {"rails", "menu", "panel"} /\ ctx_title_id' \in Titles \cup {NoTitle}
      /\ screen' # "rails" => ctx_title_id' \in Titles
  BY <1>0 DEF Shapes, Next, vars, panel, list, choice, OpenMenu, CloseMenu, OpenPanel, ClosePanel, Turn,
         Select, Enter, TouchesDeleted, PollBuilds, Restart, FetchStep, FetchBegin, FetchAsk,
         FetchEntry, FetchOverruns, FetchEnd, RestoreStep, RestoreBegin, RestoreAsk,
         RestoreFile, RestoreEnd
<1>2. mixed' \in BOOLEAN
  <2>1. Fetching \in BOOLEAN
    BY Zenon DEF Fetching
  <2>2. QED
    BY <1>0, <2>1, Zenon DEF Shapes, Next, vars, panel, list, choice, OpenMenu, CloseMenu, OpenPanel, ClosePanel, Turn,
         Select, Enter, TouchesDeleted, PollBuilds, Restart, FetchStep, FetchBegin, FetchAsk,
         FetchEntry, FetchOverruns, FetchEnd, RestoreStep, RestoreBegin, RestoreAsk,
         RestoreFile, RestoreEnd
<1>3. /\ snapshots' \in [ 1..MaxSnapshots -> Names \cup {0} ] /\ snapshot_count' \in 0..MaxSnapshots
      /\ \A n \in 1..snapshot_count' : snapshots'[n] # 0
      /\ Restart \/ \A n \in 1..MaxSnapshots : snapshots[n] # 0 => snapshots'[n] # 0
  <2>1. CASE UNCHANGED << snapshots, snapshot_count >>
    BY <1>0, <2>1 DEF Shapes
  <2>2. CASE UNCHANGED snapshots /\ snapshot_count' = 0
    BY <1>0, <2>2, RestoreAssumption DEF Shapes
  <2>3. CASE Restart
    BY <2>3, RestoreAssumption DEF Restart
  <2>4. ASSUME NEW k \in Fetches, FetchEntry(k)
        PROVE  /\ snapshots' \in [ 1..MaxSnapshots -> Names \cup {0} ] /\ snapshot_count' \in 0..MaxSnapshots
               /\ \A n \in 1..snapshot_count' : snapshots'[n] # 0
               /\ Restart \/ \A n \in 1..MaxSnapshots : snapshots[n] # 0 => snapshots'[n] # 0
    <3> DEFINE i == ListOf(fetch[k].of)[fetch[k].next]
    <3>1. i \in Names
      BY <2>4, EntryIsListed DEF FetchEntry, ChoiceInv
    <3>2. i # 0
      BY <3>1 DEF Names
    <3>3. /\ snapshots' = [ snapshots EXCEPT ![snapshot_count + 1] = i ]
          /\ snapshot_count' = snapshot_count + 1 /\ snapshot_count < MaxSnapshots
      BY <2>4 DEF FetchEntry
    <3> HIDE DEF i
    <3>4. snapshot_count \in Nat /\ snapshot_count + 1 \in 1..MaxSnapshots
      BY <1>0, <3>3, RestoreAssumption DEF Shapes
    <3>5. \A n \in 1..MaxSnapshots : snapshots'[n] = IF n = snapshot_count + 1 THEN i ELSE snapshots[n]
      BY <1>0, <3>3 DEF Shapes
    <3>6. snapshots' \in [ 1..MaxSnapshots -> Names \cup {0} ]
      BY <1>0, <3>1, <3>3 DEF Shapes
    <3>7. \A n \in 1..snapshot_count : snapshots[n] # 0
      BY <1>0 DEF Shapes
    <3>8. \A n \in 1..snapshot_count' : snapshots'[n] # 0
      BY <3>2, <3>3, <3>4, <3>5, <3>7, RestoreAssumption
    <3>9. \A n \in 1..MaxSnapshots : snapshots[n] # 0 => snapshots'[n] # 0
      BY <3>2, <3>5
    <3>10. snapshot_count' \in 0..MaxSnapshots
      BY <3>3, <3>4, RestoreAssumption
    <3>11. QED
      BY <3>6, <3>8, <3>9, <3>10
  <2>5. \/ UNCHANGED << snapshots, snapshot_count >>
        \/ UNCHANGED snapshots /\ snapshot_count' = 0
        \/ Restart \/ \E k \in Fetches : FetchEntry(k)
    BY Zenon DEF Next, vars, panel, list, choice, OpenMenu, CloseMenu, OpenPanel, ClosePanel, Turn,
         Select, Enter, TouchesDeleted, PollBuilds, FetchStep, FetchBegin, FetchAsk,
         FetchOverruns, FetchEnd, RestoreStep, RestoreBegin, RestoreAsk, RestoreFile,
         RestoreEnd
  <2>6. QED
    BY <2>1, <2>2, <2>3, <2>4, <2>5
<1>4. /\ restore_selected' \in 0..MaxSnapshots - 1
      /\ restore_selected' # 0 => snapshots'[restore_selected' + 1] # 0
  <2>1. CASE restore_selected' = 0
    BY <2>1, RestoreAssumption
  <2>2. CASE UNCHANGED restore_selected /\ ~Restart
    <3>1. restore_selected # 0 => snapshots[restore_selected + 1] # 0
      BY <1>0 DEF Shapes
    <3>2. restore_selected \in 0..MaxSnapshots - 1 /\ restore_selected + 1 \in 1..MaxSnapshots
      BY <1>0, RestoreAssumption DEF Shapes
    <3>3. QED
      BY <1>3, <2>2, <3>1, <3>2
  <2>3. CASE Select
    <3>1. snapshot_count \in 1..MaxSnapshots /\ restore_selected \in Nat
      BY <1>0, <2>3, RestoreAssumption DEF Select, Shapes
    <3>2. restore_selected' \in 0..snapshot_count - 1
      BY <2>3, <3>1 DEF Select
    <3>3. snapshots' = snapshots
      BY <2>3 DEF Select, list
    <3>4. /\ restore_selected' \in 0..MaxSnapshots - 1
          /\ restore_selected' + 1 \in 1..snapshot_count
      <4>1. MaxSnapshots \in Nat
        BY RestoreAssumption
      <4>2. \A s \in 0..snapshot_count - 1 :
              s \in 0..MaxSnapshots - 1 /\ s + 1 \in 1..snapshot_count
        BY <3>1, <4>1
      <4>3. QED
        BY <3>2, <4>2, Zenon
    <3>5. \A n \in 1..snapshot_count : snapshots[n] # 0
      BY <1>0 DEF Shapes
    <3>6. snapshots'[restore_selected' + 1] # 0
      BY <3>3, <3>4, <3>5
    <3>7. QED
      BY <3>4, <3>6
  <2>4. \/ restore_selected' = 0
        \/ UNCHANGED restore_selected /\ ~Restart
        \/ Select
    <3>1. \/ UNCHANGED restore_selected \/ restore_selected' = 0 \/ Select
          \/ BuildStatus \/ BuildForce \/ BuildRestore
      BY Zenon DEF Next, vars, panel, list, choice, OpenMenu, CloseMenu, OpenPanel, ClosePanel, Turn,
         Enter, TouchesDeleted, PollBuilds, Restart, FetchStep, FetchBegin, FetchAsk,
         FetchEntry, FetchOverruns, FetchEnd, RestoreStep, RestoreBegin, RestoreAsk,
         RestoreFile, RestoreEnd
    <3>2. Restart => restore_selected' = 0
      BY Zenon DEF Restart
    <3>3. QED
      BY <3>1, <3>2, Builders, Zenon
  <2>5. QED
    BY <2>1, <2>2, <2>3, <2>4
<1>5. shown' \in Seq(Names)
  <2>1. CASE UNCHANGED shown
    BY <1>0, <2>1 DEF Shapes
  <2>2. CASE shown' = << >>
    BY <2>2
  <2>3. CASE shown' = SubSeq(snapshots, 1, snapshot_count)
    <3>1. \A n \in 1..snapshot_count : snapshots[n] \in Names
      BY <1>0, RestoreAssumption DEF Shapes
    <3>2. snapshot_count \in Nat
      BY <1>0, RestoreAssumption DEF Shapes
    <3>3. QED
      BY <2>3, <3>1, <3>2
  <2>4. \/ UNCHANGED shown \/ shown' = << >>
        \/ BuildStatus \/ BuildForce \/ BuildRestore
    BY Zenon DEF Next, vars, panel, list, choice, OpenMenu, CloseMenu, OpenPanel, ClosePanel, Turn,
         Select, Enter, TouchesDeleted, PollBuilds, Restart, FetchStep, FetchBegin, FetchAsk,
         FetchEntry, FetchOverruns, FetchEnd, RestoreStep, RestoreBegin, RestoreAsk,
         RestoreFile, RestoreEnd
  <2>5. QED
    BY <2>1, <2>2, <2>3, <2>4, Builders
<1>6. QED
  BY <1>1, <1>2, <1>3, <1>4, <1>5, Zenon DEF Shapes

(* What the others do to a thread.                                         *)
LEMMA OtherFetches ==
  ASSUME ChoiceInv, [Next]_vars, ~Restart, NEW k \in Fetches
  PROVE  \/ fetch'[k] = fetch[k]
         \/ screen = "panel" /\ ctx_title_id' = ctx_title_id /\ fetch'[k].at = "begin"
         \/ FetchStep(k)
<1>0. fetch \in [ Fetches -> FetchRecords ]
  BY DEF ChoiceInv, ThreadsOK
<1>1. CASE UNCHANGED fetch
  BY <1>1
<1>2. CASE screen = "panel" /\ ctx_title_id' = ctx_title_id /\ (BuildStatus \/ BuildForce \/ BuildRestore)
  <2>1. CASE \E j \in Fetches : fetch' = [ fetch EXCEPT ![j].at = "begin" ]
    BY <1>0, <1>2, <2>1 DEF FetchRecords
  <2>2. QED
    BY <1>2, <2>1, Builders
<1>3. ASSUME NEW j \in Fetches, FetchStep(j), j # k PROVE fetch'[k] = fetch[k]
  BY <1>0, <1>3 DEF FetchStep, FetchBegin, FetchAsk, FetchEntry, FetchOverruns, FetchEnd
<1>4. \/ UNCHANGED fetch
      \/ screen = "panel" /\ ctx_title_id' = ctx_title_id /\ (BuildStatus \/ BuildForce \/ BuildRestore)
      \/ \E j \in Fetches : FetchStep(j)
  BY Zenon DEF Next, vars, panel, list, choice, OpenMenu, CloseMenu, OpenPanel, ClosePanel, Turn,
         Select, Enter, TouchesDeleted, PollBuilds, RestoreStep, RestoreBegin, RestoreAsk,
         RestoreFile, RestoreEnd
<1>5. QED
  BY <1>1, <1>2, <1>3, <1>4

LEMMA OtherRestores ==
  ASSUME ChoiceInv, [Next]_vars, ~Restart, NEW k \in Restores
  PROVE  \/ /\ restore'[k].at = restore[k].at /\ restore'[k].idx = restore[k].idx
            /\ restore'[k].title = restore[k].title /\ restore'[k].from = restore[k].from
            /\ restore'[k].left = restore[k].left
            /\ restore'[k].row = restore[k].row \/ (Unsent(k) /\ restore'[k].row = << >>)
         \/ Enter /\ restore'[k] = Request
         \/ RestoreStep(k)
<1>0. restore \in [ Restores -> RestoreRecords ] /\ ThreadsOK
  BY DEF ChoiceInv, ThreadsOK
<1>1. CASE restore'[k] = restore[k]
  BY <1>1
<1>2. CASE \E b \in BOOLEAN : Forgets(b)
  <2>1. PICK b \in BOOLEAN : Forgets(b)
    BY <1>2
  <2>2. QED
    BY <1>0, <2>1, Forgetting
<1>3. CASE Enter
  <2>1. PICK j \in Restores : restore' = [ restore EXCEPT ![j] = Request ]
    BY <1>3, EnterRequests
  <2>2. CASE j = k
    BY <1>0, <1>3, <2>1, <2>2
  <2>3. CASE j # k
    BY <1>0, <1>1, <2>1, <2>3
  <2>4. QED
    BY <2>2, <2>3
<1>4. ASSUME NEW j \in Restores, RestoreStep(j), j # k PROVE restore'[k] = restore[k]
  BY <1>0, <1>4 DEF RestoreStep, RestoreBegin, RestoreAsk, RestoreFile, RestoreEnd
<1>5. \/ UNCHANGED restore \/ Enter \/ (\E b \in BOOLEAN : Forgets(b))
      \/ \E j \in Restores : RestoreStep(j)
  <2>1. (\E t \in Titles : OpenMenu(t)) => \E b \in BOOLEAN : Forgets(b)
    BY Zenon DEF OpenMenu
  <2>2. OpenPanel => \E b \in BOOLEAN : Forgets(b)
    BY Zenon DEF OpenPanel, Fetching
  <2>3. (\E q \in {"status", "force", "restore"} : Turn(q)) => \E b \in BOOLEAN : Forgets(b)
    BY Zenon DEF Turn
  <2>4. QED
    BY <2>1, <2>2, <2>3, Zenon DEF Next, vars, panel, list, choice, CloseMenu, ClosePanel, Select, TouchesDeleted,
         PollBuilds, FetchStep, FetchBegin, FetchAsk, FetchEntry, FetchOverruns, FetchEnd
<1>6. QED
  BY <1>1, <1>2, <1>3, <1>4, <1>5

(* What is in the array stays, or is written over with a snapshot.         *)
LEMMA SnapshotsStay ==
  ASSUME ChoiceInv, [Next]_vars, ~Restart
  PROVE  \A n \in 1..MaxSnapshots : snapshots[n] # 0 => snapshots'[n] # 0
<1>1. CASE UNCHANGED snapshots
  BY <1>1
<1>2. ASSUME NEW k \in Fetches, FetchEntry(k)
      PROVE  \A n \in 1..MaxSnapshots : snapshots[n] # 0 => snapshots'[n] # 0
  <2> DEFINE i == ListOf(fetch[k].of)[fetch[k].next]
  <2>1. i \in Names
    BY <1>2, EntryIsListed DEF FetchEntry, ChoiceInv
  <2>2. i # 0
    BY <2>1 DEF Names
  <2>3. snapshots' = [ snapshots EXCEPT ![snapshot_count + 1] = i ]
    BY <1>2 DEF FetchEntry
  <2>4. snapshots \in [ 1..MaxSnapshots -> Names \cup {0} ]
    BY DEF ChoiceInv, Shapes
  <2> HIDE DEF i
  <2>5. QED
    BY <2>2, <2>3, <2>4
<1>3. UNCHANGED snapshots \/ \E k \in Fetches : FetchEntry(k)
  BY Zenon DEF Next, vars, panel, list, choice, OpenMenu, CloseMenu, OpenPanel, ClosePanel, Turn,
         Select, Enter, TouchesDeleted, PollBuilds, FetchStep, FetchBegin, FetchAsk,
         FetchOverruns, FetchEnd, RestoreStep, RestoreBegin, RestoreAsk, RestoreFile,
         RestoreEnd
<1>4. QED
  BY <1>1, <1>2, <1>3

(* A menu stays open while a request or a fetch of its panel is under way, *)
(* or another is opened: there is always a title to work for.              *)
LEMMA WorkStays == ASSUME ChoiceInv, [Next]_vars PROVE WorkHasTitle'
<1>0. /\ ThreadsOK /\ Shapes /\ WorkHasTitle
      /\ fetch' \in [ Fetches -> FetchRecords ] /\ restore' \in [ Restores -> RestoreRecords ]
  BY FetchesStay, RestoresStay DEF ChoiceInv
<1>1. CASE Restart
  BY <1>1 DEF Restart, WorkHasTitle, FetchHasTitle, RestoreHasTitle, NoFetch, NoRestore
<1>2. ~Restart => (ctx_title_id \in Titles => ctx_title_id' \in Titles)
  BY DEF Next, vars, panel, list, choice, OpenMenu, CloseMenu, OpenPanel, ClosePanel, Turn,
         Select, Enter, TouchesDeleted, PollBuilds, Restart, FetchStep, FetchBegin, FetchAsk,
         FetchEntry, FetchOverruns, FetchEnd, RestoreStep, RestoreBegin, RestoreAsk,
         RestoreFile, RestoreEnd
<1>3. ~Restart => \A n \in 1..MaxSnapshots : snapshots[n] # 0 => snapshots'[n] # 0
  BY SnapshotsStay
<1>4. ASSUME ~Restart, NEW k \in Fetches PROVE FetchHasTitle(k)'
  <2>1. CASE fetch'[k] = fetch[k]
    BY <1>0, <1>2, <1>4, <2>1 DEF WorkHasTitle, FetchHasTitle
  <2>2. CASE screen = "panel" /\ ctx_title_id' = ctx_title_id /\ fetch'[k].at = "begin"
    BY <1>0, <2>2 DEF Shapes, FetchHasTitle
  <2>3. CASE FetchStep(k)
    <3>1. ctx_title_id' \in Titles
      BY <1>0, <1>2, <1>4, <2>3 DEF FetchStep, FetchBegin, FetchAsk, FetchEntry, FetchOverruns,
           FetchEnd, WorkHasTitle, FetchHasTitle
    <3>2. fetch'[k].at = "entries" => fetch'[k].of \in Titles
      <4>1. CASE FetchBegin(k)
        BY <1>0, <4>1 DEF FetchBegin, ThreadsOK, FetchRecords
      <4>2. CASE FetchAsk(k)
        BY <1>0, <4>2 DEF FetchAsk, ThreadsOK, WorkHasTitle, FetchHasTitle
      <4>3. CASE FetchEntry(k)
        BY <1>0, <4>3 DEF FetchEntry, ThreadsOK, FetchRecords, WorkHasTitle, FetchHasTitle
      <4>4. CASE FetchEnd(k)
        BY <1>0, <4>4 DEF FetchEnd, ThreadsOK, NoFetch
      <4>5. QED
        BY <1>4, <2>3, <4>1, <4>2, <4>3, <4>4, Zenon DEF FetchStep, FetchOverruns
    <3>3. QED
      BY <3>1, <3>2 DEF FetchHasTitle
  <2>4. QED
    BY <1>4, <2>1, <2>2, <2>3, OtherFetches
<1>5. ASSUME ~Restart, NEW k \in Restores PROVE RestoreHasTitle(k)'
  <2>1. ASSUME restore'[k].at = restore[k].at, restore'[k].idx = restore[k].idx,
               restore'[k].title = restore[k].title, restore'[k].from = restore[k].from,
               restore'[k].left = restore[k].left
        PROVE  RestoreHasTitle(k)'
    <3>1. restore[k].idx + 1 \in 1..MaxSnapshots
      BY <1>0, RestoreAssumption DEF ThreadsOK, RestoreRecords
    <3>2. QED
      BY <1>0, <1>2, <1>3, <1>5, <2>1, <3>1 DEF WorkHasTitle, RestoreHasTitle
  <2>2. CASE Enter /\ restore'[k] = Request
    <3>1. /\ screen = "panel" /\ snapshot_count > 0
          /\ UNCHANGED << ctx_title_id, snapshots >>
      BY <2>2 DEF Enter, list
    <3>2. restore'[k].at = "begin" /\ restore'[k].idx = restore_selected
      BY <2>2, <3>1, NewRequest
    <3>3. snapshots[restore_selected + 1] # 0
      BY <1>0, <3>1, RestoreAssumption DEF Shapes
    <3>4. QED
      BY <1>0, <3>1, <3>2, <3>3 DEF Shapes, RestoreHasTitle
  <2>3. CASE RestoreStep(k)
    <3>1. CASE RestoreBegin(k)
      <4>1. /\ restore'[k].at = "connect" /\ restore'[k].idx = restore[k].idx
            /\ restore[k].at = "begin" /\ UNCHANGED << ctx_title_id, snapshots >>
        BY <1>0, <3>1 DEF RestoreBegin, ThreadsOK, RestoreRecords, list
      <4>2. QED
        BY <1>0, <4>1 DEF WorkHasTitle, RestoreHasTitle
    <3>2. CASE RestoreAsk(k)
      <4>1. LET from == snapshots[restore[k].idx + 1] IN
            /\ restore[k].at = "connect" /\ restore'[k].at = "file"
            /\ restore'[k].title = ctx_title_id /\ restore'[k].from = from
            /\ restore'[k].left = RootsOf(from, ctx_title_id)
        BY <1>0, <3>2 DEF RestoreAsk, ThreadsOK
      <4>2. ctx_title_id \in Titles /\ snapshots[restore[k].idx + 1] # 0
        BY <1>0, <4>1 DEF WorkHasTitle, RestoreHasTitle
      <4>3. snapshots[restore[k].idx + 1] \in Names
        BY <1>0, <4>2, RestoreAssumption DEF ThreadsOK, RestoreRecords, Shapes
      <4>4. QED
        BY <4>1, <4>2, <4>3 DEF RestoreHasTitle
    <3>3. CASE RestoreFile(k)
      <4>1. /\ restore'[k].at = "file" /\ restore[k].at = "file"
            /\ restore'[k].title = restore[k].title /\ restore'[k].from = restore[k].from
            /\ restore'[k].left \subseteq restore[k].left
        BY <1>0, <3>3 DEF RestoreFile, ThreadsOK, RestoreRecords
      <4>2. QED
        BY <1>0, <4>1 DEF WorkHasTitle, RestoreHasTitle
    <3>4. CASE RestoreEnd(k)
      <4>1. restore'[k].at = "none"
        BY <1>0, <3>4 DEF RestoreEnd, ThreadsOK, NoRestore
      <4>2. QED
        BY <4>1 DEF RestoreHasTitle
    <3>5. QED
      BY <2>3, <3>1, <3>2, <3>3, <3>4 DEF RestoreStep
  <2>4. QED
    BY <1>0, <1>5, <2>1, <2>2, <2>3, OtherRestores
<1>6. QED
  BY <1>1, <1>4, <1>5, Zenon DEF WorkHasTitle

(***************************************************************************)
(* The list, until fetches are mixed.                                      *)
(***************************************************************************)

(* A panel that is opened while nothing is fetched begins with no list.    *)
LEMMA ListsBegin ==
  ASSUME ChoiceInv, OpenPanel, ~mixed'
  PROVE  ListsInv'
<1>1. \A k \in Fetches : fetch[k].at = "none"
  BY Zenon DEF OpenPanel, Fetching
<1>2. /\ fetch' = fetch /\ snapshot_count' = 0 /\ shown' = << >>
      /\ ctx_title_id' = ctx_title_id /\ ctx_title_id \in Titles
  BY DEF OpenPanel, ChoiceInv, Shapes
<1>3. OneFetch'
  BY <1>1, <1>2 DEF OneFetch
<1>4. Len(ListOf(ctx_title_id)) >= 0
  BY <1>2, ListLength
<1>5. ListIsTitles' /\ RowsAreList'
  BY <1>2, <1>4 DEF ListIsTitles, RowsAreList
<1>6. QED
  BY <1>3, <1>5 DEF ListsInv

(* Outside of the panel, and while its threads restore.                    *)
LEMMA ListsKept ==
  ASSUME ListsInv, UNCHANGED << list, fetch >>,
         screen' # "panel" \/ UNCHANGED << screen, ctx_title_id, shown, restore_selected >>
  PROVE  ListsInv'
<1>1. OneFetch'
  BY DEF ListsInv, OneFetch, list
<1>2. ListIsTitles' /\ RowsAreList'
  BY DEF ListsInv, ListIsTitles, RowsAreList, list
<1>3. QED
  BY <1>1, <1>2 DEF ListsInv

(* Whichever section is built, by the user or by the timer: with a fetch   *)
(* only if there is none.                                                  *)
LEMMA ListsBuild ==
  ASSUME ChoiceInv, ListsInv, screen = "panel", BuildStatus \/ BuildForce \/ BuildRestore,
         fetch' = fetch \/ ~Fetching, UNCHANGED << screen, ctx_title_id, list >>
  PROVE  ListsInv'
<1> USE DEF list
<1>0. Shapes /\ ThreadsOK
  BY DEF ChoiceInv
<1>1. /\ Len(SubSeq(snapshots, 1, snapshot_count)) = snapshot_count
      /\ \A n \in 1..snapshot_count : SubSeq(snapshots, 1, snapshot_count)[n] = snapshots[n]
  BY <1>0, RestoreAssumption DEF Shapes
<1>2. OneFetch'
  <2>1. CASE fetch' = fetch
    BY <2>1 DEF ListsInv, OneFetch
  <2>2. CASE /\ ~Fetching /\ ~restore_list_ready
             /\ \E k \in Fetches : fetch' = [ fetch EXCEPT ![k].at = "begin" ]
    <3>1. PICK k \in Fetches : fetch' = [ fetch EXCEPT ![k].at = "begin" ]
      BY <2>2
    <3>2. \A j \in Fetches : fetch[j].at = "none"
      BY <2>2 DEF Fetching
    <3>3. snapshot_count = 0
      BY <2>2, <3>2 DEF ListsInv, OneFetch
    <3>4. fetch'[k].at = "begin" /\ \A j \in Fetches \ {k} : fetch'[j].at = "none"
      BY <1>0, <3>1, <3>2 DEF ThreadsOK, FetchRecords
    <3>5. QED
      BY <2>2, <3>3, <3>4 DEF OneFetch
  <2>3. QED
    BY <2>1, <2>2, Builders
<1>3. ListIsTitles'
  BY DEF ListsInv, ListIsTitles
<1>4. RowsAreList'
  <2>1. CASE shown' = << >>
    BY <2>1 DEF RowsAreList
  <2>2. CASE /\ restore_list_ready /\ snapshot_count > 0
             /\ shown' = SubSeq(snapshots, 1, snapshot_count) /\ restore_selected' = 0
    BY <1>1, <2>2 DEF RowsAreList
  <2>3. QED
    BY <2>1, <2>2, Builders
<1>5. QED
  BY <1>2, <1>3, <1>4 DEF ListsInv

(* The thread that fetches the list writes the next line behind the last.  *)
LEMMA ListsFetch ==
  ASSUME ChoiceInv, ListsInv, NEW k \in Fetches,
         FetchBegin(k) \/ FetchAsk(k) \/ FetchEntry(k) \/ FetchEnd(k)
  PROVE  ListsInv'
<1> USE DEF panel, list, choice
<1>0. ThreadsOK /\ Shapes /\ WorkHasTitle /\ OneFetch /\ ListIsTitles /\ RowsAreList
  BY DEF ChoiceInv, ListsInv
<1>1. fetch[k].at # "none"
  BY DEF FetchBegin, FetchAsk, FetchEntry, FetchEnd
<1>2. ~restore_list_ready /\ \A j \in Fetches \ {k} : fetch[j].at = "none"
  BY <1>0, <1>1 DEF OneFetch
<1>3. \A j \in Fetches \ {k} : fetch'[j] = fetch[j]
  BY <1>0 DEF FetchBegin, FetchAsk, FetchEntry, FetchEnd, ThreadsOK
<1>4. UNCHANGED << screen, ctx_title_id, shown, restore_selected >>
  BY DEF FetchBegin, FetchAsk, FetchEntry, FetchEnd
<1>5. screen = "panel" => shown = << >>
  BY <1>0, <1>2, Zenon DEF RowsAreList
<1>6. RowsAreList'
  BY <1>4, <1>5 DEF RowsAreList
<1>7. ctx_title_id \in Titles /\ Len(ListOf(ctx_title_id)) \in Nat
  BY <1>0, <1>1, ListLength DEF WorkHasTitle, FetchHasTitle
<1>8. CASE FetchBegin(k)
  <2>1. ~restore_list_ready' /\ snapshot_count' = 0
    BY <1>8, Zenon DEF FetchBegin
  <2>2. fetch'[k].at = "connect"
    BY <1>0, <1>8 DEF FetchBegin, ThreadsOK, FetchRecords
  <2>3. OneFetch'
    BY <1>2, <1>3, <2>1, <2>2 DEF OneFetch
  <2>4. ListIsTitles'
    BY <1>4, <1>7, <2>1 DEF ListIsTitles
  <2>5. QED
    BY <1>6, <2>3, <2>4 DEF ListsInv
<1>9. CASE FetchAsk(k)
  <2>1. fetch'[k] = [ at |-> "entries", of |-> ctx_title_id, next |-> 1 ]
    BY <1>0, <1>9 DEF FetchAsk, ThreadsOK
  <2>2. /\ snapshot_count = 0 /\ restore_list_ready' = restore_list_ready
        /\ snapshot_count' = snapshot_count /\ snapshots' = snapshots
    BY <1>0, <1>9 DEF FetchAsk, OneFetch
  <2>3. OneFetch'
    BY <1>2, <1>3, <1>4, <1>7, <2>1, <2>2 DEF OneFetch
  <2>4. ListIsTitles'
    BY <1>4, <1>7, <2>2 DEF ListIsTitles
  <2>5. QED
    BY <1>6, <2>3, <2>4 DEF ListsInv
<1>10. CASE FetchEntry(k)
  <2> DEFINE n == snapshot_count + 1
             t == fetch[k].of
             i == ListOf(t)[n]
  <2>1. t \in Titles /\ fetch[k].next = n /\ n \in 1..MaxSnapshots /\ n \in 1..Len(ListOf(t))
    BY <1>0, <1>10, EntryIsListed DEF FetchEntry, OneFetch
  <2>2. snapshot_count <= Len(ListOf(t)) /\ \A m \in 1..snapshot_count : snapshots[m] = ListOf(t)[m]
    BY <1>0, <1>10 DEF FetchEntry, OneFetch
  <2>3. screen = "panel" => t = ctx_title_id
    BY <1>0, <1>10 DEF FetchEntry, OneFetch
  <2>4. snapshots' = [ snapshots EXCEPT ![n] = i ] /\ snapshot_count' = n
        /\ restore_list_ready' = restore_list_ready
    BY <1>10, <2>1 DEF FetchEntry
  <2>5. fetch'[k].at = "entries" /\ fetch'[k].of = t /\ fetch'[k].next = n + 1
    BY <1>0, <1>10, <2>1 DEF FetchEntry, ThreadsOK, FetchRecords
  <2>6. snapshot_count \in Nat /\ Len(ListOf(t)) \in Nat
    BY <1>0, <2>1, ListLength, RestoreAssumption DEF Shapes
  <2>7. snapshots' = [ m \in 1..MaxSnapshots |-> IF m = n THEN i ELSE snapshots[m] ]
    BY <1>0, <2>4 DEF Shapes
  <2> HIDE DEF t
  <2>8. \A m \in 1..n : snapshots'[m] = ListOf(t)[m]
    <3> SUFFICES ASSUME NEW m \in 1..n PROVE snapshots'[m] = ListOf(t)[m]
      OBVIOUS
    <3>1. m \in 1..MaxSnapshots /\ (m = n \/ m \in 1..snapshot_count)
      BY <2>1, <2>6, RestoreAssumption
    <3>2. snapshots'[m] = IF m = n THEN i ELSE snapshots[m]
      BY <2>7, <3>1
    <3>3. QED
      BY <2>2, <3>1, <3>2
  <2> HIDE DEF i
  <2>9. OneFetch'
    <3>1. \A j \in Fetches \ {k} : fetch'[j].at = "none"
      BY <1>2, <1>3
    <3>2. n <= Len(ListOf(t))
      BY <2>1, <2>6
    <3>3. QED
      BY <1>2, <1>4, <2>3, <2>4, <2>5, <2>8, <3>1, <3>2 DEF OneFetch
  <2>10. ListIsTitles'
    BY <1>4, <2>1, <2>3, <2>4, <2>6, <2>8 DEF ListIsTitles
  <2>11. QED
    BY <1>6, <2>9, <2>10 DEF ListsInv
<1>11. CASE FetchEnd(k)
  <2>1. restore_list_ready'
    BY <1>11, Zenon DEF FetchEnd
  <2>2. fetch'[k].at = "none" /\ snapshot_count' = snapshot_count /\ snapshots' = snapshots
    BY <1>0, <1>11 DEF FetchEnd, NoFetch, ThreadsOK
  <2>3. OneFetch'
    BY <1>2, <1>3, <2>1, <2>2 DEF OneFetch
  <2>4. ListIsTitles'
    BY <1>0, <1>4, <2>2 DEF ListIsTitles
  <2>5. QED
    BY <1>6, <2>3, <2>4 DEF ListsInv
<1>12. QED
  BY <1>8, <1>9, <1>10, <1>11

LEMMA ListsStay == ASSUME ChoiceInv, [Next]_vars, ~mixed' PROVE ListsInv'
<1>1. CASE Restart
  <2>1. /\ \A k \in Fetches : fetch'[k].at = "none"
        /\ screen' = "rails" /\ snapshot_count' = 0
    BY <1>1 DEF Restart, NoFetch
  <2>2. QED
    BY <2>1 DEF ListsInv, OneFetch, ListIsTitles, RowsAreList
<1>2. CASE OpenPanel
  BY <1>2, ListsBegin
<1>3. CASE ~Restart /\ ~OpenPanel
  <2>a. (\E s \in {"status", "force", "restore"} : Turn(s)) => ~mixed
    BY Zenon DEF Turn
  <2>b. mixed' = mixed \/ \E s \in {"status", "force", "restore"} : Turn(s)
    BY <1>3, Zenon DEF Next, vars, panel, list, choice, OpenMenu, CloseMenu, ClosePanel, Select, Enter,
         TouchesDeleted, PollBuilds, FetchStep, FetchBegin, FetchAsk, FetchEntry,
         FetchOverruns, FetchEnd, RestoreStep, RestoreBegin, RestoreAsk, RestoreFile,
         RestoreEnd
  <2>1. ~mixed
    BY <2>a, <2>b, Zenon
  <2>2. ListsInv
    BY <2>1, Zenon DEF ChoiceInv
  <2>3. ASSUME NEW t \in Titles, OpenMenu(t) PROVE ListsInv'
    <3>1. UNCHANGED << list, fetch >> /\ screen' # "panel"
      BY <2>3 DEF OpenMenu
    <3>2. QED
      BY <2>2, <3>1, ListsKept
  <2>4. CASE CloseMenu \/ ClosePanel
    <3>1. UNCHANGED << list, fetch >> /\ screen' # "panel"
      BY <2>4 DEF CloseMenu, ClosePanel
    <3>2. QED
      BY <2>2, <3>1, ListsKept
  <2>5. CASE Enter \/ UNCHANGED vars \/ \E k \in Restores : RestoreStep(k)
    <3>1. UNCHANGED << list, fetch, screen, ctx_title_id, shown, restore_selected >>
      BY <2>5, Zenon DEF Enter, vars, RestoreStep, RestoreBegin, RestoreAsk, RestoreFile, RestoreEnd,
           panel, choice
    <3>2. QED
      BY <2>2, <3>1, ListsKept
  <2>6. CASE Select
    <3>1. UNCHANGED << screen, ctx_title_id, shown, list, fetch >>
      BY <2>6 DEF Select, panel
    <3>2. snapshot_count \in 1..MaxSnapshots /\ restore_selected \in Nat
      BY <2>6, RestoreAssumption DEF Select, ChoiceInv, Shapes
    <3>3. restore_selected' \in 0..snapshot_count - 1
      BY <2>6, <3>2 DEF Select
    <3>4. OneFetch'
      BY <2>2, <3>1 DEF ListsInv, OneFetch, list
    <3>5. ListIsTitles' /\ RowsAreList'
      BY <2>2, <3>1, <3>2, <3>3 DEF ListsInv, ListIsTitles, RowsAreList, list
    <3>6. QED
      BY <3>4, <3>5 DEF ListsInv
  <2>7. ASSUME NEW s \in {"status", "force", "restore"}, Turn(s) PROVE ListsInv'
    <3>1. screen = "panel" /\ UNCHANGED << screen, ctx_title_id, list >>
      BY <2>7, Zenon DEF Turn
    <3>2. BuildStatus \/ BuildForce \/ BuildRestore
      BY <2>7, Zenon DEF Turn
    <3>3. fetch' = fetch \/ ~Fetching
      BY <2>7, Zenon DEF Turn
    <3>4. QED
      BY <2>2, <3>1, <3>2, <3>3, ListsBuild, Zenon
  <2>8. CASE PollBuilds
    <3>1. screen = "panel" /\ UNCHANGED << screen, ctx_title_id, list >> /\ restore_list_ready
      BY <2>8, Zenon DEF PollBuilds, ListDue
    <3>2. BuildStatus \/ BuildForce \/ BuildRestore
      BY <2>8, Zenon DEF PollBuilds
    <3>3. fetch' = fetch
      BY <3>1, <3>2, Builders, Zenon
    <3>4. QED
      BY <2>2, <3>1, <3>2, <3>3, ListsBuild, Zenon
  <2>9. ASSUME NEW k \in Fetches, FetchStep(k) PROVE ListsInv'
    <3>1. FetchBegin(k) \/ FetchAsk(k) \/ FetchEntry(k) \/ FetchEnd(k)
      BY <1>3, <2>9, Zenon DEF FetchStep, FetchOverruns
    <3>2. QED
      BY <2>2, <3>1, ListsFetch
  <2>10. QED
    BY <1>3, <2>3, <2>4, <2>5, <2>6, <2>7, <2>8, <2>9 DEF Next, TouchesDeleted
<1>4. QED
  BY <1>1, <1>2, <1>3

(***************************************************************************)
(* A request that kept its row.                                            *)
(***************************************************************************)

(* Another thread's step, or the user's, while a request is unsent.        *)
LEMMA FindsStays ==
  ASSUME ChoiceInv, [Next]_vars, ~Restart, NEW k \in Restores, Finds(k), Unsent(k),
         restore[k].row # << >>, Unsent(k)', restore'[k].row # << >>,
         restore'[k].idx = restore[k].idx, restore'[k].row = restore[k].row
  PROVE  Finds(k)'
<1>0. ThreadsOK /\ Shapes /\ WorkHasTitle /\ restore[k].idx + 1 \in 1..MaxSnapshots
      /\ \A j \in Fetches : fetch[j] \in FetchRecords
  BY RestoreAssumption DEF ChoiceInv, ThreadsOK, RestoreRecords
<1>1. ctx_title_id' = ctx_title_id
  <2>1. ASSUME NEW t \in Titles, OpenMenu(t) PROVE t = ctx_title_id
    <3>1. CASE t # ctx_title_id
      BY <1>0, <2>1, <3>1, Forgetting, Zenon DEF OpenMenu
    <3>2. QED
      BY <3>1
  <2>2. ctx_title_id' = ctx_title_id \/ \E t \in Titles : OpenMenu(t) /\ ctx_title_id' = t
    BY Zenon DEF Next, vars, panel, list, choice, OpenMenu, CloseMenu, OpenPanel, ClosePanel, Turn,
         Select, Enter, TouchesDeleted, PollBuilds, FetchStep, FetchBegin, FetchAsk,
         FetchEntry, FetchOverruns, FetchEnd, RestoreStep, RestoreBegin, RestoreAsk,
         RestoreFile, RestoreEnd
  <2>3. QED
    BY <2>1, <2>2
<1>2. ~mixed'
  <2>1. CASE OpenPanel
    <3>1. Fetching \in BOOLEAN /\ Forgets(Fetching) /\ mixed' = Fetching
      BY <2>1, Zenon DEF OpenPanel, Fetching
    <3>2. QED
      BY <1>0, <3>1, Forgetting, Zenon
  <2>2. ASSUME NEW s \in {"status", "force", "restore"}, Turn(s) PROVE ~mixed'
    <3>1. PICK b \in BOOLEAN : Forgets(b) /\ mixed' = (mixed \/ b)
      BY <2>2, Zenon DEF Turn
    <3>2. ~b
      BY <1>0, <3>1, Forgetting, Zenon
    <3>3. QED
      BY <3>1, <3>2, Zenon DEF Finds
  <2>3. \/ mixed' = mixed \/ OpenPanel
        \/ \E s \in {"status", "force", "restore"} : Turn(s)
    BY Zenon DEF Next, vars, panel, list, choice, OpenMenu, CloseMenu, ClosePanel, Select, Enter,
         TouchesDeleted, PollBuilds, FetchStep, FetchBegin, FetchAsk, FetchEntry,
         FetchOverruns, FetchEnd, RestoreStep, RestoreBegin, RestoreAsk, RestoreFile,
         RestoreEnd
  <2>4. QED
    BY <2>1, <2>2, <2>3, Zenon DEF Finds
<1>3. snapshots'[restore[k].idx + 1] = snapshots[restore[k].idx + 1]
  <2>1. ASSUME NEW j \in Fetches, FetchEntry(j)
        PROVE  snapshots'[restore[k].idx + 1] = snapshots[restore[k].idx + 1]
    <3>1. ListsInv
      BY Zenon DEF ChoiceInv, Finds
    <3>2. fetch[j].next = snapshot_count + 1 /\ fetch[j].of = ctx_title_id
      BY <2>1, <3>1 DEF FetchEntry, ListsInv, OneFetch, Finds
    <3>3. snapshots' = [ snapshots EXCEPT ![snapshot_count + 1] = ListOf(ctx_title_id)[snapshot_count + 1] ]
      BY <2>1, <3>2 DEF FetchEntry
    <3>4. snapshots[restore[k].idx + 1] = ListOf(ctx_title_id)[restore[k].idx + 1]
      BY DEF Finds
    <3>5. QED
      BY <1>0, <3>3, <3>4 DEF Shapes
  <2>2. UNCHANGED snapshots \/ \E j \in Fetches : FetchEntry(j)
    BY Zenon DEF Next, vars, panel, list, choice, OpenMenu, CloseMenu, OpenPanel, ClosePanel, Turn,
         Select, Enter, TouchesDeleted, PollBuilds, FetchStep, FetchBegin, FetchAsk,
         FetchOverruns, FetchEnd, RestoreStep, RestoreBegin, RestoreAsk, RestoreFile,
         RestoreEnd
  <2>3. QED
    BY <2>1, <2>2
<1>4. ASSUME NEW j \in Fetches, fetch'[j].at = "entries" PROVE fetch'[j].of = ctx_title_id
  <2>1. CASE fetch'[j] = fetch[j]
    BY <1>4, <2>1 DEF Finds
  <2>2. CASE FetchStep(j)
    <3>1. CASE FetchBegin(j)
      BY <1>0, <1>4, <3>1 DEF FetchBegin, ThreadsOK, FetchRecords
    <3>2. CASE FetchAsk(j)
      BY <1>0, <3>2 DEF FetchAsk, ThreadsOK
    <3>3. CASE FetchEntry(j)
      BY <1>0, <3>3 DEF FetchEntry, ThreadsOK, FetchRecords, Finds
    <3>4. CASE FetchEnd(j)
      BY <1>0, <1>4, <3>4 DEF FetchEnd, ThreadsOK, NoFetch
    <3>5. QED
      BY <2>2, <3>1, <3>2, <3>3, <3>4, Zenon DEF FetchStep, FetchOverruns
  <2>3. QED
    BY <1>4, <2>1, <2>2, OtherFetches
<1>5. QED
  BY <1>1, <1>2, <1>3, <1>4, Zenon DEF Finds

LEMMA RequestsStay == ASSUME ChoiceInv, [Next]_vars PROVE RequestsInv'
<1>0. ThreadsOK /\ Shapes /\ \A k \in Restores : restore[k] \in RestoreRecords
  BY DEF ChoiceInv, ThreadsOK
<1>1. CASE Restart
  BY <1>1 DEF Restart, RequestsInv, RequestOK, Unsent, NoRestore
<1>2. ASSUME ~Restart, NEW k \in Restores PROVE RequestOK(k)'
  <2>0. RequestOK(k)
    BY DEF ChoiceInv, RequestsInv
  <2>1. ASSUME restore'[k].at = restore[k].at, restore'[k].idx = restore[k].idx,
               restore'[k].title = restore[k].title, restore'[k].from = restore[k].from,
               restore'[k].row = restore[k].row \/ restore'[k].row = << >>
        PROVE  RequestOK(k)'
    <3>1. Unsent(k)' /\ restore'[k].row # << >> => Finds(k)'
      <4> SUFFICES ASSUME Unsent(k)', restore'[k].row # << >> PROVE Finds(k)'
        OBVIOUS
      <4>1. Unsent(k) /\ restore[k].row # << >> /\ restore'[k].row = restore[k].row
        BY <2>1 DEF Unsent
      <4>2. Finds(k)
        BY <2>0, <4>1 DEF RequestOK
      <4>3. QED
        BY <1>2, <2>1, <4>1, <4>2, FindsStays
    <3>2. restore'[k].at = "file" /\ restore'[k].row # << >> =>
            restore'[k].row = << restore'[k].title, restore'[k].from >>
      BY <2>0, <2>1 DEF RequestOK
    <3>3. QED
      BY <3>1, <3>2 DEF RequestOK
  <2>2. CASE Enter /\ restore'[k] = Request
    <3>1. screen = "panel" /\ restore_list_ready
          /\ UNCHANGED << ctx_title_id, snapshots, mixed, fetch >>
      BY <2>2, Zenon DEF Enter, list
    <3>2. restore'[k].at = "begin" /\ restore'[k].idx = restore_selected /\ restore'[k].row = Row
      BY <2>2, <3>1, NewRequest
    <3>3. ASSUME Row # << >> PROVE Finds(k)'
      <4>1. ~mixed /\ shown # << >> /\ Row = << ctx_title_id, shown[restore_selected + 1] >>
        BY <3>3, Zenon DEF Row
      <4>2. /\ ctx_title_id \in Titles /\ restore_selected < Len(ListOf(ctx_title_id))
            /\ shown[restore_selected + 1] = snapshots[restore_selected + 1]
            /\ snapshots[restore_selected + 1] = ListOf(ctx_title_id)[restore_selected + 1]
        BY <3>1, <4>1, ChosenRow
      <4>3. \A j \in Fetches : fetch[j].at = "none"
        <5>1. \A j \in Fetches : fetch[j].at # "none" => ~restore_list_ready
          BY <4>1, Zenon DEF ChoiceInv, ListsInv, OneFetch
        <5>2. QED
          BY <3>1, <5>1, Zenon
      <4>4. ~mixed'
        BY <3>1, <4>1, Zenon
      <4>5. QED
        BY <3>1, <3>2, <4>1, <4>2, <4>3, <4>4 DEF Finds
    <3>4. QED
      BY <3>2, <3>3 DEF RequestOK
  <2>3. CASE RestoreStep(k)
    <3>1. CASE RestoreBegin(k)
      <4>1. /\ restore'[k].at = "connect" /\ restore[k].at = "begin"
            /\ restore'[k].idx = restore[k].idx /\ restore'[k].row = restore[k].row
        BY <1>0, <3>1 DEF RestoreBegin, ThreadsOK, RestoreRecords
      <4>2. ASSUME restore'[k].row # << >> PROVE Finds(k)'
        <5>1. Unsent(k) /\ Unsent(k)' /\ Finds(k)
          BY <2>0, <4>1, <4>2 DEF Unsent, RequestOK
        <5>2. QED
          BY <1>2, <4>1, <4>2, <5>1, FindsStays
      <4>3. QED
        BY <4>1, <4>2 DEF RequestOK
    <3>2. CASE RestoreAsk(k)
      <4>1. /\ restore[k].at = "connect" /\ restore'[k].at = "file"
            /\ restore'[k].title = ctx_title_id /\ restore'[k].row = restore[k].row
            /\ restore'[k].from = snapshots[restore[k].idx + 1]
        BY <1>0, <3>2 DEF RestoreAsk, ThreadsOK
      <4>2. restore[k].row # << >> => Finds(k)
        BY <2>0, <4>1 DEF RequestOK, Unsent
      <4>3. QED
        BY <4>1, <4>2 DEF RequestOK, Unsent, Finds
    <3>3. CASE RestoreFile(k)
      <4>1. /\ restore'[k].at = "file" /\ restore[k].at = "file"
            /\ restore'[k].title = restore[k].title /\ restore'[k].from = restore[k].from
            /\ restore'[k].row = restore[k].row
        BY <1>0, <3>3 DEF RestoreFile, ThreadsOK, RestoreRecords
      <4>2. QED
        BY <2>0, <4>1 DEF RequestOK, Unsent
    <3>4. CASE RestoreEnd(k)
      <4>1. restore'[k].at = "none"
        BY <1>0, <3>4 DEF RestoreEnd, ThreadsOK, NoRestore
      <4>2. QED
        BY <4>1 DEF RequestOK, Unsent
    <3>5. QED
      BY <2>3, <3>1, <3>2, <3>3, <3>4 DEF RestoreStep
  <2>4. QED
    BY <1>2, <2>1, <2>2, <2>3, OtherRestores
<1>3. QED
  BY <1>1, <1>2, Zenon DEF RequestsInv

(***************************************************************************)
(* The theorems.                                                           *)
(***************************************************************************)

LEMMA ChoiceInit == Init => ChoiceInv
<1> SUFFICES ASSUME Init PROVE ChoiceInv
  OBVIOUS
<1>1. InterfaceOK
  <2>1. /\ placeholder \in BOOLEAN /\ restore_list_ready \in BOOLEAN
        /\ restore_list_built \in BOOLEAN /\ restore_in_progress \in BOOLEAN
    BY Zenon DEF Init
  <2>2. QED
    BY <2>1 DEF Init, InterfaceOK, Labels, NoLabels
<1>2. ThreadsOK
  BY NoRecords DEF Init, ThreadsOK
<1>3. Shapes
  <2>1. mixed \in BOOLEAN
    BY Zenon DEF Init
  <2>2. QED
    BY <2>1, RestoreAssumption DEF Init, Shapes
<1>4. WorkHasTitle
  BY DEF Init, WorkHasTitle, FetchHasTitle, RestoreHasTitle, NoFetch, NoRestore
<1>5. ListsInv
  BY DEF Init, ListsInv, OneFetch, ListIsTitles, RowsAreList, NoFetch
<1>6. RequestsInv
  BY DEF Init, RequestsInv, RequestOK, Unsent, NoRestore
<1>7. QED
  BY <1>1, <1>2, <1>3, <1>4, <1>5, <1>6, Zenon DEF ChoiceInv

(* The interface and the threads agree on the title, the list and the row  *)
(* without a lock, as far as a user in haste leaves them to.               *)
THEOREM ChoiceInvariant == Spec => []ChoiceInv
<1>1. ChoiceInv /\ [Next]_vars => ChoiceInv'
  <2> SUFFICES ASSUME ChoiceInv, [Next]_vars PROVE ChoiceInv'
    OBVIOUS
  <2>1. InterfaceOK' /\ ThreadsOK'
    BY InterfaceStays, FetchesStay, RestoresStay DEF ChoiceInv, ThreadsOK
  <2>2. mixed' \/ ListsInv'
    BY ListsStay, Zenon
  <2>3. QED
    BY <2>1, <2>2, ShapesStay, WorkStays, RequestsStay, Zenon DEF ChoiceInv
<1>2. QED
  BY ChoiceInit, <1>1, PTL DEF Spec

(* A request that kept its row restores what the user saw in that row, to  *)
(* the title whose row it was.                                             *)
THEOREM OnlyChosenIsEverRestored == Spec => []OnlyChosenIsRestored
<1>1. ChoiceInv => OnlyChosenIsRestored
  BY DEF ChoiceInv, RequestsInv, RequestOK, OnlyChosenIsRestored
<1>2. QED
  BY ChoiceInvariant, <1>1, PTL

(* The rows on the screen are the title's snapshots, in the order in which *)
(* an index is understood by the thread that restores.                     *)
THEOREM RowsAreAlwaysTitles == Spec => []ShownListIsTitles
<1>1. ChoiceInv => ShownListIsTitles
  <2> SUFFICES ASSUME ChoiceInv, screen = "panel", shown # << >>, ~mixed
               PROVE  /\ Len(shown) <= Len(ListOf(ctx_title_id))
                      /\ \A n \in 1..Len(shown) :
                           shown[n] = ListOf(ctx_title_id)[n] /\ shown[n] = snapshots[n]
                      /\ restore_selected < Len(shown)
    BY Zenon DEF ShownListIsTitles
  <2>1. ListsInv
    BY Zenon DEF ChoiceInv
  <2>2. QED
    BY <2>1 DEF ListsInv, ListIsTitles, RowsAreList
<1>2. QED
  BY ChoiceInvariant, <1>1, PTL

(* Nothing is read from or sent for what is not there, and nothing is      *)
(* written behind the array but by fetches that are mixed.                 *)
THEOREM RestoreInvariant == Spec => []RestoreInv
<1>1. ChoiceInv => RestoreTypeOK
  <2> SUFFICES ASSUME ChoiceInv PROVE RestoreTypeOK
    OBVIOUS
  <2>1. InterfaceOK /\ ThreadsOK /\ Shapes /\ WorkHasTitle
    BY DEF ChoiceInv
  <2>2. { placeholder, restore_list_ready, restore_list_built, restore_in_progress } \subseteq BOOLEAN
        /\ mixed \in BOOLEAN
    BY <2>1, Zenon DEF InterfaceOK, Shapes
  <2>3. label \in [ DOMAIN NoLabels -> {"null", "live", "gone"} ]
    BY <2>1 DEF InterfaceOK, Labels, NoLabels
  <2>4. \A k \in Fetches :
          fetch[k].at \in {"none", "begin", "connect", "entries"} /\ fetch[k].next \in 1..MaxSnapshots + 1
    BY <2>1 DEF ThreadsOK, FetchRecords
  <2>5. \A k \in Restores :
          /\ restore[k].at \in {"none", "begin", "connect", "file"}
          /\ restore[k].at = "none" \/ restore[k].idx \in 0..MaxSnapshots - 1
          /\ restore[k].at = "file" =>
               /\ restore[k].title \in Titles /\ restore[k].from \in Names
               /\ restore[k].left \subseteq RootsOf(restore[k].from, restore[k].title)
    BY <2>1 DEF ThreadsOK, RestoreRecords, WorkHasTitle, RestoreHasTitle
  <2>6. QED
    BY <2>1, <2>2, <2>3, <2>4, <2>5, Zenon DEF RestoreTypeOK, InterfaceOK, Shapes
<1>2. ChoiceInv => ListFits
  <2> SUFFICES ASSUME ChoiceInv, ~mixed, NEW k \in Fetches,
                      fetch[k].at = "entries", fetch[k].next <= LastLine(fetch[k].of)
               PROVE  snapshot_count < MaxSnapshots
    BY Zenon DEF ListFits
  <2>1. fetch[k].next = snapshot_count + 1 /\ fetch[k].next \in 1..MaxSnapshots
    BY EntryIsListed, Zenon DEF ChoiceInv, ListsInv, OneFetch
  <2>2. QED
    BY <2>1, RestoreAssumption DEF ChoiceInv, Shapes
<1>3. ChoiceInv /\ ShownListIsTitles => RestoreInv
  BY <1>1, <1>2 DEF RestoreInv
<1>4. QED
  BY ChoiceInvariant, RowsAreAlwaysTitles, <1>3, PTL

================================================================================
