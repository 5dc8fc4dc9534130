----------------------------- MODULE StartupProofs -----------------------------
(***************************************************************************)
(* Proofs about Startup, for any settings and servers and any number of    *)
(* starts, saves and power cuts: the table has what was saved last, and    *)
(* the dashboard runs with what it would read after a restart.             *)
(***************************************************************************)
EXTENDS Startup, TLAPS

(* Blobs and settings of every origin have their types.                    *)
LEMMA SettingsTypes ==
  /\ Blank \in Settings
  /\ config \in Servers \cup {NoServer} => Defaults \in Settings
  /\ \A b \in Blob : Migrated(b) \in Settings
  /\ \A s \in Settings : config \in Servers \cup {NoServer} => Overridden(s) \in Settings
  /\ \A s \in Settings : [ version |-> 5, data |-> s ] \in Blob
  /\ NoBlob \notin Blob
<1>1. Blank \in Settings
  BY StartupAssumption DEF Blank, Settings, Looks, Nets
<1>2. config \in Servers \cup {NoServer} => Defaults \in Settings
  BY StartupAssumption DEF Defaults, Settings, Looks, Nets
<1>3. \A b \in Blob : Migrated(b) \in Settings
  BY DEF Migrated, Blob, Settings, Looks, Nets
<1>4. \A s \in Settings : config \in Servers \cup {NoServer} => Overridden(s) \in Settings
  BY DEF Overridden, Settings
<1>5. \A s \in Settings : [ version |-> 5, data |-> s ] \in Blob
  BY DEF Blob
<1>6. NoBlob \notin Blob
  BY DEF Blob, NoBlob
<1>7. QED
  BY <1>1, <1>2, <1>3, <1>4, <1>5, <1>6

(* What is read of a blob as the current version writes it, and that the   *)
(* configured server is put in once and for all.                           *)
LEMMA Reread ==
  /\ \A s \in Settings : Migrated([ version |-> 5, data |-> s ]) = s
  /\ \A s \in Settings : Overridden(Overridden(s)) = Overridden(s)
  /\ Overridden(Defaults) = Defaults
<1>1. \A s \in Settings : Migrated([ version |-> 5, data |-> s ]) = s
  BY DEF Migrated, Settings
<1>2. \A s \in Settings : Overridden(Overridden(s)) = Overridden(s)
  BY DEF Overridden, Settings
<1>3. Overridden(Defaults) = Defaults
  BY DEF Overridden, Defaults
<1>4. QED
  BY <1>1, <1>2, <1>3

(* The Boolean variables stay Boolean.                                     *)
LEMMA FlagsStay == FlagsOK /\ [Next]_vars => FlagsOK'
<1> SUFFICES ASSUME FlagsOK, [Next]_vars PROVE FlagsOK'
  OBVIOUS
<1> USE DEF FlagsOK, disk, boot, ui, history
<1>1. CASE Program
  <2>1. CASE RemoveDb \/ RebuildDone \/ CleanScreen \/ ReadSettings
    BY <2>1, Zenon DEF RemoveDb, RebuildDone, CleanScreen, ReadSettings
  <2>2. CASE CheckTables
    BY <2>2, Zenon DEF CheckTables, Proceed
  <2>3. CASE CreateTable
    BY <2>3, Zenon DEF CreateTable, Proceed
  <2>4. CASE Delete \/ Insert \/ Override
    BY <2>4, Zenon DEF Delete, Insert, Override
  <2>5. QED
    BY <1>1, <2>1, <2>2, <2>3, <2>4 DEF Program
<1>2. CASE User
  <2>1. CASE OpenPanel \/ EnterNetwork \/ LeaveNetwork \/ ApplyNetwork
    BY <2>1, Zenon DEF OpenPanel, EnterNetwork, LeaveNetwork, ApplyNetwork
  <2>2. CASE Edit \/ ClosePanel \/ ClearRecent \/ RemoteVsync
    BY <2>2, Zenon DEF Edit, ClosePanel, ClearRecent, RemoteVsync
  <2>3. CASE ForgetTitles
    BY <2>3, Zenon DEF ForgetTitles, Off
  <2>4. QED
    BY <1>2, <2>1, <2>2, <2>3 DEF User
<1>3. CASE SwitchOn \/ RebuildInserts \/ Configure
  BY <1>3, Zenon DEF SwitchOn, RebuildInserts, Configure
<1>4. CASE ProgressStarts \/ ProgressLooks \/ ProgressWrites
  BY <1>4, Zenon DEF ProgressStarts, ProgressLooks, ProgressWrites, Off
<1>5. CASE PowerCut
  <2>1. torn' = TRUE \/ torn' = FALSE
    BY <1>5, Zenon DEF PowerCut
  <2>2. QED
    BY <1>5, <2>1, Zenon DEF PowerCut, Off
<1>6. CASE UNCHANGED vars
  BY <1>6, Zenon DEF vars
<1>7. QED
  BY <1>1, <1>2, <1>3, <1>4, <1>5, <1>6 DEF Next, Progress

(* Type correctness of Startup: in particular the flag of the two threads  *)
(* is freed exactly when nobody reads it any more.                         *)
THEOREM StartTypeCorrect == Spec => []StartTypeOK
<1>1. Init => StartTypeOK
  <2>1. Init => FlagsOK
    BY Zenon DEF Init, FlagsOK
  <2>2. Init => rows \in Seq(Blob) /\ saved \in Blob \cup {NoBlob}
    <3>1. \A b \in Blob : << b >> \in Seq(Blob)
      OBVIOUS
    <3>2. << >> \in Seq(Blob)
      OBVIOUS
    <3>3. QED
      BY <3>1, <3>2, Zenon DEF Init
  <2>3. QED
    BY <2>1, <2>2, SettingsTypes DEF Init, StartTypeOK, Nets
<1>2. StartTypeOK /\ [Next]_vars => StartTypeOK'
  <2> SUFFICES ASSUME StartTypeOK, [Next]_vars PROVE StartTypeOK'
    OBVIOUS
  <2>f. FlagsOK'
    BY FlagsStay DEF StartTypeOK
  <2> USE DEF StartTypeOK, disk, boot, ui, history
  <2>1. CASE SwitchOn
    BY <2>1, <2>f, SettingsTypes DEF SwitchOn
  <2>2. CASE RemoveDb
    BY <2>2, <2>f DEF RemoveDb
  <2>3. CASE CheckTables
    <3>1. CASE table = "ok"
      <4>1. pc' \in {"rebuild", "create"}
        BY <2>3, <3>1, Zenon DEF CheckTables, Proceed
      <4>2. \/ complete' = "no" /\ progress' = "start"
            \/ complete' = complete /\ progress' = progress /\ pc' = "create"
        BY <2>3, <3>1, Zenon DEF CheckTables, Proceed
      <4>3. UNCHANGED << table, rows, config, after, settings, panel, snapshot, kept, saved >>
        BY <2>3, <3>1, Zenon DEF CheckTables
      <4>4. QED
        BY <2>f, <4>1, <4>2, <4>3
    <3>2. CASE table # "ok"
      BY <2>3, <2>f, <3>2 DEF CheckTables
    <3>3. QED
      BY <3>1, <3>2
  <2>4. CASE CreateTable
    BY <2>4, <2>f DEF CreateTable, Proceed
  <2>5. CASE RebuildDone
    BY <2>5, <2>f DEF RebuildDone
  <2>6. CASE CleanScreen
    BY <2>6, <2>f DEF CleanScreen
  <2>7. CASE ReadSettings
    <3>1. rows # << >> => rows[1] \in Blob
      OBVIOUS
    <3>2. QED
      BY <2>7, <2>f, <3>1, SettingsTypes DEF ReadSettings, SettingsRead
  <2>8. CASE Delete
    BY <2>8, <2>f DEF Delete
  <2>9. CASE Insert
    <3>1. saved' \in Blob
      BY <2>9, SettingsTypes DEF Insert
    <3>2. QED
      BY <2>9, <2>f, <3>1 DEF Insert
  <2>10. CASE Override
    BY <2>10, <2>f, SettingsTypes DEF Override, Settings
  <2>11. CASE RebuildInserts
    BY <2>11, <2>f DEF RebuildInserts
  <2>12. CASE ProgressStarts \/ ProgressLooks
    BY <2>12, <2>f, SettingsTypes DEF ProgressStarts, ProgressLooks, Off, Nets
  <2>13. CASE ProgressWrites
    BY <2>13, <2>f, SettingsTypes DEF ProgressWrites, Off, Nets
  <2>14. CASE OpenPanel \/ EnterNetwork \/ LeaveNetwork
    BY <2>14, <2>f DEF OpenPanel, EnterNetwork, LeaveNetwork, Settings
  <2>15. CASE Edit
    BY <2>15, <2>f DEF Edit, Settings, Looks
  <2>16. CASE ApplyNetwork
    BY <2>16, <2>f DEF ApplyNetwork, Apply, Settings
  <2>17. CASE ClosePanel
    BY <2>17, <2>f DEF ClosePanel, Apply, Settings
  <2>18. CASE ClearRecent
    BY <2>18, <2>f DEF ClearRecent, Apply, Settings
  <2>19. CASE RemoteVsync
    BY <2>19, <2>f DEF RemoteVsync, Settings, Looks
  <2>20. CASE ForgetTitles
    BY <2>20, <2>f, SettingsTypes DEF ForgetTitles, Off, Nets
  <2>21. CASE PowerCut
    BY <2>21, <2>f, SettingsTypes DEF PowerCut, Off, Nets
  <2>22. CASE Configure
    BY <2>22, <2>f DEF Configure
  <2>23. CASE UNCHANGED vars
    BY <2>23, <2>f DEF vars
  <2>24. QED
    BY <2>1, <2>2, <2>3, <2>4, <2>5, <2>6, <2>7, <2>8, <2>9, <2>10, <2>11, <2>12, <2>13,
       <2>14, <2>15, <2>16, <2>17, <2>18, <2>19, <2>20, <2>21, <2>22, <2>23
       DEF Next, Program, Progress, User
<1>3. QED
  BY <1>1, <1>2, PTL DEF Spec

(* The inductive invariant of the settings.                                *)
THEOREM StartInvariant == Spec => []StartInv
<1>1. Init => StartInv
  BY DEF Init, StartInv, SettingsAreKept, MemoryIsSaved
<1>2. StartTypeOK /\ StartInv /\ [Next]_vars => StartInv'
  <2> SUFFICES ASSUME StartTypeOK, StartInv, [Next]_vars PROVE StartInv'
    OBVIOUS
  <2> USE DEF StartInv, SettingsAreKept, MemoryIsSaved, Defaults, Overridden, disk, boot, ui, history
  <2>t. /\ settings \in Settings /\ rows \in Seq(Blob)
        /\ rows # << >> => rows[1] \in Blob
        /\ config \in Servers \cup {NoServer} /\ snapshot \in Nets
    BY DEF StartTypeOK
  <2>1. CASE SwitchOn
    BY <2>1 DEF SwitchOn
  <2>2. CASE RemoveDb
    BY <2>2 DEF RemoveDb
  <2>3. CASE CheckTables
    BY <2>3 DEF CheckTables, Proceed
  <2>4. CASE CreateTable
    BY <2>4 DEF CreateTable, Proceed
  <2>5. CASE RebuildDone
    BY <2>5 DEF RebuildDone
  <2>6. CASE CleanScreen
    BY <2>6 DEF CleanScreen
  <2>7. CASE ReadSettings
    BY <2>7 DEF ReadSettings, SettingsRead
  <2>8. CASE Delete
    BY <2>8 DEF Delete
  <2>9. CASE Insert
    <3>1. rows' = << saved' >>
      BY <2>9 DEF Insert
    <3>2. Migrated(saved') = settings
      BY <2>9, <2>t, Reread DEF Insert
    <3>3. rows' # << >> /\ rows'[1] = saved'
      BY <3>1
    <3>4. /\ table' = table /\ config' = config /\ settings' = settings
          /\ pc' = after /\ after' = "up"
      BY <2>9, Zenon DEF Insert
    <3>5. after = "up" => settings = Overridden(settings)
      BY <2>9, Zenon DEF Insert
    <3>6. table = "ok" /\ after \in {"override", "up"}
      BY <2>9 DEF Insert, StartTypeOK
    <3>7. Migrated(rows[1])' = settings'
      BY <3>2, <3>3, <3>4 DEF Migrated
    <3>8. QED
      BY <3>1, <3>3, <3>4, <3>5, <3>6, <3>7
  <2>10. CASE Override
    BY <2>10, <2>t, SettingsTypes, Reread DEF Override
  <2>11. CASE RebuildInserts
    BY <2>11 DEF RebuildInserts
  <2>12. CASE ProgressStarts \/ ProgressLooks
    <3>1. \/ UNCHANGED << table, rows, config, pc, after, settings, panel, saved, torn, unsaved >>
          \/ /\ pc' = "off" /\ after' = "up" /\ UNCHANGED << table, rows, config, saved >>
             /\ torn' = (torn \/ pc = "insert")
      BY <2>12, Zenon DEF ProgressStarts, ProgressLooks, Off
    <3>2. CASE UNCHANGED << table, rows, config, pc, after, settings, panel, saved, torn, unsaved >>
      BY <3>2
    <3>3. CASE /\ pc' = "off" /\ after' = "up" /\ UNCHANGED << table, rows, config, saved >>
               /\ torn' = (torn \/ pc = "insert")
      BY <3>3
    <3>4. QED
      BY <3>1, <3>2, <3>3
  <2>13. CASE ProgressWrites
    BY <2>13 DEF ProgressWrites, Off, LockFree
  <2>14. CASE OpenPanel \/ EnterNetwork \/ LeaveNetwork
    BY <2>14 DEF OpenPanel, EnterNetwork, LeaveNetwork
  <2>15. CASE Edit
    BY <2>15, <2>t DEF Edit, Settings
  <2>16. CASE ApplyNetwork
    BY <2>16 DEF ApplyNetwork, Apply
  <2>17. CASE ClosePanel
    BY <2>17, <2>t DEF ClosePanel, Apply, Settings
  <2>18. CASE ClearRecent
    BY <2>18, <2>t DEF ClearRecent, Apply, Settings
  <2>19. CASE RemoteVsync
    BY <2>19, <2>t DEF RemoteVsync, Settings
  <2>20. CASE ForgetTitles
    BY <2>20 DEF ForgetTitles, Off
  <2>21. CASE PowerCut
    BY <2>21 DEF PowerCut, Off
  <2>22. CASE Configure
    BY <2>22 DEF Configure
  <2>23. CASE UNCHANGED vars
    BY <2>23 DEF vars
  <2>24. QED
    BY <2>1, <2>2, <2>3, <2>4, <2>5, <2>6, <2>7, <2>8, <2>9, <2>10, <2>11, <2>12, <2>13,
       <2>14, <2>15, <2>16, <2>17, <2>18, <2>19, <2>20, <2>21, <2>22, <2>23
       DEF Next, Program, Progress, User
<1>3. QED
  BY <1>1, <1>2, StartTypeCorrect, PTL DEF Spec

(* Settings that were saved are in the table, unless the program ended     *)
(* between dash_settings_apply's two statements.                                   *)
THEOREM SettingsAlwaysKept == Spec => []SettingsAreKept
<1>1. StartInv => SettingsAreKept
  BY DEF StartInv
<1>2. QED
  BY <1>1, StartInvariant, PTL

(* The dashboard runs with the settings that a restart would read.         *)
THEOREM MemoryAlwaysSaved == Spec => []MemoryIsSaved
<1>1. StartInv => MemoryIsSaved
  BY DEF StartInv
<1>2. QED
  BY <1>1, StartInvariant, PTL
================================================================================
